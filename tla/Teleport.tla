------------------------------ MODULE Teleport ------------------------------
(***************************************************************************)
(* trainer/src/bridge/player_teleport_bridge.cpp: with Alt and a click on  *)
(* the world map the player is moved there, on a server at most once       *)
(* within the cooldown.                                                    *)
(***************************************************************************)
EXTENDS GameSession

CONSTANT Spots  \* places on the map

VARIABLE teleport

vars == <<teleport, game, bounds>>

\* here and there are the places of the player in the game and on the server.  jumps
\* counts them since the button was last seen up, sends since the cooldown began.
TeleportTypeOK ==
  teleport \in [enabled : BOOLEAN, down : BOOLEAN, cooling : BOOLEAN, mapOpen : BOOLEAN,
                here : Spots, there : Spots, unsent : BOOLEAN,
                jumps : 0 .. 2, sends : 0 .. 2]

Init ==
  /\ GameInit
  /\ \E s \in Spots :
       teleport = [enabled |-> FALSE, down |-> FALSE, cooling |-> FALSE, mapOpen |-> FALSE,
                   here |-> s, there |-> s, unsent |-> FALSE, jumps |-> 0, sends |-> 0]

\* A character that enters a world stands where the server has him.
Live ==
  /\ Play
  /\ teleport' = [teleport EXCEPT !.mapOpen = FALSE, !.there = teleport.here, !.unsent = FALSE,
                    !.sends = IF player' = NoPlayer THEN 0 ELSE @]

ToggleMap ==
  /\ player # NoPlayer
  /\ teleport' = [teleport EXCEPT !.mapOpen = ~@]
  /\ UNCHANGED <<game, bounds>>

\* The cooldown has passed.
CoolDown ==
  /\ teleport.cooling
  /\ teleport' = [teleport EXCEPT !.cooling = FALSE, !.sends = 0]
  /\ Request
  /\ UNCHANGED game

SetPlayerTeleportEnabled(enabled) ==
  /\ teleport' = [teleport EXCEPT !.enabled = enabled]
  /\ Request
  /\ UNCHANGED game

-----------------------------------------------------------------------------
(* The operation.                                                          *)

\* Faulty variant of ClickStarted: a button that is held clicks in every frame.
ButtonIsDown(t, down) == down

ClickStarted(t, down) == down /\ ~t.down

\* The button is noticed first, whatever comes of the frame; client is the flag of the
\* game, which a frame may find set or not while there is no player.
Noticed(t, down, client) ==
  [t EXCEPT !.down = down, !.jumps = IF down THEN @ ELSE 0, !.cooling = @ /\ client]

ClientFlags == IF player = NoPlayer THEN BOOLEAN ELSE {Online}

UpTo2(n) == IF n < 2 THEN n + 1 ELSE 2

\* TeleportPlayer: moved here, then sent; the cooldown begins when that went well.
Moved(t, s) == [t EXCEPT !.here = s, !.jumps = UpTo2(@)]

\* Faulty variant of Sent: the cooldown is for the menu only.
SentAgain(t) == [t EXCEPT !.there = t.here, !.unsent = FALSE, !.sends = UpTo2(@)]

Sent(t) ==
  [t EXCEPT !.there = t.here, !.unsent = FALSE, !.sends = UpTo2(@), !.cooling = TRUE]

Jumped(t, s) == IF Online THEN Sent(Moved(t, s)) ELSE [Moved(t, s) EXCEPT !.there = s]

\* A failure moves the player in part, entirely, or not at all.
Stranded(t, s) == {t, [Moved(t, s) EXCEPT !.unsent = TRUE]}

\* Where a click on the map leads to a jump.
Aims(t, down) ==
  /\ player # NoPlayer /\ t.enabled /\ t.mapOpen
  /\ ~(t.cooling /\ Online)
  /\ ClickStarted(t, down)

\* Initialize may fail, after the button was noticed.
Unready(down) ==
  /\ Fault
  /\ teleport' = Noticed(teleport, down, TRUE)

\* UpdatePlayerTeleportBridge.  alt: the key is held, and the pointer is on the map and
\* not on the menu.
UpdateWith(down, alt, client, s) ==
  LET t == Noticed(teleport, down, client) IN
  \/ ~(Aims(teleport, down) /\ alt) /\ NoFault /\ teleport' = t
  \/ Aims(teleport, down) /\ alt /\ NoFault /\ teleport' = Jumped(t, s)
  \/ Aims(teleport, down) /\ alt /\ Fault /\ teleport' \in Stranded(t, s)

Update ==
  /\ \E down, alt \in BOOLEAN : Unready(down) \/ \E client \in ClientFlags, s \in Spots :
          UpdateWith(down, alt, client, s)
  /\ UNCHANGED <<game, requests>>

Next ==
  \/ Live \/ ToggleMap \/ CoolDown \/ Update
  \/ \E enabled \in BOOLEAN : SetPlayerTeleportEnabled(enabled)

Spec == Init /\ [][Next]_vars

-----------------------------------------------------------------------------
(* Properties.                                                             *)

\* A press of the button moves the player once, however long it is held, and not at all
\* if it began before the map was open or the feature on.
OneJumpPerPress == teleport.jumps < 2

\* During a stay on a server it sees one jump within the cooldown.
OneJumpPerCooldown == teleport.sends < 2

\* The server has the player where he is, unless the jump could not be sent.
ServerKnowsThePlace == teleport.here = teleport.there \/ teleport.unsent
=============================================================================
