---------------------------- MODULE WeaponUnload ----------------------------
(***************************************************************************)
(* trainer/src/bridge/ammo_item_bridge.cpp and magazine_item_bridge.cpp: a *)
(* weapon that is empty is filled, here and on the server, and the game    *)
(* empties it again by its own action: once for all the rounds, once for   *)
(* each magazine.                                                          *)
(***************************************************************************)
EXTENDS GameSession

CONSTANT Blocking  \* whether a frame bars synchronous calls of the game thread

VARIABLE unload

vars == <<unload, game, bounds>>

Phases == {"Idle", "WaitingToUnload", "WaitingForCompletion"}

\* here and there: the weapon is loaded in the game, and for the server; acting: the
\* server was asked to empty it.  other: it is not the weapon of the request any more.
\* History: made counts what the server took out for the request; unsent: a later filling
\* failed, which leaves the weapon as it is, or an earlier action was not over.
UnloadTypeOK ==
  unload \in [blocked : BOOLEAN, kind : {"ammo", "magazine"}, phase : Phases,
              requested : 0 .. 2, remaining : 0 .. 2, held : BOOLEAN, other : BOOLEAN,
              here : BOOLEAN, there : BOOLEAN, acting : BOOLEAN, made : 0 .. 3,
              unsent : BOOLEAN]

Init ==
  /\ GameInit
  /\ \E b \in Blocking, kind \in {"ammo", "magazine"} :
       unload = [blocked |-> b, kind |-> kind, phase |-> "Idle", requested |-> 0,
                 remaining |-> 0, held |-> FALSE, other |-> FALSE, here |-> FALSE,
                 there |-> FALSE, acting |-> FALSE, made |-> 0, unsent |-> FALSE]

-----------------------------------------------------------------------------
(* The game.                                                               *)

Live ==
  /\ Play
  /\ unload' = [unload EXCEPT !.held = FALSE, !.other = TRUE, !.here = FALSE,
                  !.there = FALSE, !.acting = FALSE]

\* The weapon is taken in hand, or put away.
Take ==
  /\ player # NoPlayer
  /\ unload' = [unload EXCEPT !.held = ~@]
  /\ Request
  /\ UNCHANGED game

Emptied(u) ==
  [u EXCEPT !.here = FALSE, !.there = FALSE, !.acting = FALSE,
            !.made = IF u.there /\ @ < 3 THEN @ + 1 ELSE @]

\* The player empties it himself.
Empty ==
  /\ unload.there /\ ~unload.acting
  /\ unload' = Emptied(unload)
  /\ Request
  /\ UNCHANGED game

Act ==
  /\ unload.acting
  /\ \/ unload' = Emptied(unload) /\ NoFault
     \/ unload' = [unload EXCEPT !.acting = FALSE] /\ Fault
  /\ UNCHANGED <<game, requests>>

-----------------------------------------------------------------------------
(* The bridge.                                                             *)

\* GetEquippedWeapon and FindWeaponInContainer ask the game thread.
Finds(u) == ~u.blocked /\ u.held /\ ~u.other

\* SyncWeapon, SyncInsertedEmptyMagazine
Synced(u) ==
  [u EXCEPT !.here = TRUE, !.there = TRUE, !.phase = "WaitingToUnload"]

\* Faulty variant of Refused: the weapon stays as it is.
RefusedLoaded(u) == [u EXCEPT !.phase = "Idle", !.here = TRUE]

\* The first filling is undone here when it cannot be sent.
Refused(u) == [u EXCEPT !.phase = "Idle", !.here = FALSE]

\* A later one is not.
Stopped(u) == [u EXCEPT !.phase = "Idle", !.here = TRUE, !.unsent = TRUE]

\* QueueWeaponMagazineExtraction, QueueWeaponAmmoExtraction
Queue(quantity) ==
  /\ player # NoPlayer /\ Online
  /\ unload.phase = "Idle" /\ unload.held /\ ~unload.blocked /\ ~unload.here
  /\ LET u == [unload EXCEPT !.other = FALSE, !.made = 0, !.unsent = unload.acting,
                 !.requested = IF unload.kind = "ammo" THEN 1 ELSE quantity,
                 !.remaining = IF unload.kind = "ammo" THEN 1 ELSE quantity]
     IN \/ unload' = Synced(u) /\ UNCHANGED faults
        \/ unload' = Refused([u EXCEPT !.remaining = u.requested]) /\ Fault
  /\ requests < MaxRequests /\ requests' = requests + 1
  /\ UNCHANGED game

\* Faulty variant of IsEmpty: the weapon is taken to be empty when the action began.
IsEmptyAtOnce(u) == TRUE

IsEmpty(u) == ~u.here

Counted(u) == [u EXCEPT !.remaining = @ - 1]

\* The frame that finds the weapon.
Proceeded(u) ==
  IF u.phase = "WaitingToUnload"
  THEN [u EXCEPT !.acting = TRUE, !.phase = "WaitingForCompletion"]
  ELSE IF ~IsEmpty(u) THEN u
  ELSE IF u.remaining = 1 THEN [Counted(u) EXCEPT !.phase = "Idle"]
  ELSE Synced(Counted(u))

\* A call that fails: of the action, or of the next filling.
Failed(u) ==
  IF u.phase = "WaitingForCompletion" /\ IsEmpty(u) /\ u.remaining > 1
  THEN Stopped(Counted(u)) ELSE [u EXCEPT !.phase = "Idle"]

\* UpdateWeaponMagazineExtraction: a fault is a call that fails, or the deadline.
Update ==
  /\ player # NoPlayer /\ unload.phase # "Idle"
  /\ \/ Finds(unload) /\ unload' = Proceeded(unload) /\ NoFault
     \/ Finds(unload) /\ unload' = Failed(unload) /\ Fault
     \/ unload' = [unload EXCEPT !.phase = "Idle"] /\ Fault
  /\ UNCHANGED <<game, requests>>

Next ==
  \/ Live \/ Take \/ Empty \/ Act \/ Update
  \/ \E quantity \in 1 .. 2 : Queue(quantity)

Spec == Init /\ [][Next]_vars

-----------------------------------------------------------------------------
(* Properties.                                                             *)

\* What was counted was taken out by the server.
CountedWereMade == unload.requested - unload.remaining <= unload.made \/ unload.unsent

\* The server has the weapon as it is here, unless one filling of several failed.
ServerKnowsTheLoad == unload.here = unload.there \/ unload.unsent
=============================================================================
