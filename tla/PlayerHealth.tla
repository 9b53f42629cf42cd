---------------------------- MODULE PlayerHealth ----------------------------
(***************************************************************************)
(* trainer/src/bridge/player_health_bridge.cpp: in a local world the       *)
(* player is protected while the user wants it and gets his own flags back *)
(* afterwards; and a damaged body is restored, on a server with a message  *)
(* that is sent at most every 100 ms.                                      *)
(*                                                                         *)
(* God mode and the avoidance of damage are written and restored together: *)
(* guard[p] stands for both.                                               *)
(***************************************************************************)
EXTENDS GameSession

VARIABLE health

vars == <<health, game, bounds>>

\* own[p] is what the game had set; lost are players whose flags could not be put back,
\* and swallowed tells that a restoration came too soon after the last message.
HealthTypeOK ==
  health \in [wanted : BOOLEAN, initialized : BOOLEAN, available : BOOLEAN,
              applied : BOOLEAN, owner : met \cup {NoPlayer}, previous : BOOLEAN,
              guard : [Players -> BOOLEAN], own : [Players -> BOOLEAN], lost : SUBSET met,
              infinite : BOOLEAN, hurt : BOOLEAN, hurtOnServer : BOOLEAN,
              recent : BOOLEAN, swallowed : BOOLEAN]

Init ==
  /\ GameInit
  /\ \E own \in [Players -> BOOLEAN] :
       health = [wanted |-> FALSE, initialized |-> FALSE, available |-> FALSE,
                 applied |-> FALSE, owner |-> NoPlayer, previous |-> FALSE,
                 guard |-> own, own |-> own, lost |-> {},
                 infinite |-> FALSE, hurt |-> FALSE, hurtOnServer |-> FALSE,
                 recent |-> FALSE, swallowed |-> FALSE]

\* A new player comes with a healthy body.
Live == Play /\ health' = [health EXCEPT !.hurt = FALSE, !.hurtOnServer = FALSE,
                             !.swallowed = FALSE]

Damage ==
  /\ player # NoPlayer /\ ~health.hurt
  /\ health' = [health EXCEPT !.hurt = TRUE, !.hurtOnServer = Online]
  /\ Request
  /\ UNCHANGED game

\* 100 ms have passed.
Elapse ==
  /\ health.recent
  /\ health' = [health EXCEPT !.recent = FALSE]
  /\ UNCHANGED <<game, bounds>>

SetInfiniteHealthEnabled(enabled) ==
  /\ health' = [health EXCEPT !.infinite = enabled]
  /\ Request
  /\ UNCHANGED game

\* A configuration may ask before the bridge is ready; later it depends on the helper.
SetInvincibilityEnabled(enabled) ==
  /\ ~health.initialized \/ health.available
  /\ health' = [health EXCEPT !.wanted = enabled]
  /\ Request
  /\ UNCHANGED game

-----------------------------------------------------------------------------
(* The operation.                                                          *)

\* Faulty variant of Removed: the flags of the present player are restored.
RemovedFromPresent(h, ok) ==
  IF ~h.applied THEN h
  ELSE [h EXCEPT !.applied = FALSE, !.owner = NoPlayer,
          !.guard = [p \in Players |-> IF ok /\ p = player THEN h.previous ELSE @[p]],
          !.lost = IF ok THEN @ ELSE @ \cup {h.owner}]

\* RemoveInvincibility: the flags go back to the player they were taken from, and are
\* forgotten even if that fails.
Removed(h, ok) ==
  IF ~h.applied THEN h
  ELSE [h EXCEPT !.applied = FALSE, !.owner = NoPlayer,
          !.guard[h.owner] = IF ok THEN h.previous ELSE @,
          !.lost = IF ok THEN @ ELSE @ \cup {h.owner}]

\* ApplyInvincibility.
Taken(h) == IF h.owner = player THEN h ELSE Removed(h, TRUE)

Protected(h) ==
  LET taken == Taken(h) IN
  [taken EXCEPT !.previous = IF taken.applied THEN @ ELSE taken.guard[player],
     !.applied = TRUE, !.owner = player, !.guard[player] = TRUE]

\* What the flags may be after the frame, if a call for them fails or none does.
Protection(h, fails) ==
  CASE player # NoPlayer /\ ~Online /\ h.wanted /\ ~fails -> {Protected(h)}
    [] player # NoPlayer /\ ~Online /\ h.wanted /\ fails ->
         {Taken(h), Removed(h, FALSE), Removed(h, TRUE),
          [Protected(h) EXCEPT !.guard[player] = Taken(h).guard[player]]}
    [] OTHER -> {Removed(h, ~fails)}

UpdateUninitialized ==
  /\ Fault
  /\ health' = [health EXCEPT !.initialized = FALSE, !.available = FALSE]

\* What the connection helper says.
Ready(available) == [health EXCEPT !.initialized = TRUE, !.available = available]

\* Faulty variant of Restored: the restoration stays local.
RestoredLocally(h, told) == [h EXCEPT !.hurt = FALSE]

\* RestoreToFullHealth, and sendPlayerDamage unless one was sent just now.
Restored(h, told) ==
  [h EXCEPT !.hurt = FALSE,
     !.hurtOnServer = @ /\ ~told, !.recent = told \/ @,
     !.swallowed = (@ /\ ~told) \/ (Online /\ h.recent)]

Body(h, fails) ==
  IF player = NoPlayer \/ ~h.infinite \/ ~h.hurt THEN {h}
  ELSE IF fails THEN {h, [Restored(h, FALSE) EXCEPT !.swallowed = Online]}
  ELSE {Restored(h, Online /\ ~h.recent)}

\* UpdatePlayerHealthBridge: the flags, then the body.
UpdateReady ==
  \E available \in BOOLEAN, failing \in {"nothing", "flags", "body"} :
    /\ IF failing = "nothing" THEN NoFault ELSE Fault
    /\ \E h \in Protection(Ready(available), failing = "flags") :
         health' \in Body(h, failing = "body")

Update ==
  /\ UpdateUninitialized \/ UpdateReady
  /\ UNCHANGED <<game, requests>>

Next ==
  \/ Live \/ Damage \/ Elapse
  \/ \E enabled \in BOOLEAN : SetInfiniteHealthEnabled(enabled) \/ SetInvincibilityEnabled(enabled)
  \/ Update

Spec == Init /\ [][Next]_vars

-----------------------------------------------------------------------------
(* Properties.                                                             *)

\* At most one player has flags that are not his own, the remembered one, and what is
\* remembered is his: deaths, new worlds and servers leave nobody protected, unless a
\* call that should have put the flags back failed.
OnlyTheOwnerIsProtected ==
  \A p \in Players \ health.lost :
    IF health.applied /\ p = health.owner THEN health.previous = health.own[p]
                                          ELSE health.guard[p] = health.own[p]

\* The server learns that the body is healthy again, unless the restoration fell into
\* the 100 ms after the last message: that one is never sent later.
ServerKnowsTheBody ==
  health.hurtOnServer => health.hurt \/ health.swallowed
=============================================================================
