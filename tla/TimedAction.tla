---------------------------- MODULE TimedAction ----------------------------
(***************************************************************************)
(* trainer/src/bridge/timed_action_bridge.cpp: a switch of the player is   *)
(* forced on while the feature is requested, and put back as it was when   *)
(* it is not.  On a server the role of the connection must allow it.       *)
(***************************************************************************)
EXTENDS GameSession

VARIABLE timed

vars == <<timed, game, bounds>>

\* instant[p] is the switch of player p, own[p] what the game had set, granted whether
\* the role has the capability; forfeited are players whose original was dropped.
TimedTypeOK ==
  timed \in [requested : BOOLEAN, applied : BOOLEAN, owner : met \cup {NoPlayer},
             original : {{}, {FALSE}, {TRUE}}, granted : BOOLEAN,
             instant : [Players -> BOOLEAN], own : [Players -> BOOLEAN],
             forfeited : SUBSET met]

Init ==
  /\ GameInit
  /\ \E own \in [Players -> BOOLEAN] :
       timed = [requested |-> FALSE, applied |-> FALSE, owner |-> NoPlayer,
                original |-> {}, granted |-> FALSE, instant |-> own, own |-> own,
                forfeited |-> {}]

\* The server gives the role the capability or takes it away.
ChangeRole ==
  /\ timed' = [timed EXCEPT !.granted = ~@]
  /\ Request
  /\ UNCHANGED game

SetTimedActionInstantEnabled(enabled) ==
  /\ timed' = [timed EXCEPT !.requested = enabled, !.applied = FALSE]
  /\ Request
  /\ UNCHANGED game

\* No JNI environment, no bindings, or no player.
UpdateWithoutPlayer ==
  /\ (player = NoPlayer /\ NoFault) \/ Fault
  /\ timed' = [timed EXCEPT !.applied = FALSE]

\* ResetPlayer: whatever was remembered is gone.
Forget(state) ==
  [state EXCEPT !.owner = NoPlayer, !.original = {},
     !.forfeited = IF state.original = {} THEN @ ELSE @ \cup {state.owner}]

\* The role does not allow it, or could not be read.
UpdateDenied ==
  /\ player # NoPlayer /\ Online
  /\ (~timed.granted /\ NoFault) \/ Fault
  /\ timed' = [Forget(timed) EXCEPT !.requested = FALSE, !.applied = FALSE]

\* Faulty variant of Owned: another player is taken for the known one.
OwnedByAnyone == [timed EXCEPT !.owner = player]

\* The state belongs to the player of this frame.
Owned ==
  IF timed.owner = player THEN timed ELSE [Forget(timed) EXCEPT !.owner = player]

\* The switch as it was, read once.
Captured ==
  IF Owned.original # {} THEN Owned
  ELSE [Owned EXCEPT !.original = {timed.instant[player]}]

CaptureFails ==
  /\ timed.requested
  /\ Owned.original = {}
  /\ Fault
  /\ timed' = [Owned EXCEPT !.applied = FALSE]

\* It is written; a call that throws may have taken effect.
Force ==
  /\ timed.requested
  /\ \/ NoFault /\ timed' = [Captured EXCEPT !.instant[player] = TRUE, !.applied = TRUE]
     \/ Fault /\ \E set \in {TRUE, timed.instant[player]} :
          timed' = [Captured EXCEPT !.instant[player] = set, !.applied = FALSE]

\* Faulty variant of Restore: the original is dropped though it was not written.
RestoreOrForget ==
  /\ ~timed.requested
  /\ \/ /\ NoFault
        /\ timed' = [Owned EXCEPT !.applied = TRUE, !.original = {},
                       !.instant[player] = IF Owned.original = {} THEN @
                                           ELSE CHOOSE b \in Owned.original : TRUE]
     \/ Fault /\ timed' = [Owned EXCEPT !.applied = FALSE, !.original = {}]

Restore ==
  /\ ~timed.requested
  /\ \/ /\ NoFault
        /\ timed' = [Owned EXCEPT !.applied = TRUE, !.original = {},
                       !.instant[player] = IF Owned.original = {} THEN @
                                           ELSE CHOOSE b \in Owned.original : TRUE]
     \/ /\ Fault /\ Owned.original # {}
        /\ \E set \in Owned.original \cup {timed.instant[player]} :
             timed' = [Owned EXCEPT !.applied = FALSE, !.instant[player] = set]

\* UpdateTimedActionBridge.
Update ==
  /\ \/ UpdateWithoutPlayer
     \/ UpdateDenied
     \/ /\ player # NoPlayer
        /\ Online => timed.granted
        /\ CaptureFails \/ Force \/ Restore
  /\ UNCHANGED <<game, requests>>

Next ==
  \/ Play /\ UNCHANGED timed
  \/ ChangeRole
  \/ \E enabled \in BOOLEAN : SetTimedActionInstantEnabled(enabled)
  \/ Update

Spec == Init /\ [][Next]_vars

-----------------------------------------------------------------------------
(* Properties.                                                             *)

\* The original that is kept is the game's own setting of that very player, whatever
\* failed and whoever was the player before, unless an original was dropped earlier.
TimedOriginalIsOwn ==
  timed.original # {} /\ timed.owner \notin timed.forfeited =>
    timed.original = {timed.own[timed.owner]}

\* When the status says that the normal speed is back, it is; a player whose original
\* was dropped with the permission is the exception.
TimedOffMeansOff ==
  ~timed.requested /\ timed.applied /\ timed.owner = player /\ player \notin timed.forfeited =>
    timed.instant[player] = timed.own[player]
=============================================================================
