--------------------------- MODULE PlayerMovement ---------------------------
(***************************************************************************)
(* trainer/src/bridge/player_movement_bridge.cpp and                       *)
(* player_movement_state_bridge.cpp: the no-clip switch of the player.  On *)
(* a server a state is declared to it first, refreshed while the switch is *)
(* on and withdrawn after it is off.                                       *)
(***************************************************************************)
EXTENDS GameSession

VARIABLE movement

vars == <<movement, game, bounds>>

Ages == {"never", "fresh", "due", "old"}

\* declared: state_declared; settled: the activation delay has passed since entered_at;
\* age: that of the last success, to be refreshed after 1 s and relied on for 3.5 s;
\* waiting: an attempt was made less than 500 ms ago.  History: told is whether this
\* server knows, carried whether the declaration was made to an earlier one; misread, that
\* the session could not be read, and the switch has not been turned since.
MovementTypeOK ==
  movement \in [requested : BOOLEAN, applied : BOOLEAN, noClip : BOOLEAN,
                declared : BOOLEAN, settled : BOOLEAN, age : Ages, waiting : BOOLEAN,
                ready : BOOLEAN, bound : BOOLEAN, told : BOOLEAN, carried : BOOLEAN,
                misread : BOOLEAN]

Init ==
  /\ GameInit
  /\ movement = [requested |-> FALSE, applied |-> FALSE, noClip |-> FALSE,
                 declared |-> FALSE, settled |-> FALSE, age |-> "never", waiting |-> FALSE,
                 ready |-> FALSE, bound |-> FALSE, told |-> FALSE, carried |-> FALSE,
                 misread |-> FALSE]

\* A new character walks; a new world is another server.
Live ==
  /\ Play
  /\ LET left == player' = NoPlayer IN
     movement' = [movement EXCEPT !.noClip = FALSE, !.told = @ /\ ~left,
                    !.carried = @ \/ (left /\ movement.declared)]

\* Time passes.
Elapse ==
  /\ \/ /\ movement.age \in {"fresh", "due"}
        /\ movement' = [movement EXCEPT !.age = IF @ = "fresh" THEN "due" ELSE "old"]
     \/ /\ movement.declared /\ ~movement.settled
        /\ movement' = [movement EXCEPT !.settled = TRUE]
     \/ /\ movement.waiting
        /\ movement' = [movement EXCEPT !.waiting = FALSE]
  /\ UNCHANGED <<game, bounds>>

SetNoClipEnabled(enabled) ==
  /\ movement' = [movement EXCEPT !.requested = enabled]
  /\ Request
  /\ UNCHANGED game

-----------------------------------------------------------------------------
(* The network state.                                                      *)

Withdrawn(m, sent) ==
  LET idle == [m EXCEPT !.ready = FALSE] IN
  IF ~m.declared \/ m.waiting THEN idle
  ELSE IF ~sent THEN [idle EXCEPT !.waiting = TRUE]
  ELSE [idle EXCEPT !.waiting = TRUE, !.declared = FALSE, !.settled = FALSE,
          !.age = "never", !.told = FALSE, !.carried = FALSE]

Relied(m) == [m EXCEPT !.ready = m.declared /\ m.settled /\ m.age \in {"fresh", "due"}]

\* Faulty variant of Declared: a declaration counts as soon as it was tried.
DeclaredAnyway(m, sent) ==
  IF (m.declared /\ m.age = "fresh") \/ m.waiting THEN Relied(m)
  ELSE Relied([m EXCEPT !.waiting = TRUE, !.declared = TRUE, !.age = "fresh",
                 !.told = @ \/ sent])

Declared(m, sent) ==
  IF (m.declared /\ m.age = "fresh") \/ m.waiting THEN Relied(m)
  ELSE IF ~sent THEN Relied([m EXCEPT !.waiting = TRUE])
  ELSE Relied([m EXCEPT !.waiting = TRUE, !.declared = TRUE, !.age = "fresh",
                 !.told = TRUE, !.carried = @ /\ m.declared])

\* UpdatePlayerMovementStateBridge.
NetworkState(m, enabled, sent) == IF enabled THEN Declared(m, sent) ELSE Withdrawn(m, sent)

Unbound(m) == [m EXCEPT !.bound = FALSE, !.declared = FALSE, !.ready = FALSE]

-----------------------------------------------------------------------------
(* The switch.                                                             *)

\* ForceNoClipOff and ApplyNoClip: switch it and look at it again.
Switched(m, on, ok) == IF ok THEN [m EXCEPT !.noClip = on, !.applied = on, !.misread = FALSE] ELSE m

UpdateWithoutPlayer ==
  /\ player = NoPlayer
  /\ movement' = [movement EXCEPT !.applied = FALSE]

\* Faulty variant of SwitchOff: the server is told first.
WithdrawAndSwitchOff(switched, sent) ==
  /\ Online /\ ~movement.requested
  /\ movement' = Switched(NetworkState([movement EXCEPT !.bound = TRUE], FALSE, sent),
                          FALSE, switched)

\* As long as the switch cannot be turned off, the state stays declared.
SwitchOff(switched, sent) ==
  /\ Online /\ ~movement.requested
  /\ movement' = NetworkState(Switched([movement EXCEPT !.bound = TRUE], FALSE, switched),
                              ~switched, sent)

SwitchOn(switched, sent) ==
  /\ Online /\ movement.requested
  /\ LET m == NetworkState([movement EXCEPT !.bound = TRUE], TRUE, sent)
     IN  movement' = Switched(m, m.ready, switched)

PlayLocally(switched, sent) ==
  /\ ~Online
  /\ LET m == NetworkState([movement EXCEPT !.bound = TRUE], FALSE, sent)
     IN  movement' = Switched(m, movement.requested, switched)

\* A session that cannot be read is taken for a local one.
Misread(switched, sent) ==
  LET ms == {NetworkState([movement EXCEPT !.bound = TRUE], FALSE, sent)}
              \cup IF movement.bound THEN {} ELSE {Unbound(movement)}
  IN  \E m \in ms :
        movement' = [Switched(m, movement.requested, switched) EXCEPT !.misread = TRUE]

\* The bindings of the network state cannot be looked up.  Once they have been, they
\* stay.
UpdateUnbound(switched) ==
  /\ ~movement.bound
  /\ movement' = [Switched(Unbound(movement), ~Online /\ movement.requested, switched)
                    EXCEPT !.requested = @ /\ ~Online]

\* UpdatePlayerMovementBridge.
Update ==
  /\ \/ UpdateWithoutPlayer /\ NoFault
     \/ /\ player # NoPlayer
        /\ \/ NoFault /\ (SwitchOff(TRUE, TRUE) \/ SwitchOn(TRUE, TRUE) \/ PlayLocally(TRUE, TRUE))
           \/ Fault /\ \E switched, sent \in BOOLEAN :
                \/ SwitchOff(switched, sent) \/ SwitchOn(switched, sent)
                \/ PlayLocally(switched, sent) \/ Misread(switched, sent)
                \/ UpdateUnbound(switched)
  /\ UNCHANGED <<game, requests>>

Next ==
  \/ Live \/ Elapse
  \/ \E enabled \in BOOLEAN : SetNoClipEnabled(enabled)
  \/ Update

Spec == Init /\ [][Next]_vars

-----------------------------------------------------------------------------
(* Properties.                                                             *)

\* On a server, nobody walks through walls without the state being declared, in
\* whatever order switches, failures, worlds and timers come; unless a frame could not
\* read the session, which withdraws the state and switches as in a local world, and no
\* frame has turned the switch since.
NoClipIsDeclared ==
  Online /\ player # NoPlayer /\ movement.noClip => movement.declared \/ movement.misread

\* What the bridge relies on has reached this server, unless it was declared to an
\* earlier one and not withdrawn in between.
DeclarationReachedTheServer ==
  Online /\ movement.declared => movement.told \/ movement.carried \/ player = NoPlayer
=============================================================================
