------------------------------ MODULE MultiHit ------------------------------
(***************************************************************************)
(* trainer/src/bridge/multi_hit_bridge.cpp: an option of the sandbox is    *)
(* forced while the feature is on.  The option belongs to the world, the   *)
(* remembered original to the bridge, which does not look which world it   *)
(* is from.                                                                *)
(***************************************************************************)
EXTENDS GameSession

VARIABLE multiHit

vars == <<multiHit, game, bounds>>

\* own is the option as this world has it, foreign whether the original that is
\* remembered, or was written last, is from an earlier one.
MultiHitTypeOK ==
  multiHit \in [requested : BOOLEAN, applied : BOOLEAN, captured : BOOLEAN,
                original : BOOLEAN, option : BOOLEAN, own : BOOLEAN, foreign : BOOLEAN]

Init ==
  /\ GameInit
  /\ multiHit = [requested |-> FALSE, applied |-> FALSE, captured |-> FALSE,
                 original |-> FALSE, option |-> FALSE, own |-> FALSE, foreign |-> FALSE]

\* A new world brings its own option.
Live ==
  /\ Play
  /\ IF player = NoPlayer
     THEN \E own \in BOOLEAN :
            multiHit' = [multiHit EXCEPT !.option = own, !.own = own, !.foreign = @ \/ multiHit.captured]
     ELSE UNCHANGED multiHit

SetMultiHitEnabled(enabled) ==
  /\ multiHit' = [multiHit EXCEPT !.requested = enabled]
  /\ Request
  /\ UNCHANGED game

\* Faulty variant of Captured: what is read in any frame is the original.
CapturedAlways(m) == IF m.requested THEN [m EXCEPT !.captured = TRUE, !.original = m.option] ELSE m

\* The option as it is when the feature is turned on.
Captured(m) ==
  IF m.requested /\ ~m.captured
  THEN [m EXCEPT !.captured = TRUE, !.original = m.option, !.foreign = @ /\ m.option # m.own]
  ELSE m

Target(m) == IF m.requested THEN TRUE ELSE IF m.captured THEN m.original ELSE m.option

\* Faulty variant of Settled: the original is dropped as soon as the feature is off.
SettledEarly(m) ==
  LET s == [m EXCEPT !.captured = @ /\ m.requested, !.applied = m.requested] IN
  [s EXCEPT !.option = IF m.requested THEN TRUE ELSE @]

\* The option is as wanted; once it is the original again, that is forgotten.
Settled(m) ==
  [m EXCEPT !.option = Target(m), !.captured = @ /\ m.requested, !.applied = m.requested]

\* UpdateMultiHitBridge: a failed write leaves the original for the next frame.
Update ==
  /\ \/ /\ player # NoPlayer /\ NoFault
        /\ multiHit' = Settled(Captured(multiHit))
     \/ player = NoPlayer /\ NoFault /\ multiHit' = [multiHit EXCEPT !.applied = FALSE]
     \/ Fault /\ multiHit' \in {[multiHit EXCEPT !.applied = FALSE],
                                [Captured(multiHit) EXCEPT !.applied = FALSE]}
  /\ UNCHANGED <<game, requests>>

Next ==
  \/ Live
  \/ \E enabled \in BOOLEAN : SetMultiHitEnabled(enabled)
  \/ Update

Spec == Init /\ [][Next]_vars

-----------------------------------------------------------------------------
(* Properties.                                                             *)

\* What is remembered is the option as the world had it, through switches and failures;
\* an original that was read in an earlier world is the exception.
OriginalIsTheWorlds == multiHit.captured => multiHit.original = multiHit.own \/ multiHit.foreign

\* When nothing is remembered any more, the option is as the world had it, with the same
\* exception.
ForgottenMeansRestored ==
  ~multiHit.captured => multiHit.option = multiHit.own \/ multiHit.foreign
=============================================================================
