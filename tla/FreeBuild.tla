----------------------------- MODULE FreeBuild -----------------------------
(***************************************************************************)
(* trainer/src/bridge/free_build_bridge.cpp: a Lua chunk patches the       *)
(* building code of the game once for each Lua environment and sets a      *)
(* flag there.  It is compiled and executed by two game-thread calls, and  *)
(* again whenever what was applied last differs from what is requested.    *)
(***************************************************************************)
EXTENDS GameSession

CONSTANT Environments  \* Lua environments, one for each world

VARIABLE build

vars == <<build, game, bounds>>

Phases == {"Idle", "Compile", "Execute"}

\* patch[e] is the version of the patch in environment e, enabled[e] its flag, code[e]
\* whose building functions are installed and kept[e] those it keeps as the originals.
\* late are chunks that were given up and may still run; strayed tells that the flag was,
\* or may have been, set without the bridge knowing.
BuildTypeOK ==
  /\ build \in [requested : BOOLEAN, applied : BOOLEAN, target : BOOLEAN, phase : Phases,
                call : {"none", "queued", "overdue", "done", "error"},
                env : Environments, current : Environments, entered : SUBSET Environments,
                patch : [Environments -> {"none", "old", "new"}],
                enabled : [Environments -> BOOLEAN],
                code : [Environments -> {"game", "old", "new"}],
                kept : [Environments -> {"none", "game", "old", "new"}],
                late : SUBSET (Environments \X BOOLEAN), strayed : BOOLEAN]
  /\ build.call = "none" <=> build.phase = "Idle"

\* A game may hold the patch of an earlier trainer.
Init ==
  /\ GameInit
  /\ \E e \in Environments, patch \in [Environments -> {"none", "old"}] :
       build = [requested |-> FALSE, applied |-> FALSE, target |-> FALSE, phase |-> "Idle",
                call |-> "none", env |-> e, current |-> e, entered |-> {e}, patch |-> patch,
                enabled |-> [x \in Environments |-> FALSE],
                code |-> [x \in Environments |-> IF patch[x] = "old" THEN "old" ELSE "game"],
                kept |-> [x \in Environments |-> IF patch[x] = "old" THEN "game" ELSE "none"],
                late |-> {}, strayed |-> FALSE]

-----------------------------------------------------------------------------
(* The chunk.                                                              *)

\* Faulty variant of Installed: an old patch is patched over.
InstalledOver(b, e) ==
  IF b.patch[e] = "new" THEN b
  ELSE [b EXCEPT !.patch[e] = "new", !.kept[e] = b.code[e], !.code[e] = "new"]

\* The functions that another version kept come back before the present ones are kept
\* and replaced.
Installed(b, e) ==
  LET found == IF b.patch[e] = "old" THEN b.kept[e] ELSE b.code[e] IN
  IF b.patch[e] = "new" THEN b
  ELSE [b EXCEPT !.patch[e] = "new", !.kept[e] = found, !.code[e] = "new"]

Executed(b, e, target) == [Installed(b, e) EXCEPT !.enabled[e] = target]

\* The game thread compiles or runs the chunk.  It stops before it has done anything if
\* the building classes are missing, and later if a patch cannot be renewed.
Run ==
  /\ build.call \in {"queued", "overdue"}
  /\ IF build.phase = "Compile"
     THEN NoFault /\ build' = [build EXCEPT !.call = "done"]
     ELSE \/ NoFault /\ build' = [Executed(build, build.env, build.target) EXCEPT !.call = "done"]
          \/ Fault /\ \/ build' = [build EXCEPT !.call = "error"]
                      \/ build' = [Executed(build, build.env, build.target)
                                     EXCEPT !.call = "error", !.strayed = TRUE]
  /\ UNCHANGED <<game, requests>>

RunLate(chunk) ==
  /\ build' = [Executed(build, chunk[1], chunk[2])
                 EXCEPT !.late = @ \ {chunk}, !.strayed = TRUE]
  /\ UNCHANGED <<game, bounds>>

\* Another world: a new environment, without the patch or with an old one.
ReplaceEnvironment(e) ==
  /\ e \notin build.entered
  /\ build' = [build EXCEPT !.current = e, !.entered = @ \cup {e},
                 !.strayed = @ \/ build.applied \/ build.phase # "Idle"]
  /\ UNCHANGED <<game, bounds>>

\* Eight seconds have passed.
Elapse ==
  /\ build.call = "queued"
  /\ Fault
  /\ build' = [build EXCEPT !.call = "overdue"]
  /\ UNCHANGED <<game, requests>>

-----------------------------------------------------------------------------
(* The bridge.                                                             *)

SetFreeBuildEnabled(enabled) ==
  /\ build' = [build EXCEPT !.requested = enabled]
  /\ Request
  /\ UNCHANGED game

\* Faulty variant of Finished: the slot of the call is not given back.
FinishedKeepingCall(b) == [b EXCEPT !.phase = "Idle"]

\* FinishOperation.  A chunk whose call is given up stays in the queue.
Finished(b) ==
  [b EXCEPT !.phase = "Idle", !.call = "none",
     !.late = IF b.phase = "Execute" /\ b.call \in {"queued", "overdue"}
              THEN @ \cup {<<b.env, b.target>>} ELSE @]

\* Faulty variant of Polled: what is requested by now counts as applied.
PolledAsRequested(b, fails) ==
  CASE b.phase = "Idle" \/ (b.call = "queued" /\ ~fails) -> b
    [] b.phase = "Compile" /\ b.call = "done" /\ ~fails ->
         [b EXCEPT !.phase = "Execute", !.call = "queued"]
    [] b.phase = "Execute" /\ b.call = "done" /\ ~fails ->
         [Finished(b) EXCEPT !.applied = b.requested]
    [] OTHER -> Finished(b)

\* PollOperation and QueueExecute.  An answer that cannot be read leaves the flag set and
\* the bridge ignorant of it.
Polled(b, fails) ==
  CASE b.phase = "Idle" \/ (b.call = "queued" /\ ~fails) -> b
    [] b.phase = "Compile" /\ b.call = "done" /\ ~fails ->
         [b EXCEPT !.phase = "Execute", !.call = "queued"]
    [] b.phase = "Execute" /\ b.call = "done" /\ ~fails ->
         [Finished(b) EXCEPT !.applied = b.target]
    [] OTHER -> [Finished(b) EXCEPT !.strayed = @ \/ (b.phase = "Execute" /\ b.call = "done")]

\* BeginOperation: the chunk belongs to the environment of this moment.
Begun(b) ==
  IF b.phase # "Idle" \/ b.applied = b.requested THEN b
  ELSE [b EXCEPT !.phase = "Compile", !.call = "queued", !.target = b.requested,
          !.env = b.current]

\* UpdateFreeBuildBridge.
Update ==
  /\ \/ NoFault /\ build' = Begun(Polled(build, FALSE))
     \/ Fault /\ build' \in {Begun(Polled(build, TRUE)), Polled(build, FALSE)}
  /\ UNCHANGED <<game, requests>>

Next ==
  \/ Run \/ Elapse \/ Update
  \/ \E chunk \in build.late : RunLate(chunk)
  \/ \E e \in Environments : ReplaceEnvironment(e)
  \/ \E enabled \in BOOLEAN : SetFreeBuildEnabled(enabled)

Spec == Init /\ [][Next]_vars

-----------------------------------------------------------------------------
(* Properties.                                                             *)

\* Between two rounds the flag of the game is what the bridge believes to have applied,
\* unless a round was given up and ran later, an answer was lost, or the game replaced its
\* environment: the bridge asks nobody whether the flag is still there.
BelievedFlagIsReal ==
  build.phase = "Idle" => build.applied = build.enabled[build.current] \/ build.strayed

\* What is kept as the game's functions are the game's, however often the chunk runs and
\* whatever it finds installed.
OriginalFunctionsAreKept == \A e \in Environments : build.kept[e] \in {"none", "game"}
=============================================================================
