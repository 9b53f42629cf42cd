------------------------------ MODULE Launcher ------------------------------
(***************************************************************************)
(* The launcher (src/launcher): its window, the worker that finds or       *)
(* starts the game and loads the trainer into it, and the thread in the    *)
(* game that completes the loading (manual_mapper.cpp).  The user may      *)
(* close the window while the worker is busy, try again after a failure,   *)
(* and run the launcher again; the game may quit at any time.              *)
(*                                                                         *)
(* Of the game session only the bounds are used.  What a second copy of    *)
(* the trainer in one game does is in module Startup.                      *)
(***************************************************************************)
EXTENDS GameSession, Sequences

VARIABLE launcher

vars == <<launcher, game, bounds>>

NoGame == 0
NoAttempt == 0
Blocks == {"image", "context", "loader"}
Busy == {"imports", "table", "entry"}      \* what the loading thread is about to do
Resources == {"factory", "target", "brush", "formats"}
Details == {"About", "Group", "CloseDetails", "Load"}
Inside == {"AboutClose", "GroupClose", "LoadingAction", "None"}

\* An attempt: the run of the launcher that makes it, what its worker does, the process it
\* found, its blocks in it, the thread there, whether the table of the image's functions
\* is registered, whether the trainer was started, how it ended, and how many of the two
\* things the window reads are stored.
Attempts ==
  [run : Nat, worker : {"find", "wait", "load", "await", "store"}, process : Nat,
   blocks : SUBSET Blocks, thread : Busy \cup {"none", "complete", "failed", "lost"},
   table : BOOLEAN, started : BOOLEAN, result : {"none", "failed", "unsure", "success"},
   stored : 0 .. 2]

\* process is the game that runs, games counts them.  For the properties: spoilt is that
\* making the resources failed after the target was there, blind that something was
\* painted without one of them.
LauncherTypeOK ==
  /\ launcher.process \in 0 .. launcher.games /\ launcher.run \in Nat
  /\ launcher.window \in {"startup", "open", "closed"} /\ launcher.page \in {"details", "about", "group"}
  /\ {launcher.loading, launcher.spoilt, launcher.blind} \subseteq BOOLEAN
  /\ launcher.pressed \in Details \cup Inside
  /\ launcher.state \in {"idle", "running", "error", "success"}
  /\ launcher.attempts \in Seq(Attempts)
  /\ {launcher.latest, launcher.message} \subseteq 0 .. Len(launcher.attempts)
  /\ launcher.made \subseteq Resources

Init ==
  /\ GameInit
  /\ \E running \in 0 .. 1 :
       launcher = [process |-> running, games |-> running, run |-> 0,
                   window |-> "closed", page |-> "details", loading |-> FALSE,
                   pressed |-> "None", state |-> "idle", message |-> NoAttempt,
                   latest |-> NoAttempt, attempts |-> <<>>,
                   made |-> {}, spoilt |-> FALSE, blind |-> FALSE]

-----------------------------------------------------------------------------
(* The game.                                                               *)

\* Steam or the user starts the game.
GameStarts ==
  /\ launcher.process = NoGame
  /\ launcher' = [launcher EXCEPT !.process = launcher.games + 1, !.games = @ + 1]
  /\ UNCHANGED <<game, bounds>>

\* Its memory and its threads end with it.
Ended(at) ==
  [at EXCEPT !.blocks = {}, !.table = FALSE, !.thread = IF @ \in Busy THEN "lost" ELSE @]

GameQuits ==
  /\ launcher.process # NoGame
  /\ launcher' = [launcher EXCEPT
       !.process = NoGame,
       !.attempts = [a \in DOMAIN @ |->
         IF @[a].process = launcher.process THEN Ended(@[a]) ELSE @[a]]]
  /\ Fault
  /\ UNCHANGED <<game, requests>>

-----------------------------------------------------------------------------
(* The window.                                                             *)

\* wWinMain and Run; an earlier run may still wait for its worker.
Run ==
  /\ launcher.window = "closed"
  /\ launcher' = [launcher EXCEPT
       !.run = @ + 1, !.window = "startup", !.page = "details", !.loading = FALSE,
       !.pressed = "None", !.state = "idle", !.message = NoAttempt, !.latest = NoAttempt,
       !.made = {}, !.spoilt = FALSE, !.blind = FALSE]
  /\ Request
  /\ UNCHANGED game

\* The animation of the start is over.
Opens ==
  /\ launcher.window = "startup"
  /\ launcher' = [launcher EXCEPT !.window = "open"]
  /\ UNCHANGED <<game, bounds>>

\* WM_DESTROY ends the messages; the worker is waited for, unseen.
Closed(c) == [c EXCEPT !.window = "closed", !.made = {}]

\* What can be hit; what is hidden cannot.
Targets(c) ==
  IF c.window # "open" THEN {}
  ELSE IF c.loading THEN IF c.state = "error" THEN {"LoadingAction"} ELSE {}
  ELSE IF c.page = "about" THEN {"AboutClose"}
  ELSE IF c.page = "group" THEN {"GroupClose"}
  ELSE Details

NewAttempt(c) ==
  [run |-> c.run, worker |-> "find", process |-> NoGame, blocks |-> {}, thread |-> "none",
   table |-> FALSE, started |-> FALSE, result |-> "none", stored |-> 0]

\* StartLoading.
Loading(c) ==
  IF c.state = "running" THEN c
  ELSE [c EXCEPT !.loading = TRUE, !.state = "running", !.latest = Len(c.attempts) + 1,
                 !.attempts = Append(@, NewAttempt(c))]

\* The body of OnMouseUp.
Acted(c, action) ==
  CASE action = "CloseDetails" -> Closed(c)
    [] action = "About" -> [c EXCEPT !.page = "about"]
    [] action = "Group" -> [c EXCEPT !.page = "group"]
    [] action \in {"AboutClose", "GroupClose"} -> [c EXCEPT !.page = "details"]
    [] action = "Load" -> Loading(c)
    [] action = "LoadingAction" /\ c.state = "error" ->
         [c EXCEPT !.loading = FALSE, !.state = "idle"]
    [] OTHER -> c

MouseDown ==
  /\ launcher.window # "closed"
  /\ \E target \in Targets(launcher) \cup {"None"} :
       launcher' = [launcher EXCEPT !.pressed = target]
  /\ Request
  /\ UNCHANGED game

\* Faulty variant of Action: the button may come up anywhere.
ActionOfPress(pressed, released) == pressed

\* A click is for what is under the mouse at both ends of it.
Action(pressed, released) == IF released = pressed THEN pressed ELSE "None"

MouseUp ==
  /\ launcher.window # "closed" /\ launcher.pressed # "None"
  /\ \E released \in Targets(launcher) \cup {"None"} :
       launcher' = Acted([launcher EXCEPT !.pressed = "None"],
                         Action(launcher.pressed, released))
  /\ UNCHANGED <<game, bounds>>

Enter ==
  /\ launcher.window = "open"
  /\ ~launcher.loading /\ launcher.page = "details"
  /\ launcher' = Loading(launcher)
  /\ Request
  /\ UNCHANGED game

Escape ==
  /\ launcher.window # "closed" /\ ~launcher.loading
  /\ launcher' = IF launcher.page = "details" THEN Closed(launcher)
                 ELSE [launcher EXCEPT !.page = "details"]
  /\ Request
  /\ UNCHANGED game

\* WM_CLOSE is not handled: the window closes even while something is loaded.
Close ==
  /\ launcher.window # "closed"
  /\ launcher' = Closed(launcher)
  /\ Request
  /\ UNCHANGED game

\* Tick closes the window when success was shown for a second.
Tick ==
  /\ launcher.window = "open" /\ launcher.loading /\ launcher.state = "success"
  /\ launcher' = Closed(launcher)
  /\ UNCHANGED <<game, bounds>>

\* CreateGraphicsResources, up to the resource that cannot be made.  Once there is a
\* target all are taken to be there.
Created(made, works) ==
  IF "target" \in made THEN made
  ELSE CASE works = "factory" -> made
         [] works = "target" -> {"factory"}
         [] works = "brush" -> {"factory", "target"}
         [] works = "formats" -> {"factory", "target", "brush"}
         [] OTHER -> Resources

\* Faulty variant of Paints: whether the resources could be made is not looked at.
PaintsAnyway(made, works) == TRUE

Paints(made, works) == "target" \in made \/ works \notin Resources

\* Paint.  A target that is lost is made again with everything else.
Painted(c, works) ==
  LET made == Created(c.made, works) IN
  IF Paints(c.made, works)
  THEN [c EXCEPT !.blind = @ \/ made # Resources, !.made = IF works = "lost" THEN {} ELSE made]
  ELSE [c EXCEPT !.made = made, !.spoilt = @ \/ "target" \in made]

Paint ==
  /\ launcher.window # "closed"
  /\ \E works \in Resources \cup {"lost", "all"} :
       /\ launcher' = Painted(launcher, works)
       /\ IF works = "all" THEN NoFault ELSE Fault
  /\ UNCHANGED <<game, requests>>

\* DrawLoading: the message is read unless the state says enough.
Shown(c) ==
  IF c.state = "running" THEN "loading"
  ELSE IF c.state = "success" THEN "successful"
  ELSE c.message

-----------------------------------------------------------------------------
(* The worker: LaunchAndInject and ManualMapImage.                         *)

\* Faulty variant of Scoped: the image is not freed.
ScopedLoose(at, kept) == [at EXCEPT !.blocks = @ \cap (kept \cup {"image"})]

\* RemoteAllocation: what is not released when its scope is left is freed.
Scoped(at, kept) == [at EXCEPT !.blocks = @ \cap kept]

Failed(at) == [Scoped(at, {}) EXCEPT !.result = "failed", !.worker = "store"]

\* The game runs already, or Steam is asked to start it.  A list of the processes that
\* cannot be had looks like one without the game.
Found(c, at, works) ==
  IF c.process # NoGame /\ works # "list"
  THEN [at EXCEPT !.process = c.process, !.worker = "load"]
  ELSE IF works = "shell" THEN Failed(at)
  ELSE [at EXCEPT !.worker = "wait"]

\* LaunchGame waits 90 s for the process.
Waited(c, at, appears) ==
  IF ~appears THEN Failed(at)
  ELSE [at EXCEPT !.process = c.process, !.worker = "load"]

\* The steps on the way to the thread in the game, and what is allocated before each.
Before == [process |-> {}, image |-> {}, relocations |-> {"image"}, functions |-> {"image"},
           context |-> {"image"}, loader |-> {"image", "context"}, protection |-> Blocks,
           target |-> Blocks, thread |-> Blocks]

\* The step that fails, if one does.
Mapped(c, at, step) ==
  IF c.process # at.process THEN Failed(at)
  ELSE IF step \in DOMAIN Before THEN Failed([at EXCEPT !.blocks = Before[step]])
  ELSE [at EXCEPT !.blocks = Blocks, !.thread = "imports", !.worker = "await"]

\* Faulty variant of Kept: what the thread uses is freed when it takes too long.
KeptUnlessLate(how) == IF how \in {"failed", "late"} THEN {} ELSE {"image"}

\* A thread that was not seen to end may use all blocks; one whose result is not known
\* may have started the trainer.
Kept(how) ==
  CASE how = "late" -> Blocks
    [] how = "failed" -> {}
    [] OTHER -> {"image"}

\* The outcomes of the wait for the thread: it takes longer than 15 s, its result cannot be
\* read (never once the game has gone), it failed, the image cannot be protected, or all is
\* well.
Outcomes(c, at) ==
  IF at.thread \in Busy THEN {"late"}
  ELSE IF c.process # at.process THEN {"unreadable"}
  ELSE IF at.thread = "failed" THEN {"unreadable", "failed"}
  ELSE {"unreadable", "unprotected", "whole"}

Awaited(at, how) ==
  LET result == CASE how = "failed" -> "failed" [] how = "whole" -> "success" [] OTHER -> "unsure"
  IN  [Scoped(at, Kept(how)) EXCEPT !.result = result, !.worker = "store"]

\* Faulty variant of Order: the state is told before the message.
OrderSwapped == <<"state", "message">>

\* What the worker stores for the window, one after the other.
Order == <<"message", "state">>

\* The window of another run does not read it.
Stored(c, a) ==
  LET at == c.attempts[a]
      what == Order[at.stored + 1]
      told == [c EXCEPT !.attempts[a].stored = @ + 1]
  IN  IF at.run # c.run THEN told
      ELSE IF what = "message" THEN [told EXCEPT !.message = a]
      ELSE [told EXCEPT !.state = IF at.result = "success" THEN "success" ELSE "error"]

With(a, at) == launcher' = [launcher EXCEPT !.attempts[a] = at]

Worker(a) ==
  LET at == launcher.attempts[a] IN
  /\ CASE at.worker = "find" ->
            \E works \in {"list", "shell", "all"} :
              /\ With(a, Found(launcher, at, works))
              /\ IF works = "all" THEN NoFault ELSE Fault
       [] at.worker = "wait" ->
            \E appears \in BOOLEAN :
              /\ appears => launcher.process # NoGame
              /\ With(a, Waited(launcher, at, appears))
              /\ IF appears THEN NoFault ELSE Fault
       [] at.worker = "load" ->
            \E step \in DOMAIN Before \cup {"none"} :
              /\ With(a, Mapped(launcher, at, step))
              /\ IF step = "none" THEN NoFault ELSE Fault
       [] at.worker = "await" ->
            \E how \in Outcomes(launcher, at) :
              /\ With(a, Awaited(at, how))
              /\ IF how \in {"failed", "whole"} THEN NoFault ELSE Fault
       [] OTHER ->
            /\ at.stored < 2
            /\ launcher' = Stored(launcher, a)
            /\ NoFault
  /\ UNCHANGED <<game, requests>>

-----------------------------------------------------------------------------
(* The thread in the game: RemoteLoader.                                   *)

\* Faulty variant of Loaded: the table outlives an entry point that refuses.
LoadedTable(at, works) ==
  CASE ~works -> [at EXCEPT !.thread = "failed"]
    [] works /\ at.thread = "imports" -> [at EXCEPT !.thread = "table"]
    [] works /\ at.thread = "table" -> [at EXCEPT !.table = TRUE, !.thread = "entry"]
    [] OTHER -> [at EXCEPT !.started = TRUE, !.thread = "complete"]

\* The imports, the table of functions, and the entry point, which starts the trainer
\* unless the C runtime cannot be set up.
Loaded(at, works) ==
  CASE ~works -> [at EXCEPT !.table = FALSE, !.thread = "failed"]
    [] works /\ at.thread = "imports" -> [at EXCEPT !.thread = "table"]
    [] works /\ at.thread = "table" -> [at EXCEPT !.table = TRUE, !.thread = "entry"]
    [] OTHER -> [at EXCEPT !.started = TRUE, !.thread = "complete"]

Loader(a) ==
  /\ launcher.attempts[a].thread \in Busy
  /\ \E works \in BOOLEAN :
       /\ With(a, Loaded(launcher.attempts[a], works))
       /\ IF works THEN NoFault ELSE Fault
  /\ UNCHANGED <<game, requests>>

Next ==
  \/ GameStarts \/ GameQuits \/ Run \/ Opens \/ MouseDown \/ MouseUp \/ Enter \/ Escape
  \/ Close \/ Tick \/ Paint
  \/ \E a \in DOMAIN launcher.attempts : Worker(a) \/ Loader(a)

Spec == Init /\ [][Next]_vars

-----------------------------------------------------------------------------
(* Properties.                                                             *)

\* In a game that runs, nothing is freed that can still be executed: all blocks stay while
\* the thread is at work, and the image stays when the trainer was started or the table of
\* its functions is registered (ManualMapImage, "leaving the allocations is safer").
NothingInUseIsFreed ==
  \A a \in DOMAIN launcher.attempts :
    LET at == launcher.attempts[a] IN
    at.process = launcher.process =>
      /\ at.thread \in Busy => at.blocks = Blocks
      /\ at.started \/ at.table => "image" \in at.blocks

\* An attempt that is said to have failed has left nothing in the game; only one whose end
\* is not known, or that could not protect the image, may have.
FailureLeavesNothing ==
  \A a \in DOMAIN launcher.attempts :
    LET at == launcher.attempts[a] IN
    at.result = "failed" => at.blocks = {} /\ ~at.table /\ ~at.started

\* What the window shows is of its latest attempt: the error that this one met, or a
\* success, with which the trainer was started.
ShownIsOfThisAttempt ==
  (launcher.window = "open" /\ launcher.loading) =>
    CASE launcher.state = "error" ->
           /\ Shown(launcher) = launcher.latest
           /\ launcher.attempts[launcher.latest].result \in {"failed", "unsure"}
      [] launcher.state = "success" -> launcher.attempts[launcher.latest].started
      [] OTHER -> launcher.attempts[launcher.latest].stored < 2

\* A run of the launcher makes one attempt after the other, and none after a success.
LoadedOnce ==
  \A a, b \in DOMAIN launcher.attempts :
    (a < b /\ launcher.attempts[a].run = launcher.attempts[b].run) =>
      launcher.attempts[a].stored = 2 /\ launcher.attempts[a].result # "success"

\* Nothing is painted without what painting needs, unless something could once not be made
\* for a target that was there.
PaintedWhole == launcher.blind => launcher.spoilt
=============================================================================
