----------------------------- MODULE LuaScripts -----------------------------
(***************************************************************************)
(* trainer/src/bridge/lua_script_bridge.cpp: loading, reloading and        *)
(* unloading of Lua scripts, with the part of lua_ui_bridge.cpp that says  *)
(* which script owns the controls registered in the menu.                  *)
(*                                                                         *)
(* All scripts share one operation, which goes through at most three calls *)
(* on the game's thread (cleanup, compile, execute); the render thread     *)
(* polls it once per frame.  A configuration is applied as a series of     *)
(* such operations over many frames, between which the user, the file      *)
(* system and the scripts themselves go on.  The render thread's frame is  *)
(* cut at the functions it calls; pc is the one that comes next.           *)
(***************************************************************************)
EXTENDS Integers, FiniteSets, TLC

CONSTANTS
  Scripts,     \* the Lua files
  External,    \* those outside the Lua directory, opened through the file dialog
  NoScript,    \* the empty registration owner
  MaxRequests, \* bound: what the user asks for
  MaxEdits,    \* bound: versions of files that are written
  MaxOutages   \* bound: times the Lua runtime goes away

\* Scripts are interchangeable when none lies outside the Lua directory.
Interchangeable == Permutations(Scripts)

ASSUME ScriptsAssumption == External \subseteq Scripts /\ NoScript \notin Scripts

VARIABLES
  records,   \* g_records; a record that is not known is not in the vector
  op,        \* g_operation with the state of its call
  pending,   \* g_pending_configuration; its indices as the sets left to do
  refresh,   \* g_refresh_requested
  owner,     \* g_registration_owner
  controls,  \* the owners of the categories registered in the menu
  pc,        \* the function of the frame that comes next
  api,       \* EnsureLuaUiApi succeeds
  files,     \* files[s]: its write time, 0 when there is no file
  alive,     \* a chunk was handed to the game's thread: it or its callbacks may run
  stored,    \* cleanup functions stored so far; each has its number
  called,    \* those that were queued on the game's thread
  undone,    \* those that have run there to success, whether the bridge knows or not
  latest,    \* latest[s]: the one that the last chunk of s returned, 0 when it had none
  abandoned, \* those whose call was given up before it ran: it may still run
  meddled,   \* scripts the user loaded since the last ApplyLuaScriptConfiguration
  counts     \* counters for the bounds

frame == <<records, op, pending, refresh, owner, pc>>
world == <<api, files, alive>>
history == <<stored, called, undone, latest, abandoned, meddled>>
vars == <<frame, controls, world, history, counts>>

Forgotten == [known |-> FALSE, state |-> "Unloaded", cleanup |-> 0,
              auto |-> FALSE, exists |-> FALSE, time |-> 0]

\* EnsureRecord
Ensured(s) ==
  IF records[s].known THEN records[s]
  ELSE [Forgotten EXCEPT !.known = TRUE, !.exists = TRUE, !.time = files[s]]

NoOperation == [kind |-> "None", phase |-> "Idle", script |-> NoScript, call |-> "Idle"]
Calling(kind, phase, s) == [kind |-> kind, phase |-> phase, script |-> s, call |-> "Queued"]
NotApplying == [active |-> FALSE, initialized |-> FALSE,
                desired |-> {}, unload |-> {}, load |-> {}]

Records == [known : BOOLEAN, cleanup : Nat, auto : BOOLEAN, exists : BOOLEAN, time : Nat,
            state : {"Unloaded", "Loading", "Loaded", "Unloading", "Error"}]
Operations == {NoOperation} \cup
  [kind : {"Load", "Reload", "Unload"}, phase : {"Cleanup", "Compile", "Execute"},
   script : Scripts, call : {"Queued", "Overdue", "Done", "Erred"}]

TypeOK ==
  /\ records \in [Scripts -> Records]
  /\ op \in Operations
  /\ pending \in [active : BOOLEAN, initialized : BOOLEAN, desired : SUBSET Scripts,
                  unload : SUBSET Scripts, load : SUBSET Scripts]
  /\ refresh \in BOOLEAN
  /\ owner \in Scripts \cup {NoScript}
  /\ controls \in SUBSET (Scripts \cup {NoScript})
  /\ pc \in {"Scan", "Poll", "Pending", "Auto", "Menu"}
  /\ api \in BOOLEAN /\ alive \in BOOLEAN
  /\ files \in [Scripts -> Nat]
  /\ stored \in Nat /\ latest \in [Scripts -> Nat]
  /\ called \in SUBSET Nat /\ undone \in SUBSET Nat /\ abandoned \in SUBSET Nat
  /\ meddled \in SUBSET Scripts
  /\ counts \in [requests : Nat, edits : Nat, outages : Nat]

Init ==
  /\ records = [s \in Scripts |-> Forgotten]
  /\ op = NoOperation
  /\ pending = NotApplying
  /\ refresh = TRUE
  /\ owner = NoScript
  /\ controls = {}
  /\ pc = "Scan"
  /\ api = FALSE
  /\ files = [s \in Scripts |-> 1]
  /\ alive = FALSE
  /\ stored = 0 /\ latest = [s \in Scripts |-> 0]
  /\ called = {} /\ undone = {} /\ abandoned = {} /\ meddled = {}
  /\ counts = [requests |-> 0, edits |-> 1, outages |-> 0]

-----------------------------------------------------------------------------
(* The game's thread, the clock and the file system.                       *)

\* The queued call runs to its end.  A cleanup function that does without a Lua error
\* has undone what its script did.
Run ==
  /\ op.call \in {"Queued", "Overdue"}
  /\ \/ /\ op' = [op EXCEPT !.call = "Done"]
        /\ undone' = IF op.phase = "Cleanup" THEN undone \cup {records[op.script].cleanup}
                                            ELSE undone
     \/ /\ op.phase = "Cleanup"
        /\ op' = [op EXCEPT !.call = "Erred"]
        /\ UNCHANGED undone
  /\ UNCHANGED <<records, pending, refresh, owner, pc, controls, world,
                 stored, called, latest, abandoned, meddled, counts>>

\* So does a call of cleanup function n that was given up; one that ends with a Lua
\* error leaves everything as it was.
RunAbandoned(n) ==
  /\ n \in abandoned
  /\ abandoned' = abandoned \ {n}
  /\ undone' = undone \cup {n}
  /\ UNCHANGED <<frame, controls, world, stored, called, latest, meddled, counts>>

\* Eight seconds have passed since the call was queued.
Elapse ==
  /\ op.call = "Queued"
  /\ op' = [op EXCEPT !.call = "Overdue"]
  /\ UNCHANGED <<records, pending, refresh, owner, pc, controls, world, history, counts>>

\* Dispatch, creating a category: by the chunk that executes, by one whose call
\* was given up, or by a callback that a script left in the game's events.
Register ==
  /\ alive
  /\ controls' = controls \cup {owner}
  /\ UNCHANGED <<frame, world, history, counts>>

\* A file is written or deleted: by an editor, or by the menu's page.
Edit(s) ==
  /\ counts.edits < MaxEdits
  /\ \E version \in {0, counts.edits + 1} : files' = [files EXCEPT ![s] = version]
  /\ counts' = [counts EXCEPT !.edits = @ + 1]
  /\ UNCHANGED <<frame, controls, api, alive, history>>

\* The game's Lua runtime becomes available, or goes away.
ChangeRuntime ==
  /\ api => counts.outages < MaxOutages
  /\ api' = ~api
  /\ counts' = [counts EXCEPT !.outages = IF api THEN @ + 1 ELSE @]
  /\ UNCHANGED <<frame, controls, files, alive, history>>

-----------------------------------------------------------------------------
(* The shared operation.                                                   *)

Become(s, record, state) ==
  records' = [records EXCEPT ![s] = [record EXCEPT !.state = state]]

\* Faulty variant of Finish: the registration owner is left as it is.
FinishKeepingOwner ==
  /\ op' = NoOperation
  /\ UNCHANGED owner
  /\ refresh' = TRUE

\* FinishOperation
Finish ==
  /\ op' = NoOperation
  /\ owner' = NoScript
  /\ refresh' = TRUE

\* Faulty variant of Fail: the script's state is left as it is.
FailSilently(s, record) == records' = [records EXCEPT ![s] = record] /\ Finish

\* SetError and FinishOperation
Fail(s, record) == Become(s, record, "Error") /\ Finish

\* QueueCompile, with the clean-up of its callers when it fails: the file cannot be
\* read or the call cannot be queued.
QueueCompile(kind, s, record, accepted, refused) ==
  \/ /\ files[s] # 0
     /\ Become(s, record, "Loading")
     /\ op' = Calling(kind, "Compile", s)
     /\ pc' = accepted
     /\ UNCHANGED <<owner, refresh>>
  \/ Fail(s, record) /\ pc' = refused

\* QueueCall of the cleanup function.
QueueCleanup(kind, s, record, accepted, refused) ==
  \/ /\ Become(s, record, "Unloading")
     /\ op' = Calling(kind, "Cleanup", s)
     /\ called' = called \cup {record.cleanup}
     /\ pc' = accepted
     /\ UNCHANGED <<owner, refresh>>
  \/ Fail(s, record) /\ pc' = refused /\ UNCHANGED called

\* BeginOperation on the record of s: where the frame goes on depends on its answer.
Begin(kind, s, record, accepted, refused) ==
  /\ op.kind = "None"
  /\ \/ /\ kind \in {"Reload", "Unload"} /\ record.cleanup # 0
        /\ QueueCleanup(kind, s, record, accepted, refused)
        /\ UNCHANGED controls
     \/ /\ kind = "Unload" /\ record.cleanup = 0
        /\ Become(s, record, "Unloaded")
        /\ controls' = controls \ {s}
        /\ Finish
        /\ pc' = accepted
        /\ UNCHANGED called
     \/ /\ kind = "Load" \/ (kind = "Reload" /\ record.cleanup = 0)
        /\ QueueCompile(kind, s, record, accepted, refused)
        /\ UNCHANGED <<controls, called>>

-----------------------------------------------------------------------------
(* UpdateLuaScriptBridge, once per frame.                                  *)

\* Faulty variant of Scanned: a script under way goes with its file.
ScannedStrictly(s) ==
  LET found == s \notin External /\ files[s] # 0
      record == IF found THEN Ensured(s) ELSE records[s]
  IN IF ~found /\ record.state # "Loaded" /\ record.cleanup = 0
       THEN Forgotten
       ELSE [record EXCEPT !.exists = found]

\* A record without file survives as long as its script is not unloaded.
Scanned(s) ==
  LET found == s \notin External /\ files[s] # 0
      record == IF found THEN Ensured(s) ELSE records[s]
  IN IF ~found /\ record.state = "Unloaded" /\ record.cleanup = 0
       THEN Forgotten
       ELSE [record EXCEPT !.exists = found]

\* ScanDirectory, when it was requested or a second has passed; and the check that
\* the game's Lua runtime is there.
Scan ==
  /\ pc = "Scan"
  /\ \/ /\ records' = [s \in Scripts |-> Scanned(s)]
        /\ refresh' = FALSE
     \/ ~refresh /\ UNCHANGED <<records, refresh>>
  /\ pc' = IF api THEN "Poll" ELSE "Menu"
  /\ UNCHANGED <<op, pending, owner, controls, world, history, counts>>

\* Faulty variant of PollNothing: the operation's call may take as long as it likes.
PollNothingLate ==
  /\ pc = "Poll"
  /\ \/ op.kind = "None" /\ pc' = "Pending"
     \/ op.call \in {"Queued", "Overdue"} /\ pc' = "Menu"
  /\ UNCHANGED <<records, op, pending, refresh, owner, controls, world, history, counts>>

\* PollOperation without an operation, or with one that is still under way.
PollNothing ==
  /\ pc = "Poll"
  /\ \/ op.kind = "None" /\ pc' = "Pending"
     \/ op.call = "Queued" /\ pc' = "Menu"
  /\ UNCHANGED <<records, op, pending, refresh, owner, controls, world, history, counts>>

\* The call timed out, ended with an exception, or could not be asked.  A cleanup that
\* has not run yet stays in the game's queue.
PollFailed ==
  /\ pc = "Poll" /\ op.kind # "None"
  /\ Fail(op.script, records[op.script])
  /\ pc' = "Pending"
  /\ abandoned' = IF op.phase = "Cleanup" /\ op.call \in {"Queued", "Overdue"}
                 THEN abandoned \cup {records[op.script].cleanup} ELSE abandoned
  /\ UNCHANGED <<pending, controls, world, stored, called, undone, latest, meddled, counts>>

\* The reference to the cleanup function is deleted.
Released(record) == [record EXCEPT !.cleanup = 0]

\* Faulty variant of PollCleanup: the function's answer is not read.
PollCleanupUnread ==
  LET s == op.script
      record == Released(records[s])
  IN /\ pc = "Poll" /\ op.call \in {"Done", "Erred"} /\ op.phase = "Cleanup"
     /\ controls' = controls \ {s}
     /\ \/ op.kind = "Unload" /\ Become(s, record, "Unloaded") /\ Finish /\ pc' = "Pending"
        \/ op.kind = "Reload" /\ QueueCompile("Reload", s, record, "Menu", "Pending")
     /\ UNCHANGED <<pending, world, history, counts>>

\* The cleanup function ended: with a Lua error or an unreadable answer, or as it should.
PollCleanup ==
  LET s == op.script
      record == Released(records[s])
  IN /\ pc = "Poll" /\ op.call \in {"Done", "Erred"} /\ op.phase = "Cleanup"
     /\ \/ /\ Fail(s, records[s])
           /\ pc' = "Pending"
           /\ UNCHANGED controls
        \/ /\ op.call = "Done"
           /\ controls' = controls \ {s}
           /\ \/ /\ op.kind = "Unload"
                 /\ Become(s, record, "Unloaded")
                 /\ Finish
                 /\ pc' = "Pending"
              \/ /\ op.kind = "Reload"
                 /\ QueueCompile("Reload", s, record, "Menu", "Pending")
     /\ UNCHANGED <<pending, world, history, counts>>

\* The compiler answered: nothing, a chunk that cannot be queued, or one that is.
PollCompile ==
  LET s == op.script
  IN /\ pc = "Poll" /\ op.call = "Done" /\ op.phase = "Compile"
     /\ \/ /\ Fail(s, records[s])
           /\ controls' \in {controls, controls \ {s}}
           /\ pc' = "Pending"
           /\ UNCHANGED alive
        \/ /\ controls' = controls \ {s}
           /\ owner' = s
           /\ op' = Calling(op.kind, "Execute", s)
           /\ alive' = TRUE
           /\ pc' = "Menu"
           /\ UNCHANGED <<records, refresh>>
     /\ UNCHANGED <<pending, api, files, history, counts>>

\* The chunk ended: with a Lua error, or having returned a cleanup function or none,
\* which replaces the one of the record.
PollExecute ==
  LET s == op.script
  IN /\ pc = "Poll" /\ op.call = "Done" /\ op.phase = "Execute"
     /\ \/ Fail(s, records[s]) /\ UNCHANGED <<stored, latest>>
        \/ \E n \in {0, stored + 1} :
             /\ Become(s, [records[s] EXCEPT !.cleanup = n, !.time = files[s]], "Loaded")
             /\ stored' = IF n = 0 THEN stored ELSE n
             /\ latest' = [latest EXCEPT ![s] = n]
             /\ Finish
     /\ pc' = "Pending"
     /\ UNCHANGED <<pending, controls, world, called, undone, abandoned, meddled, counts>>

-----------------------------------------------------------------------------
(* ProcessPendingConfiguration and the automatic reload.                   *)

\* Faulty variant of PendingIdle: a configuration is done when its scripts are loaded.
PendingIdleWhenLoaded ==
  /\ pc = "Pending"
  /\ \/ ~pending.active /\ UNCHANGED pending
     \/ /\ pending.initialized /\ pending.unload = {} /\ pending.load = {}
        /\ IF \A s \in pending.desired : records[s].state = "Loaded"
             THEN pending' = NotApplying
             ELSE UNCHANGED pending
  /\ pc' = "Auto"
  /\ UNCHANGED <<records, op, refresh, owner, controls, world, history, counts>>

\* Nothing to apply, or everything applied.
PendingIdle ==
  /\ pc = "Pending"
  /\ \/ ~pending.active /\ UNCHANGED pending
     \/ /\ pending.initialized /\ pending.unload = {} /\ pending.load = {}
        /\ pending' = NotApplying
  /\ pc' = "Auto"
  /\ UNCHANGED <<records, op, refresh, owner, controls, world, history, counts>>

\* What is loaded and not wanted is to be unloaded.
PendingInitialize ==
  /\ pc = "Pending" /\ pending.active /\ ~pending.initialized
  /\ pending' = [pending EXCEPT
       !.initialized = TRUE,
       !.unload = {s \in Scripts \ pending.desired : records[s].state = "Loaded"}]
  /\ UNCHANGED <<records, op, refresh, owner, pc, controls, world, history, counts>>

\* One turn of the first loop.
PendingUnload(s) ==
  /\ pc = "Pending" /\ pending.initialized /\ s \in pending.unload
  /\ pending' = [pending EXCEPT !.unload = @ \ {s}]
  /\ IF records[s].state = "Loaded"
       THEN Begin("Unload", s, records[s], "Auto", "Pending")
       ELSE UNCHANGED <<records, op, refresh, owner, pc, controls, called>>
  /\ UNCHANGED <<world, stored, undone, latest, abandoned, meddled, counts>>

\* One turn of the second loop, with the configuration's auto_reload.
PendingLoad(s, auto) ==
  LET record == [Ensured(s) EXCEPT !.auto = auto, !.exists = files[s] # 0]
  IN /\ pc = "Pending" /\ pending.initialized /\ pending.unload = {} /\ s \in pending.load
     /\ pending' = [pending EXCEPT !.load = @ \ {s}]
     /\ \/ /\ record.state = "Loaded" \/ ~record.exists
           /\ Become(s, record, IF record.state = "Loaded" THEN "Loaded" ELSE "Error")
           /\ UNCHANGED <<op, refresh, owner, pc, controls, called>>
        \/ /\ record.state # "Loaded" /\ record.exists
           /\ Begin("Load", s, record, "Auto", "Pending")
     /\ UNCHANGED <<world, stored, undone, latest, abandoned, meddled, counts>>

Changed(s) ==
  /\ records[s].auto /\ records[s].state = "Loaded" /\ records[s].exists
  /\ files[s] \notin {0, records[s].time}

\* The first loaded script whose file has changed is reloaded.
AutoReload ==
  /\ pc = "Auto"
  /\ \/ /\ op.kind # "None" \/ \A s \in Scripts : ~Changed(s)
        /\ pc' = "Menu"
        /\ UNCHANGED <<records, op, refresh, owner, controls, called>>
     \/ \E s \in Scripts : Changed(s) /\ Begin("Reload", s, records[s], "Menu", "Menu")
  /\ UNCHANGED <<pending, world, stored, undone, latest, abandoned, meddled, counts>>

-----------------------------------------------------------------------------
(* The menu, and what calls the bridge from outside it.                    *)

\* LoadLuaScript, ReloadLuaScript or UnloadLuaScript: without the runtime the script
\* is marked as failed, and while an operation is under way the answer is false.
Request(kind, s) ==
  /\ pc = "Menu" /\ counts.requests < MaxRequests
  /\ counts' = [counts EXCEPT !.requests = @ + 1]
  /\ records[s].known \/ (kind = "Load" /\ files[s] # 0)
  /\ \/ /\ ~api
        /\ Become(s, Ensured(s), "Error")
        /\ UNCHANGED <<op, owner, refresh, pc, controls, called, meddled>>
     \/ /\ api /\ op.kind # "None"
        /\ records' = [records EXCEPT ![s] = Ensured(s)]
        /\ UNCHANGED <<op, owner, refresh, pc, controls, called, meddled>>
     \/ /\ api
        /\ Begin(kind, s, Ensured(s), "Menu", "Menu")
        /\ meddled' = IF kind = "Unload" THEN meddled ELSE meddled \cup {s}
  /\ UNCHANGED <<pending, world, stored, undone, latest, abandoned>>

\* SetLuaScriptAutoReload
SetAutoReload(s) ==
  /\ pc = "Menu" /\ counts.requests < MaxRequests /\ records[s].known
  /\ counts' = [counts EXCEPT !.requests = @ + 1]
  /\ records' = [records EXCEPT ![s].auto = ~@]
  /\ UNCHANGED <<op, pending, refresh, owner, pc, controls, world, history>>

\* RefreshLuaScriptDirectory
RefreshDirectory ==
  /\ pc = "Menu" /\ counts.requests < MaxRequests
  /\ counts' = [counts EXCEPT !.requests = @ + 1]
  /\ refresh' = TRUE
  /\ UNCHANGED <<records, op, pending, owner, pc, controls, world, history>>

\* Faulty variant of Apply: what is left of an earlier configuration stays to be done.
ApplyOnTop(desired) ==
  /\ pc = "Menu" /\ counts.requests < MaxRequests
  /\ counts' = [counts EXCEPT !.requests = @ + 1]
  /\ pending' = [pending EXCEPT !.active = TRUE, !.desired = desired, !.load = desired]
  /\ meddled' = {}
  /\ UNCHANGED <<records, op, refresh, owner, pc, controls, world,
                 stored, called, undone, latest, abandoned>>

\* ApplyLuaScriptConfiguration, from LoadConfiguration.
Apply(desired) ==
  /\ pc = "Menu" /\ counts.requests < MaxRequests
  /\ counts' = [counts EXCEPT !.requests = @ + 1]
  /\ pending' = [NotApplying EXCEPT !.active = TRUE, !.desired = desired, !.load = desired]
  /\ meddled' = {}
  /\ UNCHANGED <<records, op, refresh, owner, pc, controls, world,
                 stored, called, undone, latest, abandoned>>

NextFrame ==
  /\ pc = "Menu"
  /\ pc' = "Scan"
  /\ UNCHANGED <<records, op, pending, refresh, owner, controls, world, history, counts>>

Update ==
  \/ Scan \/ PollNothing \/ PollFailed \/ PollCleanup \/ PollCompile \/ PollExecute
  \/ PendingIdle \/ PendingInitialize
  \/ \E s \in Scripts : PendingUnload(s) \/ \E auto \in BOOLEAN : PendingLoad(s, auto)
  \/ AutoReload
  \/ NextFrame

Next ==
  \/ Update
  \/ Run \/ \E n \in abandoned : RunAbandoned(n)
  \/ Elapse \/ Register \/ ChangeRuntime
  \/ \E s \in Scripts :
       \/ Edit(s) \/ SetAutoReload(s)
       \/ \E kind \in {"Load", "Reload", "Unload"} : Request(kind, s)
  \/ RefreshDirectory
  \/ \E desired \in SUBSET Scripts : Apply(desired)

Spec == Init /\ [][Next]_vars

\* The game draws frames, and time passes.  Nothing makes the game's thread run the
\* call, or the Lua runtime stay.
FairSpec == Spec /\ WF_vars(Update) /\ WF_vars(Elapse)

-----------------------------------------------------------------------------
(* Properties.                                                             *)

\* A script is shown as loading or unloading, with its button disabled, only as long
\* as the operation is about it: whatever fails, it never stays locked.
BusyScriptsAreOperatedOn ==
  \A s \in Scripts : records[s].state \in {"Loading", "Unloading"} => op.script = s

\* The record of the script that is operated on does not vanish from the list, even
\* when its file is deleted meanwhile, and is neither at rest.
OperationKeepsItsRecord ==
  op.kind # "None" => /\ records[op.script].known
                      /\ records[op.script].state \notin {"Unloaded", "Loaded"}

\* A stopped or forgotten script owns no control of the menu.  Calls that were given
\* up may still register controls, and so may the callbacks of any script.
UnloadedScriptsOwnNoControls ==
  \A s \in Scripts : records[s].state = "Unloaded" => s \notin controls

\* What the menu shows as stopped has been undone: the cleanup function that the
\* script's last chunk returned, if it returned one, has run to its end without an
\* error, over timeouts, Lua errors, failed reloads and files that went away.
StoppedScriptsAreUndone ==
  \A s \in Scripts : records[s].state = "Unloaded" => latest[s] \in undone \cup {0}

\* When a configuration has been applied, each of its scripts is loaded or shows an
\* error, and no other script is loaded but those the user loaded meanwhile.
ConfigurationIsApplied ==
  [][pending.active /\ ~pending'.active =>
       \A s \in Scripts :
         /\ s \in pending.desired => records'[s].state \in {"Loaded", "Error"}
         /\ records'[s].state = "Loaded" => s \in pending.desired \cup meddled']_vars

\* "A script may return a cleanup function at its end; stopping or reloading calls
\* it" (lua_page.cpp): one that was stored is still held, or was called.
StoredCleanupsAreCalled ==
  \A n \in 1..stored : n \in called \/ \E s \in Scripts : records[s].cleanup = n

\* With the runtime there, every operation ends, even if the game's thread never
\* runs the call; and every configuration is applied to its end.
OperationsEnd == <>[]api => (op.kind # "None" ~> op.kind = "None")
ConfigurationsEnd == <>[]api => (pending.active ~> ~pending.active)
=============================================================================
