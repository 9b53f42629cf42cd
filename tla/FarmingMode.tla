----------------------------- MODULE FarmingMode -----------------------------
(***************************************************************************)
(* trainer/src/bridge/farming_mode_bridge.cpp: a flag of the game's Lua    *)
(* code, ISFarmingMenu.cheat, is forced while the feature is on and put    *)
(* back when it is turned off.                                             *)
(*                                                                         *)
(* Every access to the flag is a game-thread call: the menu is looked up,  *)
(* its flag is read, written and read again.  Meanwhile the user turns the *)
(* feature on and off, the game replaces its Lua environment, and calls    *)
(* fail or time out; one that timed out may still run, as MainThreadCall   *)
(* has it.                                                                 *)
(***************************************************************************)
EXTENDS Integers

CONSTANTS
  Menus,       \* the ISFarmingMenu tables, one for each Lua environment of the game
  NoMenu,
  Cheating,    \* those whose flag the game's scripts themselves set
  MaxToggles,  \* bounds: times the user turns the feature on or off,
  MaxFailures  \* calls that fail or time out

ASSUME MenuAssumption == NoMenu \notin Menus /\ Cheating \subseteq Menus

VARIABLES
  requested,  \* g_requested
  applied,    \* g_status.applied
  menu,       \* g_menu
  original,   \* g_original_cheat
  captured,   \* g_original_captured
  phase,      \* g_phase
  target,     \* g_target
  call,       \* g_call: its item, the table this is about, and its result
  cheat,      \* cheat[m]: the flag of table m
  current,    \* the game's Lua environment
  loaded,     \* environments whose farming scripts have been loaded
  late,       \* history: writes that were given up and have not run yet
  strayed,    \* history: such a write ran and the bridge may never notice it
  tally       \* counters for the bounds

bridge == <<requested, applied, menu, original, captured, phase, target, call>>
game == <<cheat, current, loaded>>
flagHistory == <<late, strayed>>
farmingVars == <<bridge, game, flagHistory, tally>>

\* Own[m]: the flag as the game's scripts set it.
Own == [m \in Menus |-> m \in Cheating]

NoCall == [item |-> "none", table |-> NoMenu, found |-> NoMenu, observed |-> FALSE]
Outstanding == {"queued", "overdue"}

Phases == {"Idle", "LookupMenu", "ReadCheat", "WriteCheat", "VerifyCheat"}

FarmingTypeOK ==
  /\ {requested, applied, original, captured, target, strayed} \subseteq BOOLEAN
  /\ menu \in Menus \cup {NoMenu}
  /\ phase \in Phases
  /\ call \in [item : {"none", "done"} \cup Outstanding, table : Menus \cup {NoMenu},
               found : Menus \cup {NoMenu}, observed : BOOLEAN]
  /\ call.item = "none" <=> phase = "Idle"
  /\ phase \in {"ReadCheat", "WriteCheat", "VerifyCheat"} => call.table = menu /\ menu \in Menus
  /\ cheat \in [Menus -> BOOLEAN]
  /\ current \in Menus
  /\ loaded \in SUBSET Menus
  /\ late \in SUBSET [id : Nat, table : Menus, value : BOOLEAN]
  /\ tally \in [toggles : Nat, failures : Nat]

FarmingInit ==
  /\ requested = FALSE /\ applied = FALSE
  /\ menu = NoMenu /\ original = FALSE /\ captured = FALSE
  /\ phase = "Idle" /\ target = FALSE /\ call = NoCall
  /\ cheat = Own /\ current \in Menus /\ loaded = {}
  /\ late = {} /\ strayed = FALSE
  /\ tally = [toggles |-> 0, failures |-> 0]

-----------------------------------------------------------------------------
(* The game and the clock.                                                 *)

\* The scripts of the environment have defined ISFarmingMenu.
LoadScripts ==
  /\ current \notin loaded
  /\ loaded' = loaded \cup {current}
  /\ UNCHANGED <<bridge, cheat, current, flagHistory, tally>>

\* Another world: the game starts a new environment.
ReplaceEnvironment ==
  /\ current' \in Menus \ (loaded \cup {current})
  /\ UNCHANGED <<bridge, cheat, loaded, flagHistory, tally>>

\* The game thread runs the queued call.
RunCall ==
  /\ call.item \in Outstanding
  /\ call' = [call EXCEPT !.item = "done",
       !.found = IF phase = "LookupMenu" /\ call.table \in loaded
                 THEN call.table ELSE NoMenu,
       !.observed = IF phase \in {"ReadCheat", "VerifyCheat"}
                    THEN cheat[call.table] ELSE FALSE]
  /\ cheat' = IF phase = "WriteCheat" THEN [cheat EXCEPT ![call.table] = target] ELSE cheat
  /\ UNCHANGED <<requested, applied, menu, original, captured, phase, target,
                 current, loaded, flagHistory, tally>>

\* It runs a write that the bridge has given up.  The bridge will undo it if it still
\* remembers the original and has not read the flag already.
RunLate(write) ==
  /\ late' = late \ {write}
  /\ cheat' = [cheat EXCEPT ![write.table] = write.value]
  /\ strayed' = (strayed \/ ~(requested /\ captured /\ call.item # "done"))
  /\ UNCHANGED <<bridge, current, loaded, tally>>

Count(kind) == tally' = [tally EXCEPT ![kind] = @ + 1]

\* Eight seconds have passed.
Overrun ==
  /\ call.item = "queued"
  /\ tally.failures < MaxFailures
  /\ call' = [call EXCEPT !.item = "overdue"]
  /\ Count("failures")
  /\ UNCHANGED <<requested, applied, menu, original, captured, phase, target, game, flagHistory>>

-----------------------------------------------------------------------------
(* The operation.                                                          *)

\* SetFarmingModeEnabled.
SetEnabled(enabled) ==
  /\ tally.toggles < MaxToggles
  /\ requested' = enabled
  /\ applied' = FALSE
  /\ Count("toggles")
  /\ UNCHANGED <<menu, original, captured, phase, target, call, game, flagHistory>>

\* FinishOperation.
EndOperation == phase' = "Idle" /\ call' = NoCall

\* QueueTableGet and QueueTableSetBoolean.  If the call cannot be queued, that is the
\* end of the operation.
Queue(next, table) ==
  \/ /\ phase' = next
     /\ call' = [NoCall EXCEPT !.item = "queued", !.table = table]
     /\ UNCHANGED <<applied, tally>>
  \/ /\ tally.failures < MaxFailures
     /\ Count("failures")
     /\ applied' = FALSE
     /\ EndOperation

\* Faulty variant of BeginLookup: a feature that was applied needs nothing more.
BeginUnlessApplied ==
  /\ phase = "Idle" /\ ~applied
  /\ Queue("LookupMenu", current)
  /\ UNCHANGED <<requested, menu, original, captured, target, game, flagHistory>>

\* BeginOperation, once a second: nothing is left to do when what was on is off again.
BeginLookup ==
  /\ phase = "Idle"
  /\ ~(applied /\ ~captured /\ ~requested)
  /\ Queue("LookupMenu", current)
  /\ UNCHANGED <<requested, menu, original, captured, target, game, flagHistory>>

\* What remains of a call that is given up: it may be queued still.
GiveUp ==
  /\ late' = IF phase = "WriteCheat" /\ call.item \in Outstanding
             THEN late \cup {[id |-> tally'.failures, table |-> call.table, value |-> target]}
             ELSE late
  /\ applied' = FALSE
  /\ EndOperation
  /\ UNCHANGED <<requested, menu, original, captured, target, game, strayed>>

PollTimedOut == call.item = "overdue" /\ UNCHANGED tally /\ GiveUp

\* The call threw, its result is not what it should be, or it cannot be polled.
CallFailed ==
  /\ phase # "Idle"
  /\ tally.failures < MaxFailures
  /\ Count("failures")
  /\ GiveUp

\* There is no JVM to talk to: the status says so, and the operation waits.
Unready ==
  /\ applied
  /\ tally.failures < MaxFailures
  /\ applied' = FALSE
  /\ Count("failures")
  /\ UNCHANGED <<requested, menu, original, captured, phase, target, call, game, flagHistory>>

\* A table that is not the known one belongs to a new environment, and the original to
\* the old one.
PollLookup ==
  /\ phase = "LookupMenu" /\ call.item = "done"
  /\ IF call.found = NoMenu
     THEN applied' = FALSE /\ EndOperation /\ UNCHANGED <<menu, original, captured, tally>>
     ELSE /\ menu' = call.found
          /\ original' = (original /\ menu = call.found)
          /\ captured' = (captured /\ menu = call.found)
          /\ Queue("ReadCheat", call.found)
  /\ UNCHANGED <<requested, target, game, flagHistory>>

\* Faulty variant of Conclude: what was written last is what was asked for.
ConcludeBlindly(remembered, value) ==
  /\ applied' = (call.observed = value)
  /\ captured' = (remembered /\ ~(applied' /\ ~requested))
  /\ EndOperation

\* The flag is as wanted, if the user has not changed his mind; then the original need
\* not be remembered any more.
Conclude(remembered, value) ==
  /\ applied' = (call.observed = value /\ value = requested)
  /\ captured' = (remembered /\ ~(applied' /\ ~requested))
  /\ EndOperation

\* Faulty variant of Capture: whatever is read while the feature is on is the original.
CaptureAgain == original' = IF requested THEN call.observed ELSE original

\* The first flag that is read while the feature is on is the original.
Capture == original' = IF requested /\ ~captured THEN call.observed ELSE original

\* Faulty variant of Wanted: nothing is put back.
WantedOrAsIs(remembered) == requested \/ call.observed

\* The flag is forced, put back, or left alone.
Wanted(remembered) ==
  IF requested THEN TRUE ELSE IF remembered THEN original' ELSE call.observed

PollRead ==
  /\ phase = "ReadCheat" /\ call.item = "done"
  /\ Capture
  /\ LET remembered == captured \/ requested IN
     /\ target' = Wanted(remembered)
     /\ IF call.observed # target'
        THEN Queue("WriteCheat", menu) /\ captured' = remembered
        ELSE Conclude(remembered, target') /\ UNCHANGED tally
  /\ UNCHANGED <<requested, menu, game, flagHistory>>

PollWrite ==
  /\ phase = "WriteCheat" /\ call.item = "done"
  /\ Queue("VerifyCheat", menu)
  /\ UNCHANGED <<requested, menu, original, captured, target, game, flagHistory>>

PollVerify ==
  /\ phase = "VerifyCheat" /\ call.item = "done"
  /\ Conclude(captured, target)
  /\ UNCHANGED <<requested, menu, original, target, game, flagHistory, tally>>

UpdateFarmingMode ==
  BeginLookup \/ PollTimedOut \/ PollLookup \/ PollRead \/ PollWrite \/ PollVerify

FarmingNext ==
  \/ LoadScripts \/ ReplaceEnvironment \/ RunCall \/ Overrun
  \/ \E write \in late : RunLate(write)
  \/ \E enabled \in BOOLEAN : SetEnabled(enabled)
  \/ UpdateFarmingMode \/ CallFailed \/ Unready

FarmingSpec == FarmingInit /\ [][FarmingNext]_farmingVars

\* Frames are drawn, the game loads its scripts and serves its queue.
FairFarming ==
  /\ FarmingSpec
  /\ WF_farmingVars(UpdateFarmingMode)
  /\ WF_farmingVars(LoadScripts)
  /\ WF_farmingVars(RunCall)

-----------------------------------------------------------------------------
(* Properties.                                                             *)

\* What is remembered is what the game had set and nothing the trainer wrote, through
\* any number of switches, failures and new worlds; only a write that was given up and
\* ran later can be taken for the game's.
OriginalIsTheGames == captured => original = Own[menu] \/ strayed

\* When the menu says that the feature is off, the flag is as the game had it, unless a
\* write that was given up turns it on again behind the bridge's back.
OffMeansOff ==
  phase = "Idle" /\ applied /\ ~requested => cheat[menu] = Own[menu] \/ strayed

\* The feature comes on in the world that is being played, in a later one too.
EnabledTakesEffect == requested ~> (cheat[current] \/ ~requested)

\* Turning the feature off brings the game's own flag back, sooner or later.
DisabledRestores == ~requested ~> (cheat[current] = Own[current] \/ requested \/ strayed)
=============================================================================
