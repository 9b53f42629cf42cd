----------------------------- MODULE LuaProofs ------------------------------
(***************************************************************************)
(* The components that work on the game's Lua from the render thread, one  *)
(* call on its thread at a time: LuaScripts, for any set of scripts and any *)
(* number of requests, edits and outages, and FarmingMode, for any number  *)
(* of worlds, switches and failures.                                       *)
(*                                                                         *)
(* Nearly every step of LuaScripts that changes a record's state is about  *)
(* one script, to which it gives the operation or from which it takes it;  *)
(* what such a step preserves is proved once (OperationStep).              *)
(***************************************************************************)
EXTENDS LuaScripts, FarmingMode, TLAPS

\* ProcessPendingConfiguration runs only when no operation is left under way, and
\* the operation's script owns what is registered, if anybody does.
OperationInv ==
  /\ pc = "Pending" => op = NoOperation
  /\ op.kind = "Unload" => op.phase = "Cleanup"
  /\ owner # NoScript => op # NoOperation /\ owner = op.script
  /\ \A s \in Scripts :
       ~records[s].known => records[s].state = "Unloaded" /\ records[s].cleanup = 0
  /\ BusyScriptsAreOperatedOn
  /\ OperationKeepsItsRecord
  /\ UnloadedScriptsOwnNoControls

\* A record holds the cleanup function of its script's last chunk until that function
\* has run to its end; a script at rest holds none.
CleanupInv ==
  /\ \A s \in Scripts :
       IF records[s].cleanup = 0 THEN latest[s] \in undone \cup {0}
                                 ELSE latest[s] = records[s].cleanup
  /\ \A s \in Scripts : records[s].state = "Unloaded" => records[s].cleanup = 0
  /\ op.phase = "Cleanup" =>
       /\ records[op.script].cleanup # 0
       /\ op.call = "Done" => records[op.script].cleanup \in undone

\* Between two scripts of a configuration an operation is under way, so that the user
\* cannot stop what was loaded before.
ConfigurationInv ==
  /\ ~pending.initialized => pending.load = pending.desired
  /\ pending.initialized =>
      /\ pending.active
      /\ pending.load \subseteq pending.desired
      /\ pending.unload \cap pending.desired = {}
      /\ pending.load # pending.desired => pending.unload = {}
      /\ op = NoOperation /\ pc # "Pending" => pending.load = pending.desired
      /\ \A s \in Scripts :
           /\ records[s].state = "Loaded" \/ (op.script = s /\ op.kind # "Unload")
                => s \in pending.desired \cup pending.unload \cup meddled
           /\ s \in pending.desired \ pending.load =>
                \/ records[s].state \in {"Loaded", "Error"}
                \/ op.script = s
           /\ s \in pending.desired \ pending.load /\ op.script = s => op.kind # "Unload"

IInv == TypeOK /\ OperationInv /\ CleanupInv /\ ConfigurationInv

-----------------------------------------------------------------------------
(* The records.                                                            *)

States == {"Unloaded", "Loading", "Loaded", "Unloading", "Error"}

\* A record is the one of s for all that the operation depends on.
LikeRecordOf(s, record) ==
  /\ record \in Records /\ record.known
  /\ record.state = records[s].state /\ record.cleanup = records[s].cleanup

\* Only the state of the record is changed, and only of this one.
LEMMA Becoming ==
  ASSUME records \in [Scripts -> Records], NEW s \in Scripts, NEW record \in Records,
         NEW state \in States, Become(s, record, state)
  PROVE  /\ records' \in [Scripts -> Records]
         /\ records'[s].state = state
         /\ records'[s].known = record.known
         /\ records'[s].cleanup = record.cleanup
         /\ \A t \in Scripts \ {s} : records'[t] = records[t]
  BY DEF Become, Records, States

\* EnsureRecord finds the script's record, or makes one that is at rest.
LEMMA EnsuredRecord ==
  ASSUME TypeOK, OperationInv, NEW s \in Scripts
  PROVE  LikeRecordOf(s, Ensured(s))
  BY DEF TypeOK, OperationInv, LikeRecordOf, Ensured, Forgotten, Records

\* A scan changes neither the state nor the cleanup function of a record; it forgets
\* records that are at rest only.
LEMMA ScannedRecord ==
  ASSUME TypeOK, OperationInv, NEW s \in Scripts
  PROVE  /\ Scanned(s) \in Records
         /\ Scanned(s).state = records[s].state
         /\ Scanned(s).cleanup = records[s].cleanup
         /\ ~Scanned(s).known => Scanned(s).state = "Unloaded" /\ Scanned(s).cleanup = 0
         /\ records[s].known /\ records[s].state # "Unloaded" => Scanned(s).known
  <1> DEFINE found == s \notin External /\ files[s] # 0
             record == IF found THEN Ensured(s) ELSE records[s]
  <1>1. /\ record \in Records
        /\ record.state = records[s].state
        /\ record.cleanup = records[s].cleanup
        /\ record.known \/ (record.state = "Unloaded" /\ record.cleanup = 0 /\ ~records[s].known)
    BY EnsuredRecord DEF TypeOK, OperationInv, LikeRecordOf
  <1>2. Scanned(s) = IF ~found /\ record.state = "Unloaded" /\ record.cleanup = 0
                       THEN Forgotten ELSE [record EXCEPT !.exists = found]
    BY DEF Scanned
  <1> HIDE DEF record, found
  <1>3. found \in BOOLEAN
    BY DEF found
  <1>4. /\ Forgotten \in Records /\ Forgotten.state = "Unloaded" /\ Forgotten.cleanup = 0
    BY DEF Forgotten, Records
  <1>5. LET changed == [record EXCEPT !.exists = found]
        IN /\ changed \in Records
           /\ changed.state = record.state /\ changed.cleanup = record.cleanup
           /\ changed.known = record.known
    BY <1>1, <1>3 DEF Records
  <1> QED
    BY <1>1, <1>2, <1>4, <1>5

-----------------------------------------------------------------------------
(* The shared operation.                                                   *)

\* What a step does that is about the operation of s: it takes the operation from s
\* and leaves it at rest or failed, or s has it afterwards.
Touches(s) ==
  /\ op = NoOperation \/ op.script = s
  /\ records' \in [Scripts -> Records]
  /\ \A t \in Scripts \ {s} : records'[t] = records[t]
  /\ records'[s].known
  /\ controls' \subseteq controls
  /\ refresh' \in BOOLEAN
  /\ \/ /\ op' = NoOperation /\ owner' = NoScript
        /\ records'[s].state \notin {"Loading", "Unloading"}
        /\ records'[s].state = "Unloaded" => s \notin controls'
     \/ /\ op' \in Operations \ {NoOperation} /\ op'.script = s
        /\ op'.kind = "Unload" => op'.phase = "Cleanup"
        /\ owner' \in {owner, s}
        /\ records'[s].state \notin {"Unloaded", "Loaded"}
        /\ pc' # "Pending"

\* No operation has no script.
LEMMA OperationShape ==
  /\ NoOperation.kind = "None" /\ NoOperation.script = NoScript
  /\ NoOperation.phase = "Idle" /\ NoOperation.call = "Idle"
  /\ \A o \in Operations \ {NoOperation} : o.kind # "None" /\ o.script \in Scripts
  /\ \A o \in Operations : o.kind = "None" => o = NoOperation
  /\ NoScript \notin Scripts
  BY ScriptsAssumption DEF NoOperation, Operations

LEMMA CallingShape ==
  ASSUME NEW kind \in {"Load", "Reload", "Unload"}, NEW s \in Scripts,
         NEW stage \in {"Cleanup", "Compile", "Execute"}
  PROVE  LET o == Calling(kind, stage, s)
         IN /\ o \in Operations \ {NoOperation}
            /\ o.kind = kind /\ o.phase = stage /\ o.script = s /\ o.call = "Queued"
  BY DEF Calling, Operations, NoOperation

\* Whatever touches one script preserves what relates scripts, operation and controls.
LEMMA OperationStep ==
  ASSUME TypeOK, OperationInv, NEW s \in Scripts, Touches(s)
  PROVE  OperationInv' /\ controls' \in SUBSET (Scripts \cup {NoScript})
         /\ op' \in Operations /\ owner' \in Scripts \cup {NoScript}
  <1>1. op' \in Operations /\ (op' = NoOperation \/ op'.script = s)
    BY DEF Touches, Operations
  <1>2. owner' \in {NoScript, s}
    BY OperationShape DEF Touches, OperationInv
  <1>3. op' # NoOperation => records'[s].state \notin {"Unloaded", "Loaded"} /\ pc' # "Pending"
                             /\ (op'.kind = "Unload" => op'.phase = "Cleanup")
    BY DEF Touches
  <1>4. op' = NoOperation => owner' = NoScript /\ records'[s].state \notin {"Loading", "Unloading"}
    BY OperationShape DEF Touches
  <1>5. \A t \in Scripts \ {s} : records'[t] = records[t]
    BY DEF Touches
  <1>6. BusyScriptsAreOperatedOn'
    BY <1>1, <1>4, <1>5, OperationShape
    DEF Touches, OperationInv, BusyScriptsAreOperatedOn
  <1>7. OperationKeepsItsRecord'
    BY <1>1, <1>3, OperationShape DEF Touches, OperationKeepsItsRecord
  <1>8. UnloadedScriptsOwnNoControls'
    BY <1>5 DEF Touches, OperationInv, UnloadedScriptsOwnNoControls
  <1>9. \A t \in Scripts :
          ~records'[t].known => records'[t].state = "Unloaded" /\ records'[t].cleanup = 0
    BY <1>5 DEF Touches, OperationInv
  <1>10. owner' # NoScript => op' # NoOperation /\ owner' = op'.script
    BY <1>1, <1>2, <1>4
  <1>11. pc' = "Pending" => op' = NoOperation
    BY <1>3
  <1>12. op'.kind = "Unload" => op'.phase = "Cleanup"
    BY <1>3, OperationShape
  <1> QED
    BY <1>1, <1>2, <1>6, <1>7, <1>8, <1>9, <1>10, <1>11, <1>12
    DEF OperationInv, Touches, TypeOK

\* SetError and FinishOperation: the script has failed and the operation is over.
LEMMA FailStep ==
  ASSUME TypeOK, NEW s \in Scripts, NEW record \in Records, record.known,
         op = NoOperation \/ op.script = s, controls' \subseteq controls, Fail(s, record)
  PROVE  /\ Touches(s)
         /\ records'[s].cleanup = record.cleanup
         /\ op' = NoOperation /\ records'[s].state = "Error"
  BY Becoming DEF Fail, Finish, Touches, TypeOK, States

\* QueueCompile: the operation goes on with the compiler, or the script has failed.
LEMMA QueueCompileStep ==
  ASSUME TypeOK, NEW s \in Scripts, NEW record \in Records, record.known,
         NEW kind \in {"Load", "Reload"}, NEW accepted \in {"Auto", "Menu"}, NEW refused,
         op = NoOperation \/ op.script = s, controls' \subseteq controls,
         QueueCompile(kind, s, record, accepted, refused)
  PROVE  /\ Touches(s)
         /\ records'[s].cleanup = record.cleanup
         /\ op'.phase # "Cleanup"
         /\ \/ op' = NoOperation /\ records'[s].state = "Error" /\ pc' = refused
            \/ op' # NoOperation /\ op'.kind = kind /\ op'.script = s /\ pc' = accepted
  <1>1. CASE Fail(s, record) /\ pc' = refused
    BY <1>1, FailStep, OperationShape
  <1>2. CASE /\ Become(s, record, "Loading")
             /\ op' = Calling(kind, "Compile", s)
             /\ pc' = accepted
             /\ UNCHANGED <<owner, refresh>>
    BY <1>2, Becoming, CallingShape, OperationShape DEF Touches, TypeOK, States
  <1> QED
    BY <1>1, <1>2 DEF QueueCompile

\* BeginOperation: the operation is under way, was refused because the script has
\* failed, or had nothing to call.
LEMMA BeginStep ==
  ASSUME TypeOK, OperationInv, NEW s \in Scripts, NEW record, LikeRecordOf(s, record),
         NEW kind \in {"Load", "Reload", "Unload"},
         NEW accepted \in {"Auto", "Menu"}, NEW refused \in {"Pending", "Menu"},
         Begin(kind, s, record, accepted, refused)
  PROVE  /\ Touches(s)
         /\ op = NoOperation
         /\ records'[s].cleanup = records[s].cleanup
         /\ op'.phase = "Cleanup" => records[s].cleanup # 0 /\ op'.call # "Done"
         /\ records'[s].state = "Unloaded" => records'[s].cleanup = 0
         /\ called' \in SUBSET Nat
         /\ pc' \in {accepted, refused}
         /\ \/ op' # NoOperation /\ op'.kind = kind /\ op'.script = s /\ pc' = accepted
            \/ op' = NoOperation /\ records'[s].state = "Error" /\ pc' = refused
            \/ /\ op' = NoOperation /\ records'[s].state = "Unloaded"
               /\ kind = "Unload" /\ pc' = accepted
  <1>1. /\ op = NoOperation /\ record \in Records /\ record.known
        /\ record.cleanup = records[s].cleanup /\ record.cleanup \in Nat
    BY OperationShape DEF Begin, LikeRecordOf, TypeOK, Records
  <1>2. CASE /\ kind \in {"Reload", "Unload"} /\ record.cleanup # 0
             /\ QueueCleanup(kind, s, record, accepted, refused)
             /\ UNCHANGED controls
    <2>1. CASE Fail(s, record) /\ pc' = refused /\ UNCHANGED called
      BY <1>1, <1>2, <2>1, FailStep, OperationShape DEF TypeOK
    <2>2. CASE /\ Become(s, record, "Unloading")
               /\ op' = Calling(kind, "Cleanup", s)
               /\ called' = called \cup {record.cleanup}
               /\ pc' = accepted
               /\ UNCHANGED <<owner, refresh>>
      <3>1. /\ records' \in [Scripts -> Records] /\ records'[s].known
            /\ records'[s].state = "Unloading" /\ records'[s].cleanup = record.cleanup
            /\ \A t \in Scripts \ {s} : records'[t] = records[t]
        BY <1>1, <2>2, Becoming DEF TypeOK, States
      <3>2. /\ op' \in Operations \ {NoOperation} /\ op'.script = s
            /\ op'.kind = kind /\ op'.phase = "Cleanup" /\ op'.call = "Queued"
        BY <2>2, CallingShape
      <3>3. Touches(s)
        BY <1>1, <1>2, <2>2, <3>1, <3>2 DEF Touches, TypeOK
      <3>4. called' \in SUBSET Nat
        BY <1>1, <2>2 DEF TypeOK
      <3> QED
        BY <1>1, <1>2, <2>2, <3>1, <3>2, <3>3, <3>4
    <2> QED
      BY <1>2, <2>1, <2>2 DEF QueueCleanup
  <1>3. CASE /\ kind = "Unload" /\ record.cleanup = 0
             /\ Become(s, record, "Unloaded")
             /\ controls' = controls \ {s}
             /\ Finish
             /\ pc' = accepted
             /\ UNCHANGED called
    BY <1>1, <1>3, Becoming, OperationShape DEF Finish, Touches, TypeOK, States
  <1>4. CASE /\ kind \in {"Load", "Reload"}
             /\ QueueCompile(kind, s, record, accepted, refused)
             /\ UNCHANGED <<controls, called>>
    BY <1>1, <1>4, QueueCompileStep DEF TypeOK, Touches
  <1> QED
    BY <1>2, <1>3, <1>4 DEF Begin

-----------------------------------------------------------------------------
(* What steps of each sort preserve.                                       *)

\* A step that leaves every script and the operation where they are.
Quiet ==
  /\ records' \in [Scripts -> Records]
  /\ \A s \in Scripts :
       /\ records'[s].state = records[s].state
       /\ records'[s].cleanup = records[s].cleanup
       /\ ~records'[s].known => records[s].state = "Unloaded" /\ records[s].cleanup = 0
  /\ op' \in Operations
  /\ op'.kind = op.kind /\ op'.phase = op.phase /\ op'.script = op.script
  /\ pc' = "Pending" => op = NoOperation
  /\ op'.phase = "Cleanup" /\ op'.call = "Done" =>
       op.call = "Done" \/ records[op.script].cleanup \in undone'
  /\ controls' \subseteq controls \cup {owner}
  /\ undone \subseteq undone'
  /\ UNCHANGED <<owner, latest>>

\* A step that does not touch what relates a script to its cleanup function.
LEMMA CleanupKept ==
  ASSUME CleanupInv, op' \in Operations, undone \subseteq undone', UNCHANGED latest,
         \A s \in Scripts : records'[s].cleanup = records[s].cleanup,
         \A s \in Scripts : records'[s].state = "Unloaded" => records[s].cleanup = 0,
         op'.phase = "Cleanup" /\ op'.script \in Scripts =>
           /\ records[op'.script].cleanup # 0
           /\ op'.call = "Done" => records[op'.script].cleanup \in undone'
  PROVE  CleanupInv'
  <1>1. op'.phase = "Cleanup" => op'.script \in Scripts
    BY OperationShape
  <1> QED
    BY <1>1 DEF CleanupInv

LEMMA QuietStep ==
  ASSUME TypeOK, OperationInv, CleanupInv, Quiet
  PROVE  OperationInv' /\ CleanupInv'
  <1>1. op' = NoOperation <=> op = NoOperation
    BY OperationShape DEF Quiet, TypeOK
  <1>2. BusyScriptsAreOperatedOn'
    BY DEF Quiet, OperationInv, BusyScriptsAreOperatedOn
  <1>3. op' # NoOperation => op.script \in Scripts /\ op.kind # "None"
    BY <1>1, OperationShape DEF TypeOK
  <1>4. OperationKeepsItsRecord'
    <2> SUFFICES ASSUME op'.kind # "None"
                 PROVE  /\ records'[op.script].known
                        /\ records'[op.script].state \notin {"Unloaded", "Loaded"}
      BY DEF Quiet, OperationKeepsItsRecord
    <2>1. op.script \in Scripts /\ op.kind # "None"
      BY <1>3, OperationShape DEF Quiet
    <2> QED
      BY <2>1 DEF Quiet, OperationInv, OperationKeepsItsRecord
  <1>5. UnloadedScriptsOwnNoControls'
    <2> SUFFICES ASSUME NEW s \in Scripts, records[s].state = "Unloaded"
                 PROVE  s \notin controls'
      BY DEF Quiet, UnloadedScriptsOwnNoControls
    <2>1. s \notin controls
      BY DEF OperationInv, UnloadedScriptsOwnNoControls
    <2>2. s # owner
      BY OperationShape DEF OperationInv, OperationKeepsItsRecord, TypeOK
    <2> QED
      BY <2>1, <2>2 DEF Quiet
  <1>6. OperationInv'
    BY <1>1, <1>2, <1>4, <1>5 DEF Quiet, OperationInv
  <1>7. CleanupInv'
    BY CleanupKept DEF Quiet, CleanupInv
  <1> QED
    BY <1>6, <1>7

\* A quiet step in which the configuration does not go on either.
LEMMA QuietConfiguration ==
  ASSUME TypeOK, ConfigurationInv, Quiet, UNCHANGED <<pending, meddled>>,
         pc = "Pending" => pc' = "Pending" \/ ~pending.initialized
  PROVE  ConfigurationInv'
  <1>1. op' = NoOperation <=> op = NoOperation
    BY OperationShape DEF Quiet, TypeOK
  <1> QED
    BY <1>1 DEF Quiet, ConfigurationInv

\* A step about one script, in terms of what the configuration says of that script.
LEMMA TouchConfiguration ==
  ASSUME TypeOK, OperationInv, ConfigurationInv, NEW s \in Scripts, Touches(s),
         \/ UNCHANGED pending
         \/ pending' = [pending EXCEPT !.unload = @ \ {s}]
         \/ pending' = [pending EXCEPT !.load = @ \ {s}] /\ pending.initialized /\ pending.unload = {},
         meddled \subseteq meddled',
         pending.initialized =>
           /\ op' = NoOperation /\ pc' # "Pending" => pending'.load = pending.desired
           /\ records'[s].state = "Loaded" \/ (op'.script = s /\ op'.kind # "Unload")
                => s \in pending.desired \cup pending'.unload \cup meddled'
           /\ s \in pending.desired \ pending'.load =>
                /\ records'[s].state \in {"Loaded", "Error"} \/ op'.script = s
                /\ op'.script = s => op'.kind # "Unload"
  PROVE  /\ ConfigurationInv'
         /\ pending' \in [active : BOOLEAN, initialized : BOOLEAN, desired : SUBSET Scripts,
                         unload : SUBSET Scripts, load : SUBSET Scripts]
  <1>1. \A t \in Scripts \ {s} : records'[t] = records[t] /\ op.script # t /\ op'.script # t
    BY OperationShape DEF Touches
  <1>2. /\ pending' \in [active : BOOLEAN, initialized : BOOLEAN, desired : SUBSET Scripts,
                         unload : SUBSET Scripts, load : SUBSET Scripts]
        /\ pending'.initialized = pending.initialized /\ pending'.active = pending.active
        /\ pending'.desired = pending.desired
        /\ pending.unload \ {s} \subseteq pending'.unload /\ pending'.unload \subseteq pending.unload
        /\ pending.load \ {s} \subseteq pending'.load /\ pending'.load \subseteq pending.load
        /\ pending'.load # pending.load => pending.initialized /\ pending'.unload = {}
    <2>1. CASE UNCHANGED pending
      BY <2>1 DEF TypeOK
    <2>2. CASE pending' = [pending EXCEPT !.unload = @ \ {s}]
      BY <2>2 DEF TypeOK
    <2>3. CASE pending' = [pending EXCEPT !.load = @ \ {s}] /\ pending.initialized /\ pending.unload = {}
      BY <2>3 DEF TypeOK
    <2> QED
      BY <2>1, <2>2, <2>3
  <1>3. CASE ~pending.initialized
    BY <1>2, <1>3 DEF ConfigurationInv
  <1>4. CASE pending.initialized
    <2>1. /\ pending'.active /\ pending'.load \subseteq pending'.desired
          /\ pending'.unload \cap pending'.desired = {}
          /\ pending'.load # pending'.desired => pending'.unload = {}
          /\ op' = NoOperation /\ pc' # "Pending" => pending'.load = pending'.desired
      BY <1>2, <1>4 DEF ConfigurationInv
    <2>2. ASSUME NEW t \in Scripts
          PROVE  /\ records'[t].state = "Loaded" \/ (op'.script = t /\ op'.kind # "Unload")
                      => t \in pending'.desired \cup pending'.unload \cup meddled'
                 /\ t \in pending'.desired \ pending'.load =>
                      records'[t].state \in {"Loaded", "Error"} \/ op'.script = t
                 /\ t \in pending'.desired \ pending'.load /\ op'.script = t => op'.kind # "Unload"
      <3>1. CASE t = s
        BY <1>2, <1>4, <3>1
      <3>2. CASE t # s
        BY <1>1, <1>2, <1>4, <3>2 DEF ConfigurationInv
      <3> QED
        BY <3>1, <3>2
    <2> QED
      BY <1>2, <1>4, <2>1, <2>2 DEF ConfigurationInv
  <1> QED
    BY <1>2, <1>3, <1>4

-----------------------------------------------------------------------------
(* The steps.                                                              *)

LEMMA Initially == Init => IInv
  <1> SUFFICES ASSUME Init PROVE IInv
    OBVIOUS
  <1>1. Forgotten \in Records /\ Forgotten.state = "Unloaded" /\ Forgotten.cleanup = 0
    BY DEF Forgotten, Records
  <1>2. TypeOK
    BY <1>1 DEF Init, TypeOK, Operations, NotApplying
  <1>3. OperationInv
    BY <1>1, OperationShape
    DEF Init, OperationInv, BusyScriptsAreOperatedOn, OperationKeepsItsRecord,
        UnloadedScriptsOwnNoControls
  <1>4. CleanupInv
    BY <1>1, OperationShape DEF Init, CleanupInv
  <1>5. ConfigurationInv
    BY DEF Init, ConfigurationInv, NotApplying
  <1> QED
    BY <1>2, <1>3, <1>4, <1>5 DEF IInv

\* The environment, the menu's harmless requests and the frame's empty steps.
LEMMA QuietSteps ==
  ASSUME IInv,
         \/ Run \/ (\E n \in abandoned : RunAbandoned(n)) \/ Elapse \/ Register \/ ChangeRuntime \/ RefreshDirectory
         \/ PollNothing \/ NextFrame \/ Scan
         \/ \E s \in Scripts : Edit(s) \/ SetAutoReload(s)
         \/ UNCHANGED vars
  PROVE  IInv'
  <1> USE DEF IInv
  <1>0. op \in Operations /\ TypeOK /\ OperationInv
    BY DEF TypeOK
  <1>11. CASE \E n \in abandoned : RunAbandoned(n)
    <2>1. PICK n \in abandoned : RunAbandoned(n)
      BY <1>11
    <2>2. /\ undone' \in SUBSET Nat /\ abandoned' \in SUBSET Nat /\ undone \subseteq undone'
          /\ UNCHANGED <<frame, controls, world, stored, called, latest, meddled, counts>>
      BY <2>1 DEF RunAbandoned, TypeOK
    <2>3. TypeOK'
      BY <2>2 DEF TypeOK, frame, world
    <2>4. Quiet
      BY <1>0, <2>2, OperationShape DEF Quiet, TypeOK, OperationInv, frame
    <2> QED
      BY <2>2, <2>3, <2>4, QuietStep, QuietConfiguration DEF frame
  <1>1. CASE Run \/ Elapse
    <2>1. op # NoOperation
      BY <1>1, OperationShape DEF Run, Elapse
    <2>2. /\ op' \in Operations /\ op'.kind = op.kind
          /\ op'.phase = op.phase /\ op'.script = op.script
      BY <1>0, <1>1, <2>1 DEF Run, Elapse, Operations
    <2>5. /\ undone \subseteq undone' /\ undone' \in SUBSET Nat
          /\ op'.phase = "Cleanup" /\ op'.call = "Done" =>
               records[op.script].cleanup \in undone'
      <3>1. op.script \in Scripts /\ records[op.script].cleanup \in Nat
        BY <1>0, <2>1, OperationShape DEF TypeOK, Records
      <3>2. undone \in SUBSET Nat
        BY DEF TypeOK
      <3>3. CASE Run
        BY <1>0, <2>1, <2>2, <3>1, <3>2, <3>3 DEF Run, Operations
      <3>4. CASE Elapse
        <4>1. op'.call # "Done"
          BY <1>0, <2>1, <3>4 DEF Elapse, Operations
        <4> QED
          BY <3>2, <3>4, <4>1 DEF Elapse, history
      <3> QED
        BY <1>1, <3>3, <3>4
    <2>3. TypeOK'
      BY <1>1, <2>2, <2>5 DEF Run, Elapse, TypeOK, world, history
    <2>4. Quiet
      BY <1>0, <1>1, <2>2, <2>5 DEF Run, Elapse, TypeOK, OperationInv, Quiet, world, history
    <2> QED
      BY <1>1, <2>3, <2>4, QuietStep, QuietConfiguration DEF Run, Elapse, history
  <1>2. CASE Register \/ ChangeRuntime \/ RefreshDirectory \/ \E s \in Scripts : Edit(s)
    <2>1. TypeOK'
      <3>1. CASE Register
        BY <3>1 DEF Register, TypeOK, frame, world, history
      <3>2. CASE ChangeRuntime
        BY <3>2 DEF ChangeRuntime, TypeOK, frame, history
      <3>3. CASE RefreshDirectory
        BY <3>3 DEF RefreshDirectory, TypeOK, world, history
      <3>4. CASE \E s \in Scripts : Edit(s)
        BY <3>4 DEF Edit, TypeOK, frame, history
      <3> QED
        BY <1>2, <3>1, <3>2, <3>3, <3>4
    <2>2. Quiet
      BY <1>0, <1>2
      DEF Register, ChangeRuntime, RefreshDirectory, Edit, Quiet, TypeOK, OperationInv,
          frame, world, history
    <2> QED
      BY <1>2, <2>1, <2>2, QuietStep, QuietConfiguration
      DEF Register, ChangeRuntime, RefreshDirectory, Edit, frame, history
  <1>3. CASE PollNothing \/ NextFrame
    <2>1. TypeOK'
      BY <1>3 DEF PollNothing, NextFrame, TypeOK, world, history
    <2>2. Quiet
      BY <1>0, <1>3, OperationShape
      DEF PollNothing, NextFrame, Quiet, TypeOK, OperationInv, world, history
    <2> QED
      BY <1>3, <2>1, <2>2, QuietStep, QuietConfiguration DEF PollNothing, NextFrame, history
  <1>4. CASE Scan
    <2>1. /\ records' \in [Scripts -> Records]
          /\ \A s \in Scripts :
               /\ records'[s].state = records[s].state
               /\ records'[s].cleanup = records[s].cleanup
               /\ ~records'[s].known => records[s].state = "Unloaded" /\ records[s].cleanup = 0
      <3>1. CASE records' = [s \in Scripts |-> Scanned(s)]
        BY <1>0, <3>1, ScannedRecord
      <3>2. CASE UNCHANGED records
        BY <1>0, <3>2 DEF TypeOK, OperationInv
      <3> QED
        BY <1>4, <3>1, <3>2 DEF Scan
    <2>2. TypeOK'
      BY <1>4, <2>1 DEF Scan, TypeOK, world, history
    <2>3. Quiet
      BY <1>0, <1>4, <2>1 DEF Scan, Quiet, world, history
    <2> QED
      BY <1>4, <2>2, <2>3, QuietStep, QuietConfiguration DEF Scan, history
  <1>5. CASE \E s \in Scripts : SetAutoReload(s)
    <2>1. PICK s \in Scripts : SetAutoReload(s)
      BY <1>5
    <2>2. records' = [records EXCEPT ![s] = [records[s] EXCEPT !.auto = ~records[s].auto]]
      BY <2>1 DEF SetAutoReload
    <2>3. LET changed == [records[s] EXCEPT !.auto = ~records[s].auto]
          IN /\ changed \in Records /\ changed.state = records[s].state
             /\ changed.cleanup = records[s].cleanup /\ changed.known = records[s].known
      BY <1>0 DEF TypeOK, Records
    <2>4. /\ records' \in [Scripts -> Records]
          /\ \A t \in Scripts :
               /\ records'[t].state = records[t].state
               /\ records'[t].cleanup = records[t].cleanup
               /\ records'[t].known = records[t].known
      BY <1>0, <2>2, <2>3 DEF TypeOK
    <2>5. TypeOK'
      BY <2>1, <2>4 DEF SetAutoReload, TypeOK, world, history
    <2>6. Quiet
      BY <1>0, <2>1, <2>4 DEF SetAutoReload, Quiet, TypeOK, OperationInv, world, history
    <2> QED
      BY <2>1, <2>5, <2>6, QuietStep, QuietConfiguration DEF SetAutoReload, history
  <1>6. CASE UNCHANGED vars
    BY <1>6 DEF vars, frame, world, history, TypeOK, OperationInv, CleanupInv,
       ConfigurationInv, BusyScriptsAreOperatedOn, OperationKeepsItsRecord,
       UnloadedScriptsOwnNoControls
  <1> QED
    BY <1>11, <1>1, <1>2, <1>3, <1>4, <1>5, <1>6

\* PollOperation: the operation fails, ends, or goes on with its next call.
LEMMA PollSteps ==
  ASSUME IInv, PollFailed \/ PollCleanup \/ PollCompile \/ PollExecute
  PROVE  IInv'
  <1> USE DEF IInv
  <1> DEFINE s == op.script
  <1>0. /\ s \in Scripts /\ op \in Operations \ {NoOperation} /\ op.kind # "None"
        /\ op.kind \in {"Load", "Reload", "Unload"}
        /\ records[s] \in Records /\ records[s].known
    <2>1. op # NoOperation
      BY OperationShape DEF PollFailed, PollCleanup, PollCompile, PollExecute
    <2> QED
      BY <2>1, OperationShape DEF TypeOK, OperationInv, OperationKeepsItsRecord, Operations
  <1> HIDE DEF s
  <1>00. s = op.script
    BY DEF s
  <1>1. CASE PollFailed
    <2>1. /\ Fail(s, records[s]) /\ pc' = "Pending"
          /\ abandoned' \in SUBSET Nat
          /\ UNCHANGED <<controls, pending, world, stored, called, undone, latest, meddled, counts>>
      BY <1>0, <1>1, <1>00 DEF PollFailed, TypeOK, Records
    <2>2. Touches(s) /\ records'[s].cleanup = records[s].cleanup
          /\ op' = NoOperation /\ records'[s].state = "Error"
      BY <2>1, <1>0, <1>00, FailStep
    <2>3. OperationInv' /\ TypeOK'
      BY <2>1, <2>2, <1>0, OperationStep DEF TypeOK, Touches, world
    <2>4. CleanupInv'
      <3>1. /\ \A t \in Scripts : records'[t].cleanup = records[t].cleanup
            /\ \A t \in Scripts : records'[t].state = "Unloaded" => records[t].cleanup = 0
        BY <2>2 DEF Touches, CleanupInv
      <3> QED
        BY <2>1, <2>2, <2>3, <3>1, OperationShape, CleanupKept DEF TypeOK
    <2>5. ConfigurationInv'
      BY <2>1, <2>2, <1>0, OperationShape, TouchConfiguration
    <2> QED
      BY <2>3, <2>4, <2>5
  <1>2. CASE PollCleanup
    <2> DEFINE record == Released(records[s])
    <2>1. /\ record \in Records /\ record.known /\ record.cleanup = 0
      BY <1>0 DEF Released, Records
    <2>2. /\ pc = "Poll" /\ op.phase = "Cleanup"
          /\ UNCHANGED <<pending, world, history, counts>>
          /\ \/ Fail(s, records[s]) /\ pc' = "Pending" /\ UNCHANGED controls
             \/ /\ op.call = "Done"
                /\ controls' = controls \ {s}
                /\ \/ op.kind = "Unload" /\ Become(s, record, "Unloaded") /\ Finish /\ pc' = "Pending"
                   \/ op.kind = "Reload" /\ QueueCompile("Reload", s, record, "Menu", "Pending")
      BY <1>2, <1>00 DEF PollCleanup
    <2> HIDE DEF record
    <2>3. /\ Touches(s) /\ op'.phase # "Cleanup"
          /\ op' = NoOperation => pc' = "Pending"
          /\ pc' \in {"Menu", "Pending"}
          /\ op' = NoOperation /\ records'[s].state = "Unloaded" => op.kind = "Unload"
          /\ records'[s].state = "Loaded" => op' # NoOperation
          /\ op' # NoOperation => op.kind = "Reload" /\ op'.kind = "Reload"
          /\ op' = NoOperation => records'[s].state \in {"Error", "Unloaded"}
          /\ \/ records'[s].cleanup = records[s].cleanup /\ records'[s].state # "Unloaded"
             \/ records'[s].cleanup = 0 /\ op.call = "Done"
      <3>1. CASE Fail(s, records[s]) /\ pc' = "Pending" /\ UNCHANGED controls
        BY <1>0, <1>00, <3>1, FailStep, OperationShape
      <3>2. CASE /\ op.call = "Done" /\ controls' = controls \ {s}
                 /\ op.kind = "Unload" /\ Become(s, record, "Unloaded") /\ Finish /\ pc' = "Pending"
        BY <1>0, <1>00, <2>1, <3>2, Becoming, OperationShape DEF Finish, Touches, TypeOK, States
      <3>3. CASE /\ op.call = "Done" /\ controls' = controls \ {s}
                 /\ op.kind = "Reload" /\ QueueCompile("Reload", s, record, "Menu", "Pending")
        BY <1>0, <1>00, <2>1, <3>3, QueueCompileStep, OperationShape
      <3> QED
        BY <2>2, <3>1, <3>2, <3>3
    <2>4. OperationInv' /\ TypeOK'
      BY <2>2, <2>3, <1>0, OperationStep DEF TypeOK, Touches, world, history
    <2>5. CleanupInv'
      <3>1. \A t \in Scripts \ {s} : records'[t] = records[t]
        BY <2>3 DEF Touches
      <3>2. latest[s] = records[s].cleanup /\ (op.call = "Done" => latest[s] \in undone)
        BY <1>0, <1>00, <2>2 DEF CleanupInv
      <3> QED
        BY <1>0, <2>2, <2>3, <3>1, <3>2 DEF CleanupInv, history
    <2>6. ConfigurationInv'
      <3>1. records'[s].state = "Loaded" => FALSE
        BY <2>3, OperationShape DEF Touches
      <3>2. op' # NoOperation => op'.script = s
        BY <2>3 DEF Touches
      <3>3. op'.script = s => op' # NoOperation
        BY <1>0, OperationShape
      <3> QED
        BY <1>0, <1>00, <2>2, <2>3, <3>1, <3>2, <3>3, TouchConfiguration DEF ConfigurationInv, history
    <2> QED
      BY <2>4, <2>5, <2>6
  <1>3. CASE PollCompile
    <2>1. /\ pc = "Poll" /\ op.phase = "Compile"
          /\ UNCHANGED <<pending, api, files, history, counts>>
          /\ \/ /\ Fail(s, records[s]) /\ controls' \in {controls, controls \ {s}}
                /\ pc' = "Pending" /\ UNCHANGED alive
             \/ /\ controls' = controls \ {s} /\ owner' = s
                /\ op' = Calling(op.kind, "Execute", s)
                /\ alive' = TRUE /\ pc' = "Menu" /\ UNCHANGED <<records, refresh>>
      BY <1>3, <1>00 DEF PollCompile
    <2>2. op.kind # "Unload"
      BY <2>1 DEF OperationInv
    <2>3. /\ Touches(s) /\ op'.phase # "Cleanup" /\ records'[s].cleanup = records[s].cleanup
          /\ \/ op' = NoOperation /\ pc' = "Pending" /\ records'[s].state = "Error"
             \/ op' # NoOperation /\ op'.kind = op.kind /\ op'.script = s /\ pc' = "Menu"
          /\ alive' \in BOOLEAN
      <3>1. CASE /\ Fail(s, records[s]) /\ controls' \in {controls, controls \ {s}}
                 /\ pc' = "Pending" /\ UNCHANGED alive
        BY <1>0, <1>00, <3>1, FailStep, OperationShape DEF TypeOK
      <3>2. CASE /\ controls' = controls \ {s} /\ owner' = s
                 /\ op' = Calling(op.kind, "Execute", s)
                 /\ alive' = TRUE /\ pc' = "Menu" /\ UNCHANGED <<records, refresh>>
        <4>1. /\ op' \in Operations \ {NoOperation} /\ op'.script = s
              /\ op'.kind = op.kind /\ op'.phase = "Execute"
          BY <1>0, <3>2, CallingShape
        <4>2. records[s].state \notin {"Unloaded", "Loaded"}
          BY <1>0, <1>00 DEF OperationInv, OperationKeepsItsRecord
        <4> QED
          BY <1>0, <1>00, <2>2, <3>2, <4>1, <4>2 DEF Touches, TypeOK
      <3> QED
        BY <2>1, <3>1, <3>2
    <2>4. OperationInv' /\ TypeOK'
      BY <2>1, <2>3, <1>0, OperationStep DEF TypeOK, Touches, history
    <2>5. CleanupInv'
      <3>1. records'[s].state # "Unloaded"
        BY <2>3 DEF Touches
      <3> QED
        BY <2>1, <2>3, <2>4, <1>0, <3>1, CleanupKept DEF Touches, TypeOK, CleanupInv, history
    <2>6. ConfigurationInv'
      <3>1. records'[s].state # "Loaded"
        BY <2>3 DEF Touches
      <3>2. op' = NoOperation => op'.script # s
        BY <1>0, OperationShape
      <3> QED
        BY <1>0, <1>00, <2>1, <2>2, <2>3, <3>1, <3>2, TouchConfiguration DEF ConfigurationInv, history
    <2> QED
      BY <2>4, <2>5, <2>6
  <1>4. CASE PollExecute
    <2>1. /\ pc = "Poll" /\ op.phase = "Execute" /\ pc' = "Pending"
          /\ UNCHANGED <<pending, controls, world, called, undone, abandoned, meddled, counts>>
          /\ \/ Fail(s, records[s]) /\ UNCHANGED <<stored, latest>>
             \/ \E n \in {0, stored + 1} :
                  /\ Become(s, [records[s] EXCEPT !.cleanup = n, !.time = files[s]], "Loaded")
                  /\ stored' = IF n = 0 THEN stored ELSE n
                  /\ latest' = [latest EXCEPT ![s] = n]
                  /\ Finish
      BY <1>4, <1>00 DEF PollExecute
    <2>2. op.kind # "Unload"
      BY <2>1 DEF OperationInv
    <2>3. /\ Touches(s) /\ op' = NoOperation /\ records'[s].state \in {"Loaded", "Error"}
          /\ stored' \in Nat /\ latest' \in [Scripts -> Nat]
          /\ \A t \in Scripts \ {s} : latest'[t] = latest[t]
          /\ \/ records'[s].cleanup = records[s].cleanup /\ latest'[s] = latest[s]
             \/ records'[s].cleanup = latest'[s]
      <3>1. CASE Fail(s, records[s]) /\ UNCHANGED <<stored, latest>>
        BY <1>0, <1>00, <2>1, <3>1, FailStep DEF TypeOK
      <3>2. ASSUME NEW n \in {0, stored + 1},
                   Become(s, [records[s] EXCEPT !.cleanup = n, !.time = files[s]], "Loaded"),
                   stored' = IF n = 0 THEN stored ELSE n,
                   latest' = [latest EXCEPT ![s] = n],
                   Finish
            PROVE  /\ Touches(s) /\ op' = NoOperation /\ records'[s].state = "Loaded"
                   /\ stored' \in Nat /\ latest' \in [Scripts -> Nat]
                   /\ \A t \in Scripts \ {s} : latest'[t] = latest[t]
                   /\ records'[s].cleanup = latest'[s]
        <4>0. n \in Nat /\ files[s] \in Nat
          BY <1>0 DEF TypeOK
        <4>1. LET changed == [records[s] EXCEPT !.cleanup = n, !.time = files[s]]
              IN changed \in Records /\ changed.known /\ changed.cleanup = n
          BY <1>0, <4>0 DEF Records
        <4>2. /\ records' \in [Scripts -> Records] /\ records'[s].known
              /\ records'[s].state = "Loaded" /\ records'[s].cleanup = n
              /\ \A t \in Scripts \ {s} : records'[t] = records[t]
          BY <1>0, <3>2, <4>1, Becoming DEF TypeOK, States
        <4>3. stored \in Nat /\ latest \in [Scripts -> Nat]
          BY DEF TypeOK
        <4>4. Touches(s) /\ op' = NoOperation
          BY <1>00, <2>1, <3>2, <4>2 DEF Touches, Finish
        <4> QED
          BY <1>0, <3>2, <4>0, <4>2, <4>3, <4>4
      <3> QED
        BY <2>1, <3>1, <3>2
    <2>4. OperationInv' /\ TypeOK'
      BY <2>1, <2>3, <1>0, OperationStep DEF TypeOK, Touches, world
    <2>5. CleanupInv'
      <3>1. \A t \in Scripts \ {s} : records'[t] = records[t]
        BY <2>3 DEF Touches
      <3>2. op'.phase # "Cleanup"
        BY <2>3, OperationShape
      <3> QED
        BY <1>0, <2>1, <2>3, <3>1, <3>2 DEF CleanupInv
    <2>6. ConfigurationInv'
      BY <1>0, <1>00, <2>1, <2>2, <2>3, OperationShape, TouchConfiguration DEF ConfigurationInv
    <2> QED
      BY <2>4, <2>5, <2>6
  <1> QED
    BY <1>1, <1>2, <1>3, <1>4

\* ApplyLuaScriptConfiguration, and the ends of ProcessPendingConfiguration.
LEMMA ConfigurationSteps ==
  ASSUME IInv,
         \/ PendingIdle \/ PendingInitialize \/ \E desired \in SUBSET Scripts : Apply(desired)
  PROVE  IInv'
  <1> USE DEF IInv
  <1>1. /\ UNCHANGED <<records, op, refresh, owner, controls, world,
                      stored, called, undone, latest, abandoned>>
        /\ pc' \in {"Auto", "Menu", "Pending"} /\ (pc' = "Pending" => pc = "Pending")
        /\ meddled' \in SUBSET Scripts
        /\ counts' \in [requests : Nat, edits : Nat, outages : Nat]
    <2>1. CASE PendingIdle
      BY <2>1 DEF PendingIdle, TypeOK, history
    <2>2. CASE PendingInitialize
      BY <2>2 DEF PendingInitialize, TypeOK, history
    <2>3. CASE \E desired \in SUBSET Scripts : Apply(desired)
      <3>1. counts' = [counts EXCEPT !.requests = @ + 1]
        BY <2>3 DEF Apply
      <3>2. counts' \in [requests : Nat, edits : Nat, outages : Nat]
        BY <3>1 DEF TypeOK
      <3> QED
        BY <2>3, <3>2 DEF Apply
    <2> QED
      BY <2>1, <2>2, <2>3
  <1>2. Quiet
    BY <1>1 DEF Quiet, TypeOK, OperationInv
  <1>3. /\ pending' \in [active : BOOLEAN, initialized : BOOLEAN, desired : SUBSET Scripts,
                        unload : SUBSET Scripts, load : SUBSET Scripts]
        /\ ConfigurationInv'
    <2>1. CASE PendingIdle
      <3>1. CASE UNCHANGED pending /\ ~pending.active
        BY <1>1, <3>1 DEF ConfigurationInv, TypeOK
      <3>2. CASE pending' = NotApplying
        BY <3>2 DEF ConfigurationInv, NotApplying
      <3> QED
        BY <2>1, <3>1, <3>2 DEF PendingIdle
    <2>2. CASE PendingInitialize
      <3> DEFINE stopped == {s \in Scripts \ pending.desired : records[s].state = "Loaded"}
      <3>1. /\ pc' = "Pending" /\ op' = NoOperation /\ UNCHANGED <<records, meddled>>
            /\ pending.active /\ pending.load = pending.desired
            /\ pending' = [pending EXCEPT !.initialized = TRUE, !.unload = stopped]
        BY <2>2 DEF PendingInitialize, ConfigurationInv, OperationInv, history
      <3>2. stopped \in SUBSET Scripts
        OBVIOUS
      <3> HIDE DEF stopped
      <3>3. pending' = [active |-> TRUE, initialized |-> TRUE, desired |-> pending.desired,
                        unload |-> stopped, load |-> pending.desired]
        BY <3>1 DEF TypeOK
      <3>4. pending' \in [active : BOOLEAN, initialized : BOOLEAN, desired : SUBSET Scripts,
                          unload : SUBSET Scripts, load : SUBSET Scripts]
        BY <3>2, <3>3 DEF TypeOK
      <3>5. /\ pending'.initialized /\ pending'.active /\ pending'.load = pending'.desired
            /\ pending'.unload = stopped /\ pending'.desired = pending.desired
        BY <3>3
      <3>6. /\ stopped \cap pending.desired = {}
            /\ \A s \in Scripts :
                 records[s].state = "Loaded" => s \in pending.desired \cup stopped
        BY DEF stopped
      <3>7. \A s \in Scripts : NoOperation.script # s
        BY OperationShape
      <3> QED
        BY <3>1, <3>4, <3>5, <3>6, <3>7 DEF ConfigurationInv
    <2>3. CASE \E desired \in SUBSET Scripts : Apply(desired)
      <3>1. PICK desired \in SUBSET Scripts : Apply(desired)
        BY <2>3
      <3>2. pending' = [active |-> TRUE, initialized |-> FALSE, desired |-> desired,
                        unload |-> {}, load |-> desired]
        BY <3>1 DEF Apply, NotApplying
      <3> QED
        BY <3>2 DEF ConfigurationInv
    <2> QED
      BY <2>1, <2>2, <2>3
  <1>4. TypeOK'
    BY <1>1, <1>3 DEF TypeOK, world
  <1> QED
    BY <1>2, <1>3, <1>4, QuietStep

\* A turn of the loop that unloads what is not wanted.
LEMMA PendingUnloadStep ==
  ASSUME IInv, NEW s \in Scripts, PendingUnload(s)
  PROVE  IInv'
  <1> USE DEF IInv
  <1>1. /\ pc = "Pending" /\ pending.initialized /\ s \in pending.unload
        /\ pending' = [pending EXCEPT !.unload = @ \ {s}]
        /\ op = NoOperation
        /\ UNCHANGED <<world, stored, undone, latest, abandoned, meddled, counts>>
    BY DEF PendingUnload, OperationInv
  <1>2. s \notin pending.desired /\ pending.load = pending.desired
    BY <1>1 DEF ConfigurationInv
  <1>3. pending'.load = pending.load /\ pending'.unload = pending.unload \ {s}
    BY <1>1 DEF TypeOK
  <1>4. CASE records[s].state = "Loaded" /\ Begin("Unload", s, records[s], "Auto", "Pending")
    <2>1. LikeRecordOf(s, records[s])
      BY <1>4 DEF LikeRecordOf, OperationInv, TypeOK
    <2>2. /\ Touches(s) /\ records'[s].cleanup = records[s].cleanup
          /\ op'.phase = "Cleanup" => records[s].cleanup # 0 /\ op'.call # "Done"
          /\ records'[s].state = "Unloaded" => records'[s].cleanup = 0
          /\ called' \in SUBSET Nat /\ pc' \in {"Auto", "Pending"}
          /\ \/ op' # NoOperation /\ op'.kind = "Unload"
             \/ op' = NoOperation /\ records'[s].state \in {"Error", "Unloaded"}
      BY <1>4, <2>1, BeginStep
    <2>3. records'[s].state # "Loaded" /\ (op' = NoOperation => op'.script # s)
      BY <2>2, OperationShape DEF Touches
    <2>4. /\ ConfigurationInv'
          /\ pending' \in [active : BOOLEAN, initialized : BOOLEAN, desired : SUBSET Scripts,
                          unload : SUBSET Scripts, load : SUBSET Scripts]
      BY <1>1, <1>2, <1>3, <2>2, <2>3, TouchConfiguration
    <2>5. OperationInv' /\ TypeOK'
      BY <1>1, <2>2, <2>4, OperationStep DEF TypeOK, Touches, world
    <2>6. CleanupInv'
      <3>1. /\ \A t \in Scripts : records'[t].cleanup = records[t].cleanup
            /\ \A t \in Scripts : records'[t].state = "Unloaded" => records[t].cleanup = 0
        BY <2>2 DEF Touches, CleanupInv
      <3>2. op'.phase = "Cleanup" => op'.script = s
        BY <2>2, OperationShape DEF Touches
      <3> QED
        BY <1>1, <2>2, <2>5, <3>1, <3>2, CleanupKept DEF TypeOK
    <2> QED
      BY <2>4, <2>5, <2>6
  <1>5. CASE /\ records[s].state # "Loaded"
             /\ UNCHANGED <<records, op, refresh, owner, pc, controls, called>>
    <2>1. Quiet
      BY <1>1, <1>5 DEF Quiet, TypeOK, OperationInv
    <2>2. TypeOK'
      BY <1>1, <1>5 DEF TypeOK, world
    <2>3. /\ pending'.active = pending.active /\ pending'.initialized = pending.initialized
          /\ pending'.desired = pending.desired
      BY <1>1 DEF TypeOK
    <2>4. ConfigurationInv'
      BY <1>1, <1>2, <1>3, <1>5, <2>3, OperationShape DEF ConfigurationInv
    <2> QED
      BY <2>1, <2>2, <2>4, QuietStep
  <1> QED
    BY <1>4, <1>5 DEF PendingUnload

\* A turn of the loop that loads what is wanted.
LEMMA PendingLoadStep ==
  ASSUME IInv, NEW s \in Scripts, NEW auto \in BOOLEAN, PendingLoad(s, auto)
  PROVE  IInv'
  <1> USE DEF IInv
  <1> DEFINE exists == files[s] # 0
             record == [Ensured(s) EXCEPT !.auto = auto, !.exists = exists]
  <1>1. /\ pc = "Pending" /\ pending.initialized /\ pending.unload = {} /\ s \in pending.load
        /\ pending' = [pending EXCEPT !.load = @ \ {s}]
        /\ op = NoOperation
        /\ UNCHANGED <<world, stored, undone, latest, abandoned, meddled, counts>>
        /\ \/ /\ \/ Become(s, record, "Loaded") \/ Become(s, record, "Error")
              /\ UNCHANGED <<op, refresh, owner, pc, controls, called>>
           \/ Begin("Load", s, record, "Auto", "Pending")
    BY DEF PendingLoad, OperationInv
  <1>2. s \in pending.desired
    BY <1>1 DEF ConfigurationInv
  <1>3. LikeRecordOf(s, record)
    <2>1. exists \in BOOLEAN /\ LikeRecordOf(s, Ensured(s))
      BY EnsuredRecord
    <2> HIDE DEF exists
    <2> QED
      BY <2>1 DEF LikeRecordOf, Records
  <1> HIDE DEF record
  <1>4. /\ Touches(s) /\ records'[s].cleanup = records[s].cleanup
        /\ op'.phase = "Cleanup" => records[s].cleanup # 0 /\ op'.call # "Done"
        /\ records'[s].state = "Unloaded" => records'[s].cleanup = 0
        /\ called' \in SUBSET Nat /\ pc' \in {"Auto", "Pending"}
        /\ \/ op' # NoOperation /\ op'.kind = "Load" /\ op'.script = s
           \/ op' = NoOperation /\ pc' = "Pending" /\ records'[s].state \in {"Loaded", "Error"}
    <2>1. CASE /\ \/ Become(s, record, "Loaded") \/ Become(s, record, "Error")
               /\ UNCHANGED <<op, refresh, owner, pc, controls, called>>
      <3>1. /\ records' \in [Scripts -> Records] /\ records'[s].known
            /\ records'[s].state \in {"Loaded", "Error"}
            /\ records'[s].cleanup = record.cleanup
            /\ \A t \in Scripts \ {s} : records'[t] = records[t]
        BY <1>3, <2>1, Becoming DEF LikeRecordOf, TypeOK, States
      <3>2. owner' = NoScript
        BY <1>1, <2>1 DEF OperationInv
      <3> QED
        BY <1>1, <1>3, <2>1, <3>1, <3>2, OperationShape DEF Touches, TypeOK, LikeRecordOf
    <2>2. CASE Begin("Load", s, record, "Auto", "Pending")
      BY <1>1, <1>3, <2>2, BeginStep
    <2> QED
      BY <1>1, <2>1, <2>2
  <1>5. /\ ConfigurationInv'
        /\ pending' \in [active : BOOLEAN, initialized : BOOLEAN, desired : SUBSET Scripts,
                        unload : SUBSET Scripts, load : SUBSET Scripts]
    BY <1>1, <1>2, <1>4, OperationShape, TouchConfiguration
  <1>6. OperationInv' /\ TypeOK'
    BY <1>1, <1>4, <1>5, OperationStep DEF TypeOK, Touches, world
  <1>7. CleanupInv'
    <2>1. /\ \A t \in Scripts : records'[t].cleanup = records[t].cleanup
          /\ \A t \in Scripts : records'[t].state = "Unloaded" => records[t].cleanup = 0
      BY <1>4 DEF Touches, CleanupInv
    <2>2. op'.phase = "Cleanup" => op'.script = s
      BY <1>4, OperationShape
    <2> QED
      BY <1>1, <1>4, <1>6, <2>1, <2>2, CleanupKept DEF TypeOK
  <1> QED
    BY <1>5, <1>6, <1>7

\* An operation that the user or a changed file begins, at the end of the frame.
LEMMA LateBegin ==
  ASSUME IInv, NEW s \in Scripts, NEW record, LikeRecordOf(s, record),
         NEW kind \in {"Load", "Reload", "Unload"}, Begin(kind, s, record, "Menu", "Menu"),
         pc # "Pending", meddled \subseteq meddled', meddled' \in SUBSET Scripts,
         kind # "Unload" /\ pending.initialized =>
           s \in pending.desired \cup pending.unload \cup meddled',
         counts' \in [requests : Nat, edits : Nat, outages : Nat],
         UNCHANGED <<pending, api, files, alive, stored, undone, latest, abandoned>>
  PROVE  IInv'
  <1> USE DEF IInv
  <1>1. /\ Touches(s) /\ records'[s].cleanup = records[s].cleanup
        /\ op = NoOperation
        /\ op'.phase = "Cleanup" => records[s].cleanup # 0 /\ op'.call # "Done"
        /\ records'[s].state = "Unloaded" => records'[s].cleanup = 0
        /\ called' \in SUBSET Nat /\ pc' = "Menu"
        /\ \/ op' # NoOperation /\ op'.kind = kind
           \/ op' = NoOperation /\ records'[s].state \in {"Error", "Unloaded"}
    BY BeginStep
  <1>2. records'[s].state # "Loaded" /\ (op' = NoOperation => op'.script # s)
    BY <1>1, OperationShape DEF Touches
  <1>3. pending.initialized => pending.load = pending.desired
    BY <1>1 DEF ConfigurationInv
  <1>4. ConfigurationInv'
    BY <1>1, <1>2, <1>3, TouchConfiguration
  <1>5. OperationInv' /\ TypeOK'
    BY <1>1, OperationStep DEF TypeOK, Touches
  <1>6. CleanupInv'
    <2>1. /\ \A t \in Scripts : records'[t].cleanup = records[t].cleanup
          /\ \A t \in Scripts : records'[t].state = "Unloaded" => records[t].cleanup = 0
      BY <1>1 DEF Touches, CleanupInv
    <2>2. op'.phase = "Cleanup" => op'.script = s
      BY <1>1, OperationShape DEF Touches
    <2> QED
      BY <1>1, <1>5, <2>1, <2>2, CleanupKept DEF TypeOK
  <1> QED
    BY <1>4, <1>5, <1>6

LEMMA AutoReloadStep ==
  ASSUME IInv, AutoReload
  PROVE  IInv'
  <1> USE DEF IInv
  <1>1. pc = "Auto" /\ UNCHANGED <<pending, world, stored, undone, latest, abandoned, meddled, counts>>
    BY DEF AutoReload
  <1>2. CASE pc' = "Menu" /\ UNCHANGED <<records, op, refresh, owner, controls, called>>
    <2>1. Quiet
      BY <1>1, <1>2 DEF Quiet, TypeOK, OperationInv
    <2>2. TypeOK'
      BY <1>1, <1>2 DEF TypeOK, world
    <2> QED
      BY <1>1, <2>1, <2>2, QuietStep, QuietConfiguration
  <1>3. ASSUME NEW s \in Scripts, Changed(s), Begin("Reload", s, records[s], "Menu", "Menu")
        PROVE  IInv'
    <2>1. LikeRecordOf(s, records[s])
      BY <1>3 DEF Changed, LikeRecordOf, OperationInv, TypeOK
    <2>2. pending.initialized => s \in pending.desired \cup pending.unload \cup meddled
      BY <1>3 DEF Changed, ConfigurationInv
    <2>3. meddled \in SUBSET Scripts /\ counts' \in [requests : Nat, edits : Nat, outages : Nat]
      BY <1>1 DEF TypeOK
    <2> QED
      BY <1>1, <1>3, <2>1, <2>2, <2>3, LateBegin DEF world
  <1> QED
    BY <1>2, <1>3 DEF AutoReload

\* LoadLuaScript, ReloadLuaScript and UnloadLuaScript.
LEMMA RequestStep ==
  ASSUME IInv, NEW s \in Scripts, NEW kind \in {"Load", "Reload", "Unload"}, Request(kind, s)
  PROVE  IInv'
  <1> USE DEF IInv
  <1>1. /\ pc = "Menu" /\ UNCHANGED <<pending, world, stored, undone, latest, abandoned>>
        /\ counts' = [counts EXCEPT !.requests = @ + 1]
    BY DEF Request
  <1>2. counts' \in [requests : Nat, edits : Nat, outages : Nat]
    BY <1>1 DEF TypeOK
  <1>3. LikeRecordOf(s, Ensured(s))
    BY EnsuredRecord
  <1>4. CASE /\ Become(s, Ensured(s), "Error")
             /\ UNCHANGED <<op, owner, refresh, pc, controls, called, meddled>>
    <2>1. /\ records' \in [Scripts -> Records] /\ records'[s].known
          /\ records'[s].state = "Error"
          /\ \A t \in Scripts \ {s} : records'[t] = records[t]
          /\ \A t \in Scripts : records'[t].cleanup = records[t].cleanup
      BY <1>3, <1>4, Becoming DEF LikeRecordOf, TypeOK, States
    <2>2. TypeOK'
      BY <1>1, <1>2, <1>4, <2>1 DEF TypeOK, world
    <2>3. OperationInv'
      <3>1. op.kind # "None" => op.script \in Scripts
        BY OperationShape DEF TypeOK
      <3>2. OperationKeepsItsRecord'
        BY <1>4, <2>1, <3>1 DEF OperationInv, OperationKeepsItsRecord
      <3> QED
        BY <1>1, <1>4, <2>1, <3>2
        DEF OperationInv, BusyScriptsAreOperatedOn, UnloadedScriptsOwnNoControls
    <2>4. CleanupInv'
      BY <1>1, <1>4, <2>1, <2>2, CleanupKept DEF TypeOK, CleanupInv
    <2>5. ConfigurationInv'
      BY <1>1, <1>4, <2>1 DEF ConfigurationInv
    <2> QED
      BY <2>2, <2>3, <2>4, <2>5
  <1>5. CASE /\ records' = [records EXCEPT ![s] = Ensured(s)]
             /\ UNCHANGED <<op, owner, refresh, pc, controls, called, meddled>>
    <2>1. /\ records' \in [Scripts -> Records]
          /\ \A t \in Scripts :
               /\ records'[t].state = records[t].state
               /\ records'[t].cleanup = records[t].cleanup
               /\ ~records'[t].known => ~records[t].known
      BY <1>3, <1>5 DEF LikeRecordOf, TypeOK
    <2>2. Quiet
      BY <1>1, <1>5, <2>1 DEF Quiet, TypeOK, OperationInv
    <2>3. TypeOK'
      BY <1>1, <1>2, <1>5, <2>1 DEF TypeOK, world
    <2> QED
      BY <1>1, <1>5, <2>2, <2>3, QuietStep, QuietConfiguration
  <1>6. CASE /\ Begin(kind, s, Ensured(s), "Menu", "Menu")
             /\ meddled' = IF kind = "Unload" THEN meddled ELSE meddled \cup {s}
    BY <1>1, <1>2, <1>3, <1>6, LateBegin DEF TypeOK, world
  <1> QED
    BY <1>4, <1>5, <1>6 DEF Request

LEMMA Inductive == IInv /\ [Next]_vars => IInv'
  <1> SUFFICES ASSUME IInv, [Next]_vars PROVE IInv'
    OBVIOUS
  <1> QED
    BY QuietSteps, PollSteps, ConfigurationSteps, PendingUnloadStep, PendingLoadStep,
       AutoReloadStep, RequestStep
    DEF Next, Update

LEMMA Invariance == Spec => []IInv
  BY ZenonT(60), Initially, Inductive, PTL DEF Spec

-----------------------------------------------------------------------------
(* The theorems.                                                           *)

\* Every reachable state of the bridge has the types of its records, of its operation
\* and of its pending configuration.
THEOREM TypeCorrect == Spec => []TypeOK
  <1>1. IInv => TypeOK
    BY DEF IInv
  <1> QED
    BY ZenonT(60), <1>1, Invariance, PTL

\* A script that is shown as loading or unloading is the one the shared operation is
\* about (SetError, FinishOperation): no failure leaves its button disabled.
THEOREM BusyScriptsRecover == Spec => []BusyScriptsAreOperatedOn
  <1>1. IInv => BusyScriptsAreOperatedOn
    BY DEF IInv, OperationInv
  <1> QED
    BY ZenonT(60), <1>1, Invariance, PTL

\* ScanDirectory never removes the record an operation is about, whatever happens to
\* the file meanwhile.
THEOREM OperationHasRecord == Spec => []OperationKeepsItsRecord
  <1>1. IInv => OperationKeepsItsRecord
    BY DEF IInv, OperationInv
  <1> QED
    BY <1>1, Invariance, PTL

\* A stopped script owns no control of the menu, although calls that were given up
\* and callbacks may register controls at any time.
THEOREM StoppedScriptsOwnNothing == Spec => []UnloadedScriptsOwnNoControls
  <1>1. IInv => UnloadedScriptsOwnNoControls
    BY DEF IInv, OperationInv
  <1> QED
    BY <1>1, Invariance, PTL

\* A script that is shown as stopped, or has no record (PollOperation, BeginOperation,
\* ScanDirectory), has had the cleanup function of its last chunk run to its end.
THEOREM StoppedScriptsUndone == Spec => []StoppedScriptsAreUndone
  <1>1. IInv => StoppedScriptsAreUndone
    BY DEF IInv, CleanupInv, StoppedScriptsAreUndone
  <1> QED
    BY <1>1, Invariance, PTL

\* When ProcessPendingConfiguration is done, what the configuration names is loaded or
\* shows an error, and nothing else is loaded that the user did not load meanwhile:
\* an operation is under way from the first to the last script, so no request of the
\* user, no reload and no scan gets between them.
THEOREM ConfigurationTakesEffect == Spec => ConfigurationIsApplied
  <1> DEFINE Done == pending.active /\ ~pending'.active
             Applied == \A s \in Scripts :
               /\ s \in pending.desired => records'[s].state \in {"Loaded", "Error"}
               /\ records'[s].state = "Loaded" => s \in pending.desired \cup meddled'
  <1>1. ASSUME IInv, [Next]_vars, Done PROVE Applied
    <2>1. CASE PendingIdle
      <3>1. /\ pending.initialized /\ pending.unload = {} /\ pending.load = {}
            /\ op = NoOperation /\ UNCHANGED <<records, meddled>>
        BY <1>1, <2>1 DEF PendingIdle, IInv, OperationInv, history
      <3> QED
        BY <1>1, <3>1, OperationShape DEF IInv, ConfigurationInv
    <2>2. CASE \E desired \in SUBSET Scripts : Apply(desired)
      BY <1>1, <2>2 DEF Apply, NotApplying
    <2>3. CASE PendingInitialize
      BY <1>1, <2>3 DEF PendingInitialize, IInv, TypeOK
    <2>4. CASE \E s \in Scripts : PendingUnload(s) \/ \E auto \in BOOLEAN : PendingLoad(s, auto)
      BY <1>1, <2>4 DEF PendingUnload, PendingLoad, IInv, TypeOK
    <2>5. CASE UNCHANGED pending
      BY <1>1, <2>5
    <2> QED
      BY <1>1, <2>1, <2>2, <2>3, <2>4, <2>5
      DEF Next, Update, Run, RunAbandoned, Elapse, Register, Edit, ChangeRuntime, Scan, PollNothing,
          PollFailed, PollCleanup, PollCompile, PollExecute, AutoReload, Request,
          SetAutoReload, RefreshDirectory, NextFrame, frame, vars
  <1>2. IInv /\ [Next]_vars => [Done => Applied]_vars
    BY <1>1
  <1>3. [][Done => Applied]_vars => ConfigurationIsApplied
    BY ZenonT(60), PTL DEF ConfigurationIsApplied
  <1> QED
    BY ZenonT(60), <1>2, <1>3, Invariance, PTL DEF Spec

-----------------------------------------------------------------------------
(* FarmingMode.  What has to be ruled out is that a flag the trainer wrote is taken for the
   game's.  Three facts do it: a flag is written only while its original is remembered; a
   table whose flag was changed, or may yet be by a write that was given up, is never looked
   up again once another one is known; and an answered read is what the table holds until
   the bridge has looked at it. *)

\* Only tables of environments that were loaded are known, and the one that is being
\* looked up is not older than the known one.
TablesInv ==
  /\ menu \in loaded \cup {NoMenu}
  /\ phase = "LookupMenu" =>
       /\ call.table \in Menus
       /\ menu = current => call.table = current
       /\ call.item = "done" => call.found \in {NoMenu} \cup ({call.table} \cap loaded)

\* A table that was written to, or may be, is the known one or one of the past.
Touched(m) == cheat[m] # Own[m] \/ \E write \in late : write.table = m

TouchedInv ==
  \A m \in Menus : Touched(m) =>
    /\ m \in loaded
    /\ m = menu \/ (m # current /\ ~(phase = "LookupMenu" /\ call.table = m))

\* What is written is the forced flag or the original, and only while that is remembered;
\* what is not remembered is in force.
FlagInv ==
  /\ phase \in {"WriteCheat", "VerifyCheat"} => captured /\ (target \/ target = original)
  /\ captured => menu \in Menus
  /\ ~captured /\ menu \in Menus => cheat[menu] = Own[menu] \/ strayed
  /\ phase \in {"ReadCheat", "VerifyCheat"} /\ call.item = "done" =>
       call.observed = cheat[menu] \/ strayed

\* A feature that is reported to be off is at rest, and has given the original up.
OffInv ==
  /\ applied => menu \in Menus
  /\ applied /\ ~requested => phase = "Idle" /\ ~captured

CallRecords ==
  [item : {"none", "done"} \cup Outstanding, table : Menus \cup {NoMenu},
   found : Menus \cup {NoMenu}, observed : BOOLEAN]

\* TypeOK, the Boolean variables one by one.
Typed ==
  /\ requested \in BOOLEAN /\ applied \in BOOLEAN /\ original \in BOOLEAN
  /\ captured \in BOOLEAN /\ target \in BOOLEAN /\ strayed \in BOOLEAN
  /\ menu \in Menus \cup {NoMenu}
  /\ phase \in Phases
  /\ call \in CallRecords
  /\ call.item = "none" <=> phase = "Idle"
  /\ phase \in {"ReadCheat", "WriteCheat", "VerifyCheat"} =>
       call.table = menu /\ menu \in Menus
  /\ cheat \in [Menus -> BOOLEAN]
  /\ current \in Menus
  /\ loaded \in SUBSET Menus
  /\ late \in SUBSET [id : Nat, table : Menus, value : BOOLEAN]
  /\ tally \in [toggles : Nat, failures : Nat]

FarmingInv ==
  /\ Typed
  /\ TablesInv
  /\ TouchedInv
  /\ FlagInv
  /\ OffInv
  /\ OriginalIsTheGames

-----------------------------------------------------------------------------
\* A flag is TRUE or FALSE as the game sets it.
LEMMA OwnType == Own \in [Menus -> BOOLEAN]
  BY DEF Own

\* Nothing is known or changed at the start.
LEMMA FarmingInitially == FarmingInit => FarmingInv
  <1> SUFFICES ASSUME FarmingInit PROVE FarmingInv
    OBVIOUS
  <1> USE MenuAssumption, OwnType DEF FarmingInit
  <1>1. Typed
    <2>1. call \in [item : {"none", "done"} \cup Outstanding, table : Menus \cup {NoMenu},
                   found : Menus \cup {NoMenu}, observed : BOOLEAN]
      BY DEF NoCall
    <2>2. call.item = "none"
      BY DEF NoCall
    <2> QED
      BY <2>1, <2>2 DEF Typed, Phases, CallRecords
  <1>2. TablesInv
    BY DEF TablesInv
  <1>3. TouchedInv
    BY DEF TouchedInv, Touched
  <1>4. FlagInv
    BY DEF FlagInv
  <1>5. OffInv
    BY DEF OffInv
  <1>6. OriginalIsTheGames
    BY DEF OriginalIsTheGames
  <1> QED
    BY <1>1, <1>2, <1>3, <1>4, <1>5, <1>6 DEF FarmingInv

\* The types of what the helpers of the actions leave behind.
LEMMA CountTyped ==
  ASSUME tally \in [toggles : Nat, failures : Nat],
         NEW kind \in {"toggles", "failures"}, Count(kind)
  PROVE  tally' \in [toggles : Nat, failures : Nat]
  BY DEF Count

LEMMA FinishTyped ==
  ASSUME EndOperation
  PROVE  phase' = "Idle" /\ call' \in CallRecords /\ call'.item = "none"
  BY DEF EndOperation, NoCall, CallRecords

LEMMA QueueTyped ==
  ASSUME Typed, NEW next, NEW table \in Menus, Queue(next, table)
  PROVE  /\ applied' \in BOOLEAN
         /\ tally' \in [toggles : Nat, failures : Nat]
         /\ call' \in CallRecords
         /\ \/ phase' = next /\ call'.item = "queued" /\ call'.table = table
            \/ phase' = "Idle" /\ call'.item = "none"
  BY CountTyped, FinishTyped DEF Typed, Queue, NoCall, CallRecords, Outstanding

\* Every step keeps the types, ...
LEMMA TypesPreserved ==
  Typed /\ [FarmingNext]_farmingVars => Typed'
  <1> SUFFICES ASSUME Typed, [FarmingNext]_farmingVars PROVE Typed'
    OBVIOUS
  <1> USE MenuAssumption DEF Phases, Typed, CallRecords, bridge, game, flagHistory
  <1>1. CASE LoadScripts
    BY <1>1 DEF LoadScripts
  <1>2. CASE ReplaceEnvironment
    BY <1>2 DEF ReplaceEnvironment
  <1>3. CASE RunCall
    BY ZenonT(60), <1>3 DEF RunCall, Outstanding
  <1>4. CASE Overrun
    BY <1>4 DEF Overrun, Count, Outstanding
  <1>5. ASSUME NEW write \in late, RunLate(write) PROVE Typed'
    BY <1>5 DEF RunLate
  <1>6. ASSUME NEW enabled \in BOOLEAN, SetEnabled(enabled) PROVE Typed'
    <2>1. tally' \in [toggles : Nat, failures : Nat]
      BY <1>6, CountTyped DEF SetEnabled
    <2> QED
      BY ZenonT(60), <1>6, <2>1 DEF SetEnabled
  <1>7. CASE BeginLookup
    BY <1>7, QueueTyped DEF BeginLookup
  <1>8. CASE PollTimedOut
    <2>1. phase' = "Idle" /\ call' \in CallRecords /\ call'.item = "none"
      BY <1>8, FinishTyped DEF PollTimedOut, GiveUp
    <2>2. late' \in SUBSET [id : Nat, table : Menus, value : BOOLEAN]
      BY <1>8 DEF PollTimedOut, GiveUp
    <2> QED
      BY <1>8, <2>1, <2>2 DEF PollTimedOut, GiveUp
  <1>9. CASE CallFailed
    <2>1. tally' \in [toggles : Nat, failures : Nat] /\ phase' = "Idle"
          /\ call' \in CallRecords /\ call'.item = "none"
      BY <1>9, FinishTyped, CountTyped DEF CallFailed, GiveUp
    <2>2. late' \in SUBSET [id : Nat, table : Menus, value : BOOLEAN]
      BY <1>9, <2>1 DEF CallFailed, GiveUp
    <2> QED
      BY <1>9, <2>1, <2>2 DEF CallFailed, GiveUp
  <1>10. CASE Unready
    BY ZenonT(60), <1>10, CountTyped DEF Unready
  <1>11. CASE PollLookup
    <2>1. CASE call.found = NoMenu
      BY <1>11, <2>1, FinishTyped DEF PollLookup
    <2>2. CASE call.found # NoMenu
      <3>1. call.found \in Menus /\ original' \in BOOLEAN /\ captured' \in BOOLEAN
        BY <1>11, <2>2 DEF PollLookup
      <3> QED
        BY <1>11, <2>2, <3>1, QueueTyped DEF PollLookup
    <2> QED
      BY <2>1, <2>2
  <1>12. CASE PollRead
    BY <1>12, FinishTyped, QueueTyped DEF PollRead, Capture, Wanted, Conclude
  <1>13. CASE PollWrite
    BY <1>13, QueueTyped DEF PollWrite
  <1>14. CASE PollVerify
    BY <1>14, FinishTyped DEF PollVerify, Conclude
  <1>15. CASE UNCHANGED farmingVars
    BY <1>15 DEF farmingVars
  <1> QED
    BY <1>1, <1>2, <1>3, <1>4, <1>5, <1>6, <1>7, <1>8, <1>9, <1>10, <1>11, <1>12, <1>13,
       <1>14, <1>15
    DEF FarmingNext, UpdateFarmingMode

\* ... the order in which tables are known, ...
LEMMA TablesPreserved ==
  FarmingInv /\ [FarmingNext]_farmingVars => TablesInv'
  <1> SUFFICES ASSUME FarmingInv, [FarmingNext]_farmingVars PROVE TablesInv'
    OBVIOUS
  <1> USE MenuAssumption DEF FarmingInv, Typed, CallRecords, TablesInv, bridge, game, flagHistory
  <1>1. CASE LoadScripts
    BY <1>1 DEF LoadScripts
  <1>2. CASE ReplaceEnvironment
    BY <1>2 DEF ReplaceEnvironment
  <1>3. CASE RunCall
    BY <1>3 DEF RunCall, Outstanding
  <1>4. CASE Overrun
    BY <1>4 DEF Overrun, Count, Outstanding
  <1>5. ASSUME NEW write \in late, RunLate(write) PROVE TablesInv'
    BY <1>5 DEF RunLate
  <1>6. ASSUME NEW enabled \in BOOLEAN, SetEnabled(enabled) PROVE TablesInv'
    BY <1>6 DEF SetEnabled, Count
  <1>7. CASE BeginLookup
    BY <1>7 DEF BeginLookup, Queue, EndOperation, Count, NoCall
  <1>8. CASE PollTimedOut
    BY <1>8 DEF PollTimedOut, GiveUp, EndOperation, NoCall
  <1>9. CASE CallFailed
    BY <1>9 DEF CallFailed, GiveUp, EndOperation, Count, NoCall
  <1>10. CASE Unready
    BY <1>10 DEF Unready, Count
  <1>11. CASE PollLookup
    BY <1>11 DEF PollLookup, Queue, EndOperation, Count, NoCall
  <1>12. CASE PollRead
    BY <1>12 DEF PollRead, Capture, Wanted, Conclude, Queue, EndOperation, Count, NoCall
  <1>13. CASE PollWrite
    BY <1>13 DEF PollWrite, Queue, EndOperation, Count, NoCall
  <1>14. CASE PollVerify
    BY <1>14 DEF PollVerify, Conclude, EndOperation, NoCall
  <1>15. CASE UNCHANGED farmingVars
    BY <1>15 DEF farmingVars
  <1> QED
    BY <1>1, <1>2, <1>3, <1>4, <1>5, <1>6, <1>7, <1>8, <1>9, <1>10, <1>11, <1>12, <1>13,
       <1>14, <1>15
    DEF FarmingNext, UpdateFarmingMode

\* ... the tables that were not yet known as the game set them, ...
LEMMA TouchedPreserved ==
  FarmingInv /\ [FarmingNext]_farmingVars => TouchedInv'
  <1> SUFFICES ASSUME FarmingInv, [FarmingNext]_farmingVars PROVE TouchedInv'
    OBVIOUS
  <1> USE MenuAssumption, OwnType
      DEF FarmingInv, Typed, CallRecords, TouchedInv, Touched, TablesInv, bridge, game, flagHistory
  <1>1. CASE LoadScripts
    BY <1>1 DEF LoadScripts
  <1>2. CASE ReplaceEnvironment
    BY <1>2 DEF ReplaceEnvironment
  <1>3. CASE RunCall
    BY <1>3 DEF RunCall, Outstanding
  <1>4. CASE Overrun
    BY <1>4 DEF Overrun, Count, Outstanding
  <1>5. ASSUME NEW write \in late, RunLate(write) PROVE TouchedInv'
    BY <1>5 DEF RunLate
  <1>6. ASSUME NEW enabled \in BOOLEAN, SetEnabled(enabled) PROVE TouchedInv'
    BY <1>6 DEF SetEnabled, Count
  <1>7. CASE BeginLookup
    BY <1>7 DEF BeginLookup, Queue, EndOperation, Count, NoCall
  <1>8. CASE PollTimedOut
    BY <1>8 DEF PollTimedOut, GiveUp, EndOperation, NoCall
  <1>9. CASE CallFailed
    BY <1>9 DEF CallFailed, GiveUp, EndOperation, Count, NoCall
  <1>10. CASE Unready
    BY <1>10 DEF Unready, Count
  <1>11. CASE PollLookup
    BY <1>11 DEF PollLookup, Queue, EndOperation, Count, NoCall
  <1>12. CASE PollRead
    BY <1>12 DEF PollRead, Capture, Wanted, Conclude, Queue, EndOperation, Count, NoCall
  <1>13. CASE PollWrite
    BY <1>13 DEF PollWrite, Queue, EndOperation, Count, NoCall
  <1>14. CASE PollVerify
    BY <1>14 DEF PollVerify, Conclude, EndOperation, NoCall
  <1>15. CASE UNCHANGED farmingVars
    BY <1>15 DEF farmingVars
  <1> QED
    BY <1>1, <1>2, <1>3, <1>4, <1>5, <1>6, <1>7, <1>8, <1>9, <1>10, <1>11, <1>12, <1>13,
       <1>14, <1>15
    DEF FarmingNext, UpdateFarmingMode

\* ... the flag of the known table in force or remembered, ...
LEMMA FlagPreserved ==
  FarmingInv /\ [FarmingNext]_farmingVars => FlagInv'
  <1> SUFFICES ASSUME FarmingInv, [FarmingNext]_farmingVars PROVE FlagInv'
    OBVIOUS
  <1> USE MenuAssumption, OwnType
      DEF FarmingInv, Typed, CallRecords, FlagInv, TablesInv, TouchedInv, Touched,
          OriginalIsTheGames, OffInv, bridge, game, flagHistory
  <1>1. CASE LoadScripts
    BY <1>1 DEF LoadScripts
  <1>2. CASE ReplaceEnvironment
    BY <1>2 DEF ReplaceEnvironment
  <1>3. CASE RunCall
    BY <1>3 DEF RunCall, Outstanding
  <1>4. CASE Overrun
    BY <1>4 DEF Overrun, Count, Outstanding
  <1>5. ASSUME NEW write \in late, RunLate(write) PROVE FlagInv'
    BY <1>5 DEF RunLate
  <1>6. ASSUME NEW enabled \in BOOLEAN, SetEnabled(enabled) PROVE FlagInv'
    BY <1>6 DEF SetEnabled, Count
  <1>7. CASE BeginLookup
    BY <1>7 DEF BeginLookup, Queue, EndOperation, Count, NoCall
  <1>8. CASE PollTimedOut
    BY <1>8 DEF PollTimedOut, GiveUp, EndOperation, NoCall
  <1>9. CASE CallFailed
    BY <1>9 DEF CallFailed, GiveUp, EndOperation, Count, NoCall
  <1>10. CASE Unready
    BY <1>10 DEF Unready, Count
  <1>11. CASE PollLookup
    BY <1>11 DEF PollLookup, Queue, EndOperation, Count, NoCall
  <1>12. CASE PollRead
    BY <1>12 DEF PollRead, Capture, Wanted, Conclude, Queue, EndOperation, Count, NoCall
  <1>13. CASE PollWrite
    BY <1>13 DEF PollWrite, Queue, EndOperation, Count, NoCall
  <1>14. CASE PollVerify
    BY <1>14 DEF PollVerify, Conclude, EndOperation, NoCall
  <1>15. CASE UNCHANGED farmingVars
    BY <1>15 DEF farmingVars
  <1> QED
    BY <1>1, <1>2, <1>3, <1>4, <1>5, <1>6, <1>7, <1>8, <1>9, <1>10, <1>11, <1>12, <1>13,
       <1>14, <1>15
    DEF FarmingNext, UpdateFarmingMode

\* ... what the status says of a feature that is off, ...
LEMMA OffPreserved ==
  FarmingInv /\ [FarmingNext]_farmingVars => OffInv'
  <1> SUFFICES ASSUME FarmingInv, [FarmingNext]_farmingVars PROVE OffInv'
    OBVIOUS
  <1> USE MenuAssumption DEF FarmingInv, Typed, CallRecords, OffInv, FlagInv, bridge, game, flagHistory
  <1>1. CASE LoadScripts
    BY <1>1 DEF LoadScripts
  <1>2. CASE ReplaceEnvironment
    BY <1>2 DEF ReplaceEnvironment
  <1>3. CASE RunCall
    BY <1>3 DEF RunCall, Outstanding
  <1>4. CASE Overrun
    BY <1>4 DEF Overrun, Count, Outstanding
  <1>5. ASSUME NEW write \in late, RunLate(write) PROVE OffInv'
    BY <1>5 DEF RunLate
  <1>6. ASSUME NEW enabled \in BOOLEAN, SetEnabled(enabled) PROVE OffInv'
    BY <1>6 DEF SetEnabled, Count
  <1>7. CASE BeginLookup
    BY <1>7 DEF BeginLookup, Queue, EndOperation, Count, NoCall
  <1>8. CASE PollTimedOut
    BY <1>8 DEF PollTimedOut, GiveUp, EndOperation, NoCall
  <1>9. CASE CallFailed
    BY <1>9 DEF CallFailed, GiveUp, EndOperation, Count, NoCall
  <1>10. CASE Unready
    BY <1>10 DEF Unready, Count
  <1>11. CASE PollLookup
    BY <1>11 DEF PollLookup, Queue, EndOperation, Count, NoCall
  <1>12. CASE PollRead
    BY <1>12 DEF PollRead, Capture, Wanted, Conclude, Queue, EndOperation, Count, NoCall
  <1>13. CASE PollWrite
    BY <1>13 DEF PollWrite, Queue, EndOperation, Count, NoCall
  <1>14. CASE PollVerify
    BY <1>14 DEF PollVerify, Conclude, EndOperation, NoCall
  <1>15. CASE UNCHANGED farmingVars
    BY <1>15 DEF farmingVars
  <1> QED
    BY <1>1, <1>2, <1>3, <1>4, <1>5, <1>6, <1>7, <1>8, <1>9, <1>10, <1>11, <1>12, <1>13,
       <1>14, <1>15
    DEF FarmingNext, UpdateFarmingMode

\* ... and the original.
LEMMA OriginalPreserved ==
  FarmingInv /\ [FarmingNext]_farmingVars => OriginalIsTheGames'
  <1> SUFFICES ASSUME FarmingInv, [FarmingNext]_farmingVars PROVE OriginalIsTheGames'
    OBVIOUS
  <1> USE MenuAssumption, OwnType
      DEF FarmingInv, Typed, CallRecords, OriginalIsTheGames, FlagInv, bridge, game, flagHistory
  <1>1. CASE LoadScripts
    BY <1>1 DEF LoadScripts
  <1>2. CASE ReplaceEnvironment
    BY <1>2 DEF ReplaceEnvironment
  <1>3. CASE RunCall
    BY <1>3 DEF RunCall, Outstanding
  <1>4. CASE Overrun
    BY <1>4 DEF Overrun, Count, Outstanding
  <1>5. ASSUME NEW write \in late, RunLate(write) PROVE OriginalIsTheGames'
    BY <1>5 DEF RunLate
  <1>6. ASSUME NEW enabled \in BOOLEAN, SetEnabled(enabled) PROVE OriginalIsTheGames'
    BY <1>6 DEF SetEnabled, Count
  <1>7. CASE BeginLookup
    BY <1>7 DEF BeginLookup, Queue, EndOperation, Count, NoCall
  <1>8. CASE PollTimedOut
    BY <1>8 DEF PollTimedOut, GiveUp, EndOperation, NoCall
  <1>9. CASE CallFailed
    BY <1>9 DEF CallFailed, GiveUp, EndOperation, Count, NoCall
  <1>10. CASE Unready
    BY <1>10 DEF Unready, Count
  <1>11. CASE PollLookup
    <2>1. captured' => captured /\ menu' = menu /\ original' = original /\ strayed' = strayed
      BY <1>11 DEF PollLookup, Queue, EndOperation, Count, NoCall
    <2> QED
      BY <2>1
  <1>12. CASE PollRead
    BY <1>12 DEF PollRead, Capture, Wanted, Conclude, Queue, EndOperation, Count, NoCall
  <1>13. CASE PollWrite
    BY <1>13 DEF PollWrite, Queue, EndOperation, Count, NoCall
  <1>14. CASE PollVerify
    BY <1>14 DEF PollVerify, Conclude, EndOperation, NoCall
  <1>15. CASE UNCHANGED farmingVars
    BY <1>15 DEF farmingVars
  <1> QED
    BY <1>1, <1>2, <1>3, <1>4, <1>5, <1>6, <1>7, <1>8, <1>9, <1>10, <1>11, <1>12, <1>13,
       <1>14, <1>15
    DEF FarmingNext, UpdateFarmingMode

\* The state of farming_mode_bridge.cpp has its types in every reachable state.
THEOREM FarmingTypeCorrect == FarmingSpec => []FarmingTypeOK
  <1>1. FarmingInit => Typed
    BY FarmingInitially DEF FarmingInv
  <1>2. Typed => FarmingTypeOK
    BY DEF Typed, FarmingTypeOK, CallRecords
  <1> QED
    BY ZenonT(60), <1>1, <1>2, TypesPreserved, PTL DEF FarmingSpec

\* The parts together are inductive.
LEMMA FarmingInvariance == FarmingSpec => []FarmingInv
  <1>1. FarmingInv /\ [FarmingNext]_farmingVars => FarmingInv'
    BY TypesPreserved, TablesPreserved, TouchedPreserved, FlagPreserved, OffPreserved,
       OriginalPreserved
    DEF FarmingInv
  <1> QED
    BY ZenonT(60), <1>1, FarmingInitially, PTL DEF FarmingSpec

\* What the bridge remembers of the flag is what the game had set, through any number of
\* switches, worlds and failures (captured and original, farming_mode_bridge.cpp).
THEOREM OriginalRemembered == FarmingSpec => []OriginalIsTheGames
  <1>1. FarmingInv => OriginalIsTheGames
    BY DEF FarmingInv
  <1> QED
    BY <1>1, FarmingInvariance, PTL

\* When the status says that the feature is off, the flag of the known environment is as the
\* game had it.
THEOREM OffRestores == FarmingSpec => []OffMeansOff
  <1>1. FarmingInv => OffMeansOff
    BY DEF FarmingInv, OffInv, FlagInv, OffMeansOff
  <1> QED
    BY <1>1, FarmingInvariance, PTL
=============================================================================
