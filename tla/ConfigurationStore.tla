------------------------ MODULE ConfigurationStore ------------------------
(***************************************************************************)
(* trainer/src/settings/configuration_store.cpp and ui_preferences.cpp:    *)
(* named configuration files, their upgrade from older formats, and the    *)
(* preferences file that designates the one to load at the next start.     *)
(*                                                                         *)
(* All operations of one game process run on its render thread; several    *)
(* game processes share the files.  An operation on a configuration file   *)
(* is a sequence of steps, so that a crash or another process may come     *)
(* between any two; any step may fail.  The preferences file is written    *)
(* under a name of the process and then moved into place, and nobody reads *)
(* it but a starting process, so saving it is one step.                    *)
(***************************************************************************)
EXTENDS Naturals, TLAPS

CONSTANTS
  Processes,      \* game processes with the trainer loaded
  Directories,    \* configuration directories a user may choose
  HomeDirectory,  \* the one used when the preferences name none
  Files,          \* configuration files: each is the set of the names that open it
  Values,         \* settings a configuration can hold
  Factory,        \* the settings of a trainer that has loaded nothing
  OldFormats,     \* versions below kVersion, and kVersion without visibility options
  MaxDeliveries,  \* bound: files the user copies into a directory by hand
  MaxCrashes      \* bound: games that die in the middle of an operation

NoName == ""

\* Configuration names as they are typed, and the file that each opens: two spellings
\* of a name open one file where the file system does not tell them apart.
Names == UNION Files
FileOf == [n \in Names |-> CHOOSE f \in Files : n \in f]

ASSUME HomeAssumption == HomeDirectory \in Directories
ASSUME FactoryAssumption == Factory \in Values
ASSUME FilesAssumption == \A f, g \in Files : f # g => f \cap g = {}
ASSUME NamesAssumption == NoName \notin Names
ASSUME FormatsAssumption ==
  OldFormats \cap {"absent", "torn", "damaged", "current"} = {}

\* A file: "damaged" stands for everything the reader refuses (a truncated file,
\* another magic, a future version), "torn" for a file the trainer wrote half of.
Formats == {"absent", "torn", "damaged", "current"} \cup OldFormats
Contents == [format : Formats, value : Values]
Absent == [format |-> "absent", value |-> Factory]
Torn == [format |-> "torn", value |-> Factory]
Damaged == [format |-> "damaged", value |-> Factory]
Current(v) == [format |-> "current", value |-> v]
UserContents ==
  {Absent, Damaged} \cup [format : OldFormats \cup {"current"}, value : Values]

Paths == Directories \X Files

VARIABLES
  disk,        \* disk[path]: the configuration files
  backup,      \* backup[path][format]: the .v<format>.bak files beside them
  prefs,       \* preferences.ini: the directory and the designated configuration
  pc,          \* pc[p]: what process p does next; "off" when it does not run
  task,        \* task[p]: the operation under way, or the last one
  outcome,     \* outcome[p]: what it returned
  settings,    \* settings[p]: the trainer's settings in memory
  directory,   \* directory[p]: g_configuration_directory
  designated,  \* designated[p]: g_default_configuration
  attempted,   \* attempted[p]: LoadDefaultConfigurationOnce has run
  delivered, crashes   \* counters for the bounds

files == <<disk, backup, prefs>>
memory == <<settings, directory, designated, attempted>>
bounds == <<delivered, crashes>>
vars == <<files, pc, task, outcome, memory, bounds>>

Kinds == {"none", "save", "load", "delete"}
\* What a process works on: the name it was given, the format it read, what it
\* will write or apply, its temporary file, and (for the properties) the file and its
\* backups as they were when the operation began.
Tasks == [kind : Kinds, name : Names \cup {NoName}, format : Formats,
          payload : Contents, temporary : Contents, before : Contents,
          former : [OldFormats -> Contents]]
Steps == {"off", "idle", "read", "backup", "copy", "open", "write", "replace",
          "apply", "undesignate"}

TypeOK ==
  /\ disk \in [Paths -> Contents]
  /\ backup \in [Paths -> [OldFormats -> Contents]]
  /\ prefs \in [directory : Directories, designated : Names \cup {NoName}]
  /\ pc \in [Processes -> Steps]
  /\ task \in [Processes -> Tasks]
  /\ outcome \in [Processes -> {"none", "ok", "failed"}]
  /\ settings \in [Processes -> Values]
  /\ directory \in [Processes -> Directories]
  /\ designated \in [Processes -> Names \cup {NoName}]
  /\ attempted \in [Processes -> BOOLEAN]
  /\ delivered \in Nat
  /\ crashes \in Nat

NoBackups == [f \in OldFormats |-> Absent]
NoTask == [kind |-> "none", name |-> NoName, format |-> "absent", payload |-> Absent,
           temporary |-> Absent, before |-> Absent, former |-> NoBackups]

\* Files of any release, and files that are none, may be there before the start.
Init ==
  /\ disk \in [Paths -> UserContents]
  /\ backup = [path \in Paths |-> NoBackups]
  /\ prefs = [directory |-> HomeDirectory, designated |-> NoName]
  /\ pc = [p \in Processes |-> "off"]
  /\ task = [p \in Processes |-> NoTask]
  /\ outcome = [p \in Processes |-> "none"]
  /\ settings = [p \in Processes |-> Factory]
  /\ directory = [p \in Processes |-> HomeDirectory]
  /\ designated = [p \in Processes |-> NoName]
  /\ attempted = [p \in Processes |-> FALSE]
  /\ delivered = 0
  /\ crashes = 0

-----------------------------------------------------------------------------
(* Beginning and ending an operation.                                      *)

Path(p, n) == <<directory[p], FileOf[n]>>

\* The file process p works on; its directory does not change meanwhile.
Target(p) == Path(p, task[p].name)

Mine(p) == [directory |-> directory[p], designated |-> designated[p]]

Enter(p, kind, n, step, payload) ==
  /\ pc' = [pc EXCEPT ![p] = step]
  /\ task' = [task EXCEPT ![p] =
       [NoTask EXCEPT !.kind = kind, !.name = n, !.payload = payload,
                      !.before = disk[Path(p, n)], !.former = backup[Path(p, n)]]]
  /\ outcome' = [outcome EXCEPT ![p] = "none"]

\* The operation returns; the temporary file it may still have is removed.
Return(p, result) ==
  /\ pc' = [pc EXCEPT ![p] = "idle"]
  /\ task' = [task EXCEPT ![p].temporary = Absent]
  /\ outcome' = [outcome EXCEPT ![p] = result]

\* An operation of one step on the preferences returns.
ReturnAtOnce(p, result) ==
  /\ pc' = pc
  /\ task' = [task EXCEPT ![p] = NoTask]
  /\ outcome' = [outcome EXCEPT ![p] = result]

Advance(p, from, to) ==
  /\ pc[p] = from
  /\ pc' = [pc EXCEPT ![p] = to]
  /\ UNCHANGED outcome

-----------------------------------------------------------------------------
(* The operations, from the settings page and the first frame in a world.  *)

SaveConfiguration(p, n) ==
  /\ pc[p] = "idle"
  /\ Enter(p, "save", n, "open", Current(settings[p]))
  /\ UNCHANGED <<files, memory, bounds>>

LoadConfiguration(p, n) ==
  /\ pc[p] = "idle"
  /\ Enter(p, "load", n, "read", Absent)
  /\ UNCHANGED <<files, memory, bounds>>

LoadDefaultConfigurationOnce(p) ==
  /\ pc[p] = "idle"
  /\ ~attempted[p]
  /\ attempted' = [attempted EXCEPT ![p] = TRUE]
  /\ IF designated[p] = NoName
       THEN UNCHANGED <<pc, task, outcome>>
       ELSE Enter(p, "load", designated[p], "read", Absent)
  /\ UNCHANGED <<files, settings, directory, designated, bounds>>

DeleteConfiguration(p, n) ==
  /\ pc[p] = "idle"
  /\ disk[Path(p, n)].format # "absent"
  /\ disk' = [disk EXCEPT ![Path(p, n)] = Absent]
  /\ Enter(p, "delete", n, "undesignate", Absent)
  /\ UNCHANGED <<backup, prefs, memory, bounds>>

\* What is refused at once and leaves everything as it is: an invalid name, a file
\* to delete or to designate that is not there.
Refuse(p) ==
  /\ pc[p] = "idle"
  /\ ReturnAtOnce(p, "failed")
  /\ UNCHANGED <<files, memory, bounds>>

\* SaveUiPreferences succeeds, with this designation and directory.
SavePreferences(p, d, n) ==
  /\ prefs' = [directory |-> d, designated |-> n]
  /\ directory' = [directory EXCEPT ![p] = d]
  /\ designated' = [designated EXCEPT ![p] = n]

\* SaveUiPreferences fails: the file stays, and the caller puts back the values
\* it had set in memory.
KeepPreferences == UNCHANGED <<prefs, directory, designated>>

\* Faulty variant of ChangePreferences: a failed save leaves the new designation
\* in memory.
ChangeWithoutRestoring(p, d, n) ==
  /\ pc[p] = "idle"
  /\ \/ SavePreferences(p, d, n) /\ ReturnAtOnce(p, "ok")
     \/ /\ designated' = [designated EXCEPT ![p] = n]
        /\ UNCHANGED <<prefs, directory>>
        /\ ReturnAtOnce(p, "failed")
  /\ UNCHANGED <<disk, backup, settings, attempted, bounds>>

ChangePreferences(p, d, n) ==
  /\ pc[p] = "idle"
  /\ \/ SavePreferences(p, d, n) /\ ReturnAtOnce(p, "ok")
     \/ KeepPreferences /\ ReturnAtOnce(p, "failed")
  /\ UNCHANGED <<disk, backup, settings, attempted, bounds>>

SetDefaultConfiguration(p, n) ==
  /\ n # NoName => disk[Path(p, n)].format # "absent"
  /\ ChangePreferences(p, directory[p], n)

SetConfigurationDirectory(p, d) == ChangePreferences(p, d, NoName)

\* The user turns a knob.
ChangeSettings(p, v) ==
  /\ pc[p] = "idle"
  /\ settings' = [settings EXCEPT ![p] = v]
  /\ UNCHANGED <<files, pc, task, outcome, directory, designated, attempted, bounds>>

-----------------------------------------------------------------------------
(* The steps of an operation.                                              *)

\* Faulty variant of Read: what cannot be parsed is taken for an old format.
ReadAnything(p) ==
  LET content == disk[Target(p)] IN
  /\ Advance(p, "read", IF content.format = "current" THEN "apply" ELSE "backup")
  /\ task' = [task EXCEPT
       ![p].format = IF content.format \in OldFormats \cup {"current"} THEN content.format
                     ELSE CHOOSE f \in OldFormats : TRUE,
       ![p].payload = Current(content.value)]
  /\ UNCHANGED <<files, memory, bounds>>

\* ReadAndUpgradeConfigurationFile, up to the end of its parsing: a file of an
\* older format is upgraded before it is applied.
Read(p) ==
  LET content == disk[Target(p)] IN
  /\ pc[p] = "read"
  /\ content.format \in OldFormats \cup {"current"}
  /\ Advance(p, "read", IF content.format = "current" THEN "apply" ELSE "backup")
  /\ task' = [task EXCEPT ![p].format = content.format,
                          ![p].payload = Current(content.value)]
  /\ UNCHANGED <<files, memory, bounds>>

\* Faulty variant of BackupExists: nobody looks whether it does.
BackupAssumed(p) ==
  /\ Advance(p, "backup", "open")
  /\ UNCHANGED <<files, task, memory, bounds>>

\* A backup of that format that exists is taken for the one of this file.
BackupExists(p) ==
  /\ Advance(p, "backup", "open")
  /\ backup[Target(p)][task[p].format].format # "absent"
  /\ UNCHANGED <<files, task, memory, bounds>>

\* Faulty variant of BeginBackup: copy_file may overwrite.
OverwriteBackup(p) ==
  /\ Advance(p, "backup", "copy")
  /\ backup' = [backup EXCEPT ![Target(p)][task[p].format] = Torn]
  /\ UNCHANGED <<disk, prefs, task, memory, bounds>>

\* Otherwise copy_file creates it and fills it ...
BeginBackup(p) ==
  /\ Advance(p, "backup", "copy")
  /\ backup[Target(p)][task[p].format].format = "absent"
  /\ backup' = [backup EXCEPT ![Target(p)][task[p].format] = Torn]
  /\ UNCHANGED <<disk, prefs, task, memory, bounds>>

EndBackup(p) ==
  /\ Advance(p, "copy", "open")
  /\ disk[Target(p)].format # "absent"
  /\ backup' = [backup EXCEPT ![Target(p)][task[p].format] = disk[Target(p)]]
  /\ UNCHANGED <<disk, prefs, task, memory, bounds>>

\* ... or takes it back.
BackupFails(p) ==
  /\ pc[p] = "copy"
  /\ Return(p, "failed")
  /\ backup' = [backup EXCEPT ![Target(p)][task[p].format] = Absent]
  /\ UNCHANGED <<disk, prefs, memory, bounds>>

\* Faulty variant of OpenTemporary: the file is moved before it is written.
OpenToReplace(p) ==
  /\ Advance(p, "open", "replace")
  /\ task' = [task EXCEPT ![p].temporary = Torn]
  /\ UNCHANGED <<files, memory, bounds>>

\* WriteConfigurationFile: a temporary file of this process is opened,
OpenTemporary(p) ==
  /\ Advance(p, "open", "write")
  /\ task' = [task EXCEPT ![p].temporary = Torn]
  /\ UNCHANGED <<files, memory, bounds>>

\* Faulty variant of WriteTemporary: the settings in memory are written.
WriteMemory(p) ==
  /\ Advance(p, "write", "replace")
  /\ task' = [task EXCEPT ![p].temporary = Current(settings[p])]
  /\ UNCHANGED <<files, memory, bounds>>

\* written and closed,
WriteTemporary(p) ==
  /\ Advance(p, "write", "replace")
  /\ task' = [task EXCEPT ![p].temporary = task[p].payload]
  /\ UNCHANGED <<files, memory, bounds>>

\* and moved over the configuration file.  A save is done then.
Replace(p) ==
  /\ pc[p] = "replace"
  /\ disk' = [disk EXCEPT ![Target(p)] = task[p].temporary]
  /\ IF task[p].kind = "save"
       THEN Return(p, "ok")
       ELSE Advance(p, "replace", "apply") /\ task' = [task EXCEPT ![p].temporary = Absent]
  /\ UNCHANGED <<backup, prefs, memory, bounds>>

\* A file that cannot be read or parsed, a system call that fails.
Fail(p) ==
  /\ pc[p] \in {"read", "backup", "open", "write", "replace"}
  /\ Return(p, "failed")
  /\ UNCHANGED <<files, memory, bounds>>

\* Faulty variant of Apply: the header is taken for the settings.
ApplyHeader(p) ==
  /\ pc[p] = "apply"
  /\ settings' = [settings EXCEPT ![p] = task[p].payload.format]
  /\ prefs' \in {prefs, Mine(p)}
  /\ Return(p, "ok")
  /\ UNCHANGED <<disk, backup, directory, designated, attempted, bounds>>

\* ApplyConfiguration ends with SaveUiPreferences, whose failure is ignored.
Apply(p) ==
  /\ pc[p] = "apply"
  /\ settings' = [settings EXCEPT ![p] = task[p].payload.value]
  /\ prefs' \in {prefs, Mine(p)}
  /\ Return(p, "ok")
  /\ UNCHANGED <<disk, backup, directory, designated, attempted, bounds>>

\* DeleteConfiguration, after the removal: the designation goes when it is, letter
\* for letter, the name that was given, and the operation fails if it cannot.
Undesignate(p) ==
  /\ pc[p] = "undesignate"
  /\ IF task[p].name = designated[p]
       THEN \/ SavePreferences(p, directory[p], NoName) /\ Return(p, "ok")
            \/ KeepPreferences /\ Return(p, "failed")
       ELSE KeepPreferences /\ Return(p, "ok")
  /\ UNCHANGED <<disk, backup, settings, attempted, bounds>>

-----------------------------------------------------------------------------
(* Processes and the user.                                                 *)

\* InitializeUiPreferences, before the first frame.
Start(p) ==
  /\ Advance(p, "off", "idle")
  /\ directory' = [directory EXCEPT ![p] = prefs.directory]
  /\ designated' = [designated EXCEPT ![p] = prefs.designated]
  /\ settings' = [settings EXCEPT ![p] = Factory]
  /\ attempted' = [attempted EXCEPT ![p] = FALSE]
  /\ UNCHANGED <<files, task, bounds>>

\* The game is closed between two operations, or dies in the middle of one.
Crash(p) ==
  /\ pc[p] # "off"
  /\ \/ pc[p] = "idle" /\ UNCHANGED crashes
     \/ crashes < MaxCrashes /\ crashes' = crashes + 1
  /\ pc' = [pc EXCEPT ![p] = "off"]
  /\ task' = [task EXCEPT ![p] = NoTask]
  /\ outcome' = [outcome EXCEPT ![p] = "none"]
  /\ UNCHANGED <<files, memory, delivered>>

\* The user copies a file into the directory, or removes one; not in the moment an
\* operation takes, which is less than a frame.
Deliver(path, content) ==
  /\ delivered < MaxDeliveries
  /\ \A p \in Processes : pc[p] \in {"off", "idle"}
  /\ delivered' = delivered + 1
  /\ disk' = [disk EXCEPT ![path] = content]
  /\ UNCHANGED <<backup, prefs, pc, task, outcome, memory, crashes>>

\* An operation under way takes its next step.
Step(p) ==
  \/ Read(p) \/ BackupExists(p) \/ BeginBackup(p) \/ EndBackup(p) \/ BackupFails(p)
  \/ OpenTemporary(p) \/ WriteTemporary(p) \/ Replace(p) \/ Fail(p)
  \/ Apply(p) \/ Undesignate(p)

Next ==
  \/ \E p \in Processes :
       \/ \E n \in Names : \/ SaveConfiguration(p, n)
                           \/ LoadConfiguration(p, n)
                           \/ DeleteConfiguration(p, n)
       \/ \E n \in Names \cup {NoName} : SetDefaultConfiguration(p, n)
       \/ \E d \in Directories : SetConfigurationDirectory(p, d)
       \/ \E v \in Values : ChangeSettings(p, v)
       \/ LoadDefaultConfigurationOnce(p) \/ Refuse(p) \/ Step(p) \/ Start(p) \/ Crash(p)
  \/ \E path \in Paths, content \in UserContents : Deliver(path, content)

Spec == Init /\ [][Next]_vars

-----------------------------------------------------------------------------
(* Properties.                                                             *)

\* WriteConfigurationFile publishes only files it has written to the end: no
\* failure, crash or second process leaves half a configuration under its name.
NoTornConfiguration == \A path \in Paths : disk[path].format # "torn"

\* What an operation reports, when it ends, is what it did to the file: after a failed
\* save or load it is as it was when the operation began, after a successful save it
\* holds the settings saved, after a successful load it is of the current format and
\* holds what was loaded, and after a successful delete it is gone and the next start
\* will not look for it under the name that was given.  (One process; a failed delete
\* may have removed it.)
OutcomesAreTrue ==
  [][\A p \in Processes :
       LET file == disk'[Target(p)]
           ok == outcome'[p] = "ok"
           kind == task[p].kind
       IN
       pc[p] \notin {"off", "idle"} /\ pc'[p] = "idle" =>
         /\ ~ok /\ kind # "delete" => file = task[p].before
         /\ ok /\ kind # "delete" => file = task[p].payload
         /\ ok /\ kind = "load" => file.value = task[p].before.value
         /\ ok /\ kind = "delete" =>
              file = Absent /\ prefs'.designated # task[p].name]_vars

\* The directory and the designation a process works with are those the next start
\* will read: a preferences file that could not be saved never leaves them apart,
\* and saving it for another reason never brings back an older value.  (One process.)
MemoryMatchesPreferences ==
  \A p \in Processes : pc[p] # "off" => prefs = Mine(p)

\* What docs/VISIBILITY_DEFAULT_CONFIG.md:22 says of an upgrade: the original is kept as
\* its .v<format>.bak before the file is replaced.
UpgradeKeepsOriginal ==
  [][\A p \in Processes :
       LET old == disk[Target(p)] IN
       Replace(p) /\ task[p].kind = "load" => backup[Target(p)][task[p].format] = old]_vars

\* What the code does for it: when an upgrade replaces a file, its backup is that very
\* file, unless the load met a backup of that format when it began, whole or half made
\* by a process that crashed; then that one is still there as the load met it.  Crashes,
\* failures and files brought in included.  (One process.)
UpgradesAreBackedUp ==
  [][\A p \in Processes :
       LET met == task[p].former[task[p].format]
           kept == backup[Target(p)][task[p].format]
       IN
       Replace(p) /\ task[p].kind = "load" =>
         kept = IF met.format = "absent" THEN disk[Target(p)] ELSE met]_vars

\* A backup that was copied to its end stays as it is for ever: no later upgrade, of no
\* process, makes it anew, whatever fails, crashes or is brought in.
BackupsAreKept ==
  [][\A path \in Paths, f \in OldFormats :
       backup[path][f].format \notin {"absent", "torn"} => backup'[path][f] = backup[path][f]]_vars

\* No operation but a delete of it or a save over it changes a file that cannot be
\* read, whichever processes run; the user may.
DamagedFilesAreKept ==
  [][\A path \in Paths :
       disk[path].format = "damaged" /\ disk'[path] # disk[path] /\ delivered' = delivered =>
         \E p \in Processes :
           task'[p].kind \in {"save", "delete"} /\ Target(p)' = path]_vars

\* What docs/VISIBILITY_DEFAULT_CONFIG.md:10 says of a delete: deleting the default
\* configuration clears the designation.  So a delete that succeeds leaves no
\* designation that opens the file it removed.
DeletedDefaultIsCleared ==
  \A p \in Processes :
    pc[p] = "idle" /\ task[p].kind = "delete" /\ outcome[p] = "ok" =>
      designated[p] = NoName \/ FileOf[designated[p]] # FileOf[task[p].name]

-----------------------------------------------------------------------------
(* Proofs: what holds for any processes, directories, files, names and     *)
(* formats, however often a process crashes and files are brought in; where *)
(* it holds of a single process only the theorem assumes OneProcess.        *)

\* What a process has in its hands at each step of an operation.
Prepared(p) ==
  /\ pc[p] \notin {"off", "idle"} => task[p].name \in Names
  /\ pc[p] \in {"backup", "copy"} => task[p].format \in OldFormats
  /\ pc[p] \in {"backup", "copy", "open", "write", "replace"} =>
       task[p].payload.format = "current"
  /\ pc[p] = "replace" => task[p].temporary = task[p].payload

IInv ==
  /\ TypeOK
  /\ \A p \in Processes : Prepared(p)
  /\ NoTornConfiguration

OneProcess == \A p, q \in Processes : p = q

\* The records written as literals are files of a known format.
LEMMA LiteralContents ==
  /\ Absent \in Contents /\ Torn \in Contents /\ Damaged \in Contents
  /\ \A v \in Values : Current(v) \in Contents
  /\ UserContents \subseteq Contents
  /\ \A content \in UserContents : content.format # "torn"
  /\ NoBackups \in [OldFormats -> Contents]
  /\ NoTask \in Tasks
  <1>1. Absent \in Contents /\ Torn \in Contents /\ Damaged \in Contents
    BY FactoryAssumption DEF Absent, Torn, Damaged, Contents, Formats
  <1>2. \A v \in Values : Current(v) \in Contents
    BY DEF Current, Contents, Formats
  <1>3. UserContents \subseteq Contents
    BY <1>1 DEF UserContents, Contents, Formats
  <1>4. \A content \in UserContents : content.format # "torn"
    BY FormatsAssumption DEF UserContents, Absent, Damaged
  <1>5. NoBackups \in [OldFormats -> Contents]
    BY <1>1 DEF NoBackups
  <1>6. NoTask \in Tasks
    BY <1>1, <1>5 DEF NoTask, Tasks, Kinds, Formats
  <1> QED
    BY <1>1, <1>2, <1>3, <1>4, <1>5, <1>6

LEMMA InitIInv == Init => IInv
  <1> SUFFICES ASSUME Init PROVE IInv
    OBVIOUS
  <1>1. TypeOK
    BY LiteralContents, HomeAssumption, FactoryAssumption DEF Init, TypeOK, Steps
  <1>2. \A p \in Processes : Prepared(p)
    BY DEF Init, Prepared
  <1>3. NoTornConfiguration
    BY LiteralContents DEF Init, NoTornConfiguration
  <1> QED
    BY <1>1, <1>2, <1>3 DEF IInv

\* A name of the process opens a path of its directory.
LEMMA PathsAreOpened ==
  ASSUME TypeOK, NEW p \in Processes, NEW n \in Names
  PROVE  Path(p, n) \in Paths
  BY DEF TypeOK, Path, Paths, FileOf, Names

LEMMA EnterKeepsIInv ==
  ASSUME IInv, NEW p \in Processes, NEW n \in Names,
         NEW kind \in Kinds, NEW step \in {"read", "open", "undesignate"},
         NEW payload \in Contents, step = "open" => payload.format = "current",
         Enter(p, kind, n, step, payload)
  PROVE  /\ pc' \in [Processes -> Steps]
         /\ task' \in [Processes -> Tasks]
         /\ outcome' \in [Processes -> {"none", "ok", "failed"}]
         /\ \A q \in Processes : Prepared(q)'
  <1>1. disk[Path(p, n)] \in Contents /\ backup[Path(p, n)] \in [OldFormats -> Contents]
    BY PathsAreOpened DEF IInv, TypeOK
  <1>2. [NoTask EXCEPT !.kind = kind, !.name = n, !.payload = payload,
                      !.before = disk[Path(p, n)], !.former = backup[Path(p, n)]] \in Tasks
    BY <1>1, LiteralContents DEF Tasks, NoTask
  <1>3. pc' \in [Processes -> Steps] /\ task' \in [Processes -> Tasks]
        /\ outcome' \in [Processes -> {"none", "ok", "failed"}]
    BY <1>2 DEF IInv, TypeOK, Enter, Steps
  <1>4. Prepared(p)'
    BY <1>2 DEF IInv, TypeOK, Enter, Prepared, NoTask
  <1>5. ASSUME NEW q \in Processes, q # p PROVE Prepared(q)'
    BY <1>5 DEF IInv, TypeOK, Enter, Prepared
  <1> QED
    BY <1>3, <1>4, <1>5

LEMMA ReturnKeepsIInv ==
  ASSUME IInv, NEW p \in Processes, NEW result \in {"ok", "failed"},
         Return(p, result) \/ (pc[p] = "idle" /\ ReturnAtOnce(p, result))
  PROVE  /\ pc' \in [Processes -> Steps]
         /\ task' \in [Processes -> Tasks]
         /\ outcome' \in [Processes -> {"none", "ok", "failed"}]
         /\ \A q \in Processes : Prepared(q)'
  <1>1. CASE Return(p, result)
    <2>1. [task[p] EXCEPT !.temporary = Absent] \in Tasks
      BY LiteralContents DEF IInv, TypeOK, Tasks
    <2> QED
      BY <1>1, <2>1 DEF IInv, TypeOK, Return, Prepared, Steps
  <1>2. CASE pc[p] = "idle" /\ ReturnAtOnce(p, result)
    BY <1>2, LiteralContents DEF IInv, TypeOK, ReturnAtOnce, Prepared, Steps
  <1> QED
    BY <1>1, <1>2

\* Every step of the system preserves the invariant.
LEMMA StepKeepsIInv == IInv /\ [Next]_vars => IInv'
  <1> SUFFICES ASSUME IInv, [Next]_vars PROVE IInv'
    OBVIOUS
  <1> USE DEF IInv
  <1>1. ASSUME NEW p \in Processes, NEW n \in Names, SaveConfiguration(p, n) PROVE IInv'
    <2>1. Current(settings[p]) \in Contents /\ Current(settings[p]).format = "current"
      BY LiteralContents DEF TypeOK, Current
    <2>2. Enter(p, "save", n, "open", Current(settings[p])) /\ "save" \in Kinds
      BY <1>1 DEF SaveConfiguration, Kinds
    <2> QED
      BY <1>1, <2>1, <2>2, EnterKeepsIInv
      DEF SaveConfiguration, TypeOK, NoTornConfiguration, files, memory, bounds
  <1>2. ASSUME NEW p \in Processes, NEW n \in Names, LoadConfiguration(p, n) PROVE IInv'
    BY <1>2, EnterKeepsIInv, LiteralContents
    DEF LoadConfiguration, TypeOK, NoTornConfiguration, files, memory, bounds, Kinds
  <1>3. ASSUME NEW p \in Processes, LoadDefaultConfigurationOnce(p) PROVE IInv'
    <2>1. CASE designated[p] = NoName
      BY <1>3, <2>1 DEF LoadDefaultConfigurationOnce, TypeOK, NoTornConfiguration,
                        Prepared, files, bounds
    <2>2. CASE designated[p] # NoName
      <3>1. designated[p] \in Names
        BY <2>2 DEF TypeOK
      <3> QED
        BY <1>3, <2>2, <3>1, EnterKeepsIInv, LiteralContents
        DEF LoadDefaultConfigurationOnce, TypeOK, NoTornConfiguration, files, bounds, Kinds
    <2> QED
      BY <2>1, <2>2
  <1>4. ASSUME NEW p \in Processes, NEW n \in Names, DeleteConfiguration(p, n) PROVE IInv'
    <2>1. disk' \in [Paths -> Contents] /\ NoTornConfiguration'
      BY <1>4, LiteralContents DEF DeleteConfiguration, TypeOK, NoTornConfiguration, Absent
    <2> QED
      BY <1>4, <2>1, EnterKeepsIInv, LiteralContents
      DEF DeleteConfiguration, TypeOK, memory, bounds, Kinds
  <1>5. ASSUME NEW p \in Processes, Refuse(p) PROVE IInv'
    BY <1>5, ReturnKeepsIInv
    DEF Refuse, TypeOK, NoTornConfiguration, files, memory, bounds
  <1>6. ASSUME NEW p \in Processes, NEW d \in Directories, NEW n \in Names \cup {NoName},
               ChangePreferences(p, d, n)
        PROVE  IInv'
    <2>1. /\ pc' \in [Processes -> Steps] /\ task' \in [Processes -> Tasks]
          /\ outcome' \in [Processes -> {"none", "ok", "failed"}]
          /\ \A q \in Processes : Prepared(q)'
      BY <1>6, ReturnKeepsIInv DEF ChangePreferences
    <2>2. CASE SavePreferences(p, d, n)
      <3>1. /\ prefs' \in [directory : Directories, designated : Names \cup {NoName}]
            /\ directory' \in [Processes -> Directories]
            /\ designated' \in [Processes -> Names \cup {NoName}]
        BY <2>2 DEF SavePreferences, TypeOK
      <3> QED
        BY <1>6, <2>1, <3>1 DEF ChangePreferences, TypeOK, NoTornConfiguration, bounds
    <2>3. CASE KeepPreferences
      BY <1>6, <2>1, <2>3 DEF ChangePreferences, KeepPreferences, TypeOK,
                              NoTornConfiguration, bounds
    <2> QED
      BY <1>6, <2>2, <2>3 DEF ChangePreferences
  <1>7. ASSUME NEW p \in Processes, NEW n \in Names \cup {NoName},
               SetDefaultConfiguration(p, n)
        PROVE  IInv'
    BY <1>6, <1>7 DEF SetDefaultConfiguration, TypeOK
  <1>8. ASSUME NEW p \in Processes, NEW d \in Directories, SetConfigurationDirectory(p, d)
        PROVE  IInv'
    BY <1>6, <1>8 DEF SetConfigurationDirectory
  <1>9. ASSUME NEW p \in Processes, NEW v \in Values, ChangeSettings(p, v) PROVE IInv'
    BY <1>9 DEF ChangeSettings, TypeOK, NoTornConfiguration, Prepared, files, bounds
  <1>10. ASSUME NEW p \in Processes, Step(p) PROVE IInv'
    <2> DEFINE t == task[p]
    <2>0. t \in Tasks /\ (pc[p] \notin {"off", "idle"} => Target(p) \in Paths)
      BY PathsAreOpened DEF TypeOK, Prepared, Target
    <2>1. CASE Read(p)
      <3>1. disk[Target(p)] \in Contents /\ disk[Target(p)].value \in Values
        BY <2>0, <2>1 DEF Read, TypeOK, Contents
      <3>2. [t EXCEPT !.format = disk[Target(p)].format,
                      !.payload = Current(disk[Target(p)].value)] \in Tasks
        BY <2>0, <3>1, LiteralContents DEF Tasks, Contents
      <3>3. task' \in [Processes -> Tasks]
        BY <2>1, <3>2 DEF Read, TypeOK
      <3>4. \A q \in Processes : Prepared(q)'
        BY <2>1, <3>1, <2>0 DEF Read, Advance, Prepared, TypeOK, Current, Tasks
      <3> QED
        BY <2>1, <3>3, <3>4
        DEF Read, Advance, TypeOK, NoTornConfiguration, files, memory, bounds, Steps
    <2>2. CASE BackupExists(p)
      BY <2>2 DEF BackupExists, Advance, TypeOK, NoTornConfiguration, Prepared, files,
                  memory, bounds, Steps
    <2>3. CASE BeginBackup(p) \/ EndBackup(p)
      <3>1. \A content \in Contents :
              [backup EXCEPT ![Target(p)][task[p].format] = content]
                \in [Paths -> [OldFormats -> Contents]]
        BY DEF TypeOK
      <3>2. CASE BeginBackup(p)
        BY <3>1, <3>2, LiteralContents
        DEF BeginBackup, Advance, TypeOK, NoTornConfiguration, Prepared, memory, bounds, Steps
      <3>3. CASE EndBackup(p)
        <4>1. disk[Target(p)] \in Contents
          BY <3>3, <2>0 DEF EndBackup, Advance, TypeOK
        <4> QED
          BY <3>1, <3>3, <4>1
          DEF EndBackup, Advance, TypeOK, NoTornConfiguration, Prepared, memory, bounds, Steps
      <3> QED
        BY <2>3, <3>2, <3>3
    <2>4. CASE BackupFails(p)
      <3>1. backup' \in [Paths -> [OldFormats -> Contents]]
        BY <2>4, LiteralContents DEF BackupFails, TypeOK
      <3> QED
        BY <2>4, <3>1, ReturnKeepsIInv
        DEF BackupFails, TypeOK, NoTornConfiguration, memory, bounds
    <2>5. CASE OpenTemporary(p) \/ WriteTemporary(p)
      <3>1. \A content \in Contents : [t EXCEPT !.temporary = content] \in Tasks
        BY <2>0 DEF Tasks
      <3>2. t.payload \in Contents
        BY <2>0 DEF Tasks
      <3>3. task' \in [Processes -> Tasks]
        BY <2>5, <3>1, <3>2, LiteralContents DEF OpenTemporary, WriteTemporary, TypeOK
      <3>4. /\ pc[p] \in {"open", "write"} /\ pc'[p] \in {"write", "replace"}
            /\ task'[p].name = t.name /\ task'[p].payload = t.payload
            /\ pc'[p] = "replace" => task'[p].temporary = t.payload
        BY <2>0, <2>5 DEF OpenTemporary, WriteTemporary, Advance, TypeOK, Tasks
      <3>5. ASSUME NEW q \in Processes, q # p PROVE pc'[q] = pc[q] /\ task'[q] = task[q]
        BY <2>5, <3>5 DEF OpenTemporary, WriteTemporary, Advance, TypeOK
      <3>6. \A q \in Processes : Prepared(q)'
        BY <3>4, <3>5 DEF Prepared
      <3> QED
        BY <2>5, <3>3, <3>6
        DEF OpenTemporary, WriteTemporary, Advance, TypeOK, NoTornConfiguration, files,
            memory, bounds, Steps
    <2>6. CASE Replace(p)
      <3>1. t.temporary \in Contents /\ t.temporary.format = "current"
        BY <2>0, <2>6 DEF Replace, Prepared, Tasks
      <3>2. disk' \in [Paths -> Contents] /\ NoTornConfiguration'
        BY <2>6, <3>1 DEF Replace, TypeOK, NoTornConfiguration
      <3>3. CASE task[p].kind = "save"
        BY <2>6, <3>2, <3>3, ReturnKeepsIInv DEF Replace, TypeOK, memory, bounds
      <3>4. CASE task[p].kind # "save"
        <4>1. [t EXCEPT !.temporary = Absent] \in Tasks
          BY <2>0, LiteralContents DEF Tasks
        <4>2. pc' \in [Processes -> Steps] /\ task' \in [Processes -> Tasks]
          <5>1. pc' \in [Processes -> Steps]
            BY <2>6, <3>4 DEF Replace, Advance, TypeOK, Steps
          <5>2. task' = [task EXCEPT ![p] = [t EXCEPT !.temporary = Absent]]
            BY <2>6, <3>4 DEF Replace
          <5>3. task' \in [Processes -> Tasks]
            BY <4>1, <5>2 DEF TypeOK
          <5> QED
            BY <5>1, <5>3
        <4>3. ASSUME NEW q \in Processes PROVE Prepared(q)'
          <5>1. CASE q = p
            <6>1. pc'[p] = "apply" /\ task'[p].name = task[p].name
              BY <2>0, <2>6, <3>4 DEF Replace, Advance, TypeOK, Tasks
            <6> QED
              BY <2>6, <5>1, <6>1 DEF Replace, Prepared
          <5>2. CASE q # p
            BY <2>6, <3>4, <5>2 DEF Replace, Advance, TypeOK, Prepared
          <5> QED
            BY <5>1, <5>2
        <4>4. UNCHANGED <<backup, prefs, outcome, memory, bounds>>
          BY <2>6, <3>4 DEF Replace, Advance
        <4> QED
          BY <3>2, <4>2, <4>3, <4>4 DEF TypeOK, memory, bounds
      <3> QED
        BY <3>3, <3>4
    <2>7. CASE Fail(p)
      BY <2>7, ReturnKeepsIInv
      DEF Fail, TypeOK, NoTornConfiguration, files, memory, bounds
    <2>8. CASE Apply(p)
      <3>1. t.payload.value \in Values
        BY <2>0 DEF Tasks, Contents
      <3>2. Mine(p) \in [directory : Directories, designated : Names \cup {NoName}]
        BY DEF Mine, TypeOK
      <3> QED
        BY <2>8, <3>1, <3>2, ReturnKeepsIInv
        DEF Apply, TypeOK, NoTornConfiguration, bounds
    <2>9. CASE Undesignate(p)
      BY <2>9, ReturnKeepsIInv
      DEF Undesignate, SavePreferences, KeepPreferences, TypeOK, NoTornConfiguration, bounds
    <2> QED
      BY <1>10, <2>1, <2>2, <2>3, <2>4, <2>5, <2>6, <2>7, <2>8, <2>9 DEF Step
  <1>11. ASSUME NEW p \in Processes, Start(p) PROVE IInv'
    BY <1>11, FactoryAssumption
    DEF Start, Advance, TypeOK, NoTornConfiguration, Prepared, files, bounds, Steps
  <1>12. ASSUME NEW p \in Processes, Crash(p) PROVE IInv'
    BY <1>12, LiteralContents
    DEF Crash, TypeOK, NoTornConfiguration, Prepared, files, memory, Steps
  <1>13. ASSUME NEW path \in Paths, NEW content \in UserContents, Deliver(path, content)
         PROVE  IInv'
    BY <1>13, LiteralContents
    DEF Deliver, TypeOK, NoTornConfiguration, Prepared, memory
  <1>14. CASE UNCHANGED vars
    BY <1>14 DEF vars, files, memory, bounds, TypeOK, NoTornConfiguration, Prepared
  <1> QED
    BY <1>1, <1>2, <1>3, <1>4, <1>5, <1>7, <1>8, <1>9, <1>10, <1>11, <1>12, <1>13, <1>14
    DEF Next

LEMMA IInvHolds == Spec => []IInv
  BY InitIInv, StepKeepsIInv, PTL DEF Spec

\* The state has the declared types in every reachable state.
THEOREM TypeCorrect == Spec => []TypeOK
  <1>1. IInv => TypeOK
    BY DEF IInv
  <1> QED
    BY <1>1, IInvHolds, PTL

\* No configuration file is ever half written, however many processes write it,
\* crash and fail.
THEOREM NoTornConfigurations == Spec => []NoTornConfiguration
  <1>1. IInv => NoTornConfiguration
    BY DEF IInv
  <1> QED
    BY <1>1, IInvHolds, PTL

LEMMA MemoryKept ==
  ASSUME OneProcess
  PROVE  /\ Init => MemoryMatchesPreferences
         /\ IInv /\ MemoryMatchesPreferences /\ [Next]_vars => MemoryMatchesPreferences'
  <1> USE DEF MemoryMatchesPreferences, Mine
  <1>1. Init => MemoryMatchesPreferences
    BY DEF Init
  <1>2. IInv /\ MemoryMatchesPreferences /\ [Next]_vars => MemoryMatchesPreferences'
    <2> SUFFICES ASSUME IInv, MemoryMatchesPreferences, [Next]_vars
                 PROVE  MemoryMatchesPreferences'
      OBVIOUS
    <2>1. ASSUME NEW p \in Processes,
                 \/ \E n \in Names : \/ SaveConfiguration(p, n) \/ LoadConfiguration(p, n)
                                     \/ DeleteConfiguration(p, n)
                 \/ LoadDefaultConfigurationOnce(p) \/ Refuse(p)
                 \/ \E v \in Values : ChangeSettings(p, v)
          PROVE  MemoryMatchesPreferences'
      BY <2>1 DEF SaveConfiguration, LoadConfiguration, DeleteConfiguration, Enter,
                  LoadDefaultConfigurationOnce, Refuse, ReturnAtOnce, ChangeSettings,
                  IInv, TypeOK, files, memory
    <2>2. ASSUME NEW p \in Processes, NEW d \in Directories, NEW n \in Names \cup {NoName},
                 ChangePreferences(p, d, n)
          PROVE  MemoryMatchesPreferences'
      BY <2>2, OneProcess DEF ChangePreferences, SavePreferences, KeepPreferences,
                  ReturnAtOnce, IInv, TypeOK, OneProcess
    <2>3. ASSUME NEW p \in Processes, Step(p) PROVE MemoryMatchesPreferences'
      BY <2>3, OneProcess DEF Step, Read, BackupExists, BeginBackup, EndBackup, BackupFails, OpenTemporary,
                  WriteTemporary, Replace, Fail, Apply, Undesignate, SavePreferences,
                  KeepPreferences, Return, Advance, IInv, TypeOK, OneProcess, files, memory
    <2>4. ASSUME NEW p \in Processes, Start(p) \/ Crash(p) PROVE MemoryMatchesPreferences'
      BY <2>4, OneProcess DEF Start, Crash, Advance, IInv, TypeOK, OneProcess, files, memory
    <2>5. ASSUME NEW path \in Paths, NEW content \in UserContents, Deliver(path, content)
          PROVE  MemoryMatchesPreferences'
      BY <2>5 DEF Deliver, memory
    <2>6. CASE UNCHANGED vars
      BY <2>6 DEF vars, files, memory
    <2>7. \A p \in Processes : directory[p] \in Directories
      BY DEF IInv, TypeOK
    <2> QED
      BY <2>1, <2>2, <2>3, <2>4, <2>5, <2>6, <2>7
      DEF Next, SetDefaultConfiguration, SetConfigurationDirectory
  <1> QED
    BY <1>1, <1>2

\* A process that is alone with the preferences file always works with what the
\* next start will read from it.
THEOREM PreferencesAgree ==
  ASSUME OneProcess
  PROVE  Spec => []MemoryMatchesPreferences
  <1>1. /\ Init => MemoryMatchesPreferences
        /\ IInv /\ MemoryMatchesPreferences /\ [Next]_vars => MemoryMatchesPreferences'
    BY OneProcess, MemoryKept
  <1> QED
    BY <1>1, IInvHolds, PTL DEF Spec

-----------------------------------------------------------------------------
(* What an operation knows of the file it works on.                        *)

\* The kind of the operation at each of its steps.
Underway(p) ==
  /\ pc[p] = "off" => task[p] = NoTask
  /\ pc[p] \in {"read", "backup", "copy", "apply"} => task[p].kind = "load"
  /\ pc[p] \in {"open", "write", "replace"} => task[p].kind \in {"save", "load"}
  /\ pc[p] = "undesignate" => task[p].kind = "delete"

\* Nobody damages the file that a load is upgrading.
Undamaged(p) ==
  pc[p] \in {"backup", "copy", "open", "write", "replace"} /\ task[p].kind = "load" =>
    disk[Target(p)].format # "damaged"

OpInv == \A p \in Processes : Underway(p) /\ Undamaged(p)

\* The steps of process p.
Moves(p) ==
  \/ \E n \in Names : \/ SaveConfiguration(p, n) \/ LoadConfiguration(p, n)
                      \/ DeleteConfiguration(p, n)
  \/ \E n \in Names \cup {NoName} : SetDefaultConfiguration(p, n)
  \/ \E d \in Directories : SetConfigurationDirectory(p, d)
  \/ \E v \in Values : ChangeSettings(p, v)
  \/ LoadDefaultConfigurationOnce(p) \/ Refuse(p) \/ Step(p) \/ Start(p) \/ Crash(p)

LEMMA NextIsAMove ==
  ASSUME Next
  PROVE  \/ \E p \in Processes : Moves(p)
         \/ \E path \in Paths, content \in UserContents : Deliver(path, content)
  BY DEF Next, Moves

\* A step of one process leaves what the others have in hand.
LEMMA OthersUnchanged ==
  ASSUME TypeOK, NEW p \in Processes, Moves(p), NEW q \in Processes, q # p
  PROVE  /\ pc'[q] = pc[q] /\ task'[q] = task[q] /\ outcome'[q] = outcome[q]
         /\ directory'[q] = directory[q] /\ designated'[q] = designated[q]
  <1> USE DEF TypeOK
  <1>1. CASE \E n \in Names : SaveConfiguration(p, n) \/ LoadConfiguration(p, n)
                              \/ DeleteConfiguration(p, n)
    BY <1>1 DEF SaveConfiguration, LoadConfiguration, DeleteConfiguration, Enter, memory
  <1>2. CASE \/ \E n \in Names \cup {NoName} : SetDefaultConfiguration(p, n)
             \/ \E d \in Directories : SetConfigurationDirectory(p, d)
    BY <1>2 DEF SetDefaultConfiguration, SetConfigurationDirectory, ChangePreferences,
                SavePreferences, KeepPreferences, ReturnAtOnce
  <1>3. CASE \E v \in Values : ChangeSettings(p, v)
    BY <1>3 DEF ChangeSettings
  <1>4. CASE LoadDefaultConfigurationOnce(p) \/ Refuse(p)
    BY <1>4 DEF LoadDefaultConfigurationOnce, Refuse, Enter, ReturnAtOnce, memory
  <1>5. CASE Step(p)
    BY <1>5 DEF Step, Read, BackupExists, BeginBackup, EndBackup, BackupFails,
                OpenTemporary, WriteTemporary, Replace, Fail, Apply, Undesignate,
                SavePreferences, KeepPreferences, Return, Advance, memory
  <1>6. CASE Start(p) \/ Crash(p)
    BY <1>6 DEF Start, Crash, Advance, memory
  <1> QED
    BY <1>1, <1>2, <1>3, <1>4, <1>5, <1>6 DEF Moves

\* While an operation is under way its process keeps its directory, so that the file
\* it works on is the same from the first step to the last.
LEMMA TargetKept ==
  ASSUME TypeOK, NEW p \in Processes, Step(p)
  PROVE  directory' = directory /\ task'[p].name = task[p].name
         /\ task'[p].kind = task[p].kind /\ task'[p].before = task[p].before
         /\ task'[p].former = task[p].former
  <1>1. task[p] \in Tasks
    BY DEF TypeOK
  <1> QED
    BY <1>1 DEF Step, TypeOK, Tasks, Read, BackupExists, BeginBackup, EndBackup,
                BackupFails, OpenTemporary, WriteTemporary, Replace, Fail, Apply,
                Undesignate, SavePreferences, KeepPreferences, Return, Advance, memory

\* What a step of p does to the configuration files.
LEMMA FilesChanged ==
  ASSUME IInv, OpInv, NEW p \in Processes, Moves(p), disk' # disk
  PROVE  \/ \E n \in Names :
              /\ DeleteConfiguration(p, n)
              /\ disk' = [disk EXCEPT ![Path(p, n)] = Absent]
         \/ /\ Replace(p)
            /\ disk' = [disk EXCEPT ![Target(p)] = task[p].payload]
            /\ task[p].payload.format = "current"
  <1>1. CASE \E n \in Names : DeleteConfiguration(p, n)
    BY <1>1 DEF DeleteConfiguration
  <1>2. CASE Replace(p)
    BY <1>2 DEF Replace, IInv, Prepared
  <1> QED
    BY <1>1, <1>2
    DEF Moves, SaveConfiguration, LoadConfiguration, SetDefaultConfiguration,
        SetConfigurationDirectory, ChangePreferences, ChangeSettings,
        LoadDefaultConfigurationOnce, Refuse, Step, Read, BackupExists, BeginBackup,
        EndBackup, BackupFails, OpenTemporary, WriteTemporary, Fail, Apply, Undesignate,
        Start, Crash, files

\* What a process has in hand when it has begun an operation.
LEMMA Entered ==
  ASSUME TypeOK, NEW p \in Processes, NEW n, NEW kind, NEW step, NEW payload,
         Enter(p, kind, n, step, payload)
  PROVE  /\ pc'[p] = step /\ task'[p].kind = kind /\ task'[p].name = n
         /\ task'[p].payload = payload /\ task'[p].before = disk[Path(p, n)]
         /\ task'[p].former = backup[Path(p, n)]
  BY DEF TypeOK, Enter, NoTask

LEMMA UnderwayKept ==
  ASSUME IInv, OpInv, NEW p \in Processes, Moves(p)
  PROVE  Underway(p)'
  <1> USE DEF IInv, TypeOK, Underway
  <1>0. task[p] \in Tasks /\ Underway(p)
    BY DEF OpInv
  <1>1. CASE \E n \in Names : SaveConfiguration(p, n) \/ LoadConfiguration(p, n)
                              \/ DeleteConfiguration(p, n)
    BY <1>1, Entered DEF SaveConfiguration, LoadConfiguration, DeleteConfiguration
  <1>2. CASE \/ \E n \in Names \cup {NoName} : SetDefaultConfiguration(p, n)
             \/ \E d \in Directories : SetConfigurationDirectory(p, d)
    BY <1>2 DEF SetDefaultConfiguration, SetConfigurationDirectory, ChangePreferences,
                ReturnAtOnce
  <1>3. CASE \E v \in Values : ChangeSettings(p, v)
    BY <1>0, <1>3 DEF ChangeSettings
  <1>4. CASE LoadDefaultConfigurationOnce(p) \/ Refuse(p)
    <2>1. CASE LoadDefaultConfigurationOnce(p)
      BY <1>0, <2>1, Entered DEF LoadDefaultConfigurationOnce
    <2>2. CASE Refuse(p)
      BY <2>2 DEF Refuse, ReturnAtOnce
    <2> QED
      BY <1>4, <2>1, <2>2
  <1>5. CASE Step(p)
    <2>1. task'[p].kind = task[p].kind
      BY <1>5, TargetKept
    <2> QED
      BY <1>0, <1>5, <2>1
      DEF Step, Read, BackupExists, BeginBackup, EndBackup, BackupFails, OpenTemporary,
          WriteTemporary, Replace, Fail, Apply, Undesignate, Return, Advance
  <1>6. CASE Start(p) \/ Crash(p)
    BY <1>0, <1>6 DEF Start, Crash, Advance
  <1> QED
    BY <1>1, <1>2, <1>3, <1>4, <1>5, <1>6 DEF Moves

\* After a step of p its load still works on a file that can be read.
LEMMA OwnFileUndamaged ==
  ASSUME IInv, OpInv, NEW p \in Processes, Moves(p)
  PROVE  Undamaged(p)'
  <1> USE DEF IInv, TypeOK
  <1>0. task[p] \in Tasks /\ Undamaged(p)
    BY DEF OpInv
  <1>1. CASE \E n \in Names : SaveConfiguration(p, n) \/ LoadConfiguration(p, n)
                              \/ DeleteConfiguration(p, n)
    BY <1>1, Entered DEF SaveConfiguration, LoadConfiguration, DeleteConfiguration, Undamaged
  <1>2. CASE \/ \E n \in Names \cup {NoName} : SetDefaultConfiguration(p, n)
             \/ \E d \in Directories : SetConfigurationDirectory(p, d)
             \/ \E v \in Values : ChangeSettings(p, v)
             \/ Refuse(p) \/ Start(p) \/ Crash(p)
    BY <1>2 DEF SetDefaultConfiguration, SetConfigurationDirectory, ChangePreferences,
                ChangeSettings, Refuse, Start, Crash, ReturnAtOnce, Advance, Undamaged
  <1>3. CASE LoadDefaultConfigurationOnce(p)
    BY <1>3 DEF LoadDefaultConfigurationOnce, Enter, Undamaged
  <1>4. CASE Step(p)
    <2>1. Target(p)' = Target(p) /\ task'[p].kind = task[p].kind
      BY <1>4, TargetKept DEF Target, Path
    <2>2. CASE Read(p)
      BY <2>1, <2>2, FormatsAssumption DEF Read, Advance, Undamaged, files
    <2>3. CASE \/ BackupExists(p) \/ BeginBackup(p) \/ EndBackup(p)
               \/ OpenTemporary(p) \/ WriteTemporary(p)
      BY <1>0, <2>1, <2>3 DEF BackupExists, BeginBackup, EndBackup, OpenTemporary,
                              WriteTemporary, Advance, Undamaged, files
    <2>4. CASE BackupFails(p) \/ Replace(p) \/ Fail(p) \/ Apply(p) \/ Undesignate(p)
      BY <2>4 DEF BackupFails, Replace, Fail, Apply, Undesignate, Return, Advance, Undamaged
    <2> QED
      BY <1>4, <2>2, <2>3, <2>4 DEF Step
  <1> QED
    BY <1>1, <1>2, <1>3, <1>4 DEF Moves

\* A step of one process does not damage the file of another.
LEMMA OtherFileUndamaged ==
  ASSUME IInv, OpInv, NEW p \in Processes, Moves(p), NEW q \in Processes, q # p
  PROVE  Undamaged(q)'
  <1>1. pc'[q] = pc[q] /\ task'[q] = task[q] /\ Target(q)' = Target(q)
    BY OthersUnchanged DEF IInv, Target, Path
  <1>2. Undamaged(q)
    BY DEF OpInv
  <1>3. CASE disk' = disk
    BY <1>1, <1>2, <1>3 DEF Undamaged
  <1>4. CASE disk' # disk
    <2>1. \E path, content :
            disk' = [disk EXCEPT ![path] = content] /\ content.format # "damaged"
      <3>1. Absent.format # "damaged"
        BY DEF Absent
      <3> QED
        BY <1>4, <3>1, FilesChanged
    <2>2. CASE pc[q] \in {"off", "idle"}
      BY <1>1, <2>2 DEF Undamaged
    <2>3. CASE pc[q] \notin {"off", "idle"}
      <3>1. Target(q) \in Paths
        BY <2>3, PathsAreOpened DEF IInv, Prepared, Target
      <3> QED
        BY <1>1, <1>2, <2>1, <3>1 DEF Undamaged, IInv, TypeOK
    <2> QED
      BY <2>2, <2>3
  <1> QED
    BY <1>3, <1>4

LEMMA InitOpInv == Init => OpInv
  BY DEF Init, OpInv, Underway, Undamaged

LEMMA StepKeepsOpInv == IInv /\ OpInv /\ [Next]_vars => OpInv'
  <1> SUFFICES ASSUME IInv, OpInv, [Next]_vars PROVE OpInv'
    OBVIOUS
  <1>1. ASSUME NEW p \in Processes, Moves(p) PROVE OpInv'
    <2>1. ASSUME NEW q \in Processes, q # p PROVE Underway(q)'
      BY <1>1, <2>1, OthersUnchanged DEF IInv, OpInv, Underway
    <2> QED
      BY <1>1, <2>1, UnderwayKept, OwnFileUndamaged, OtherFileUndamaged DEF OpInv
  <1>2. ASSUME NEW path \in Paths, NEW content \in UserContents, Deliver(path, content)
        PROVE  OpInv'
    BY <1>2 DEF Deliver, OpInv, Underway, Undamaged
  <1>3. CASE UNCHANGED vars
    BY <1>3 DEF vars, files, memory, OpInv, Underway, Undamaged, Target, Path
  <1> QED
    BY <1>1, <1>2, <1>3, NextIsAMove

LEMMA OpInvHolds == Spec => [](IInv /\ OpInv)
  BY InitIInv, StepKeepsIInv, InitOpInv, StepKeepsOpInv, PTL DEF Spec

\* However many processes run, crash and fail, only a save over it or a delete of it
\* changes a file that cannot be read: no upgrade takes it for an older format.
THEOREM DamagedFilesStay == Spec => DamagedFilesAreKept
  <1>1. ASSUME IInv, OpInv, [Next]_vars, NEW path \in Paths,
               disk[path].format = "damaged", disk'[path] # disk[path],
               delivered' = delivered
        PROVE  \E p \in Processes :
                 task'[p].kind \in {"save", "delete"} /\ Target(p)' = path
    <2>0. ~ UNCHANGED vars
      BY <1>1 DEF vars, files
    <2>1. ~ \E there \in Paths, content \in UserContents : Deliver(there, content)
      BY <1>1 DEF Deliver, IInv, TypeOK
    <2>2. PICK p \in Processes : Moves(p)
      BY <1>1, <2>0, <2>1, NextIsAMove
    <2>3. CASE \E n \in Names :
                 DeleteConfiguration(p, n) /\ disk' = [disk EXCEPT ![Path(p, n)] = Absent]
      <3>1. PICK n \in Names :
              DeleteConfiguration(p, n) /\ disk' = [disk EXCEPT ![Path(p, n)] = Absent]
        BY <2>3
      <3>2. Path(p, n) = path
        BY <1>1, <3>1 DEF IInv, TypeOK
      <3>3. task'[p].kind = "delete" /\ task'[p].name = n /\ directory' = directory
        BY <1>1, <3>1 DEF DeleteConfiguration, Enter, NoTask, memory, IInv, TypeOK
      <3> QED
        BY <3>2, <3>3 DEF Target, Path
    <2>4. CASE Replace(p) /\ disk' = [disk EXCEPT ![Target(p)] = task[p].payload]
      <3>1. Target(p) = path
        BY <1>1, <2>4 DEF IInv, TypeOK
      <3>2. task[p].kind = "save"
        BY <1>1, <2>4, <3>1 DEF Replace, OpInv, Underway, Undamaged
      <3>3. task'[p].kind = "save" /\ Target(p)' = path
        BY <1>1, <2>4, <3>1, <3>2, TargetKept DEF Step, IInv, Target, Path
      <3> QED
        BY <3>3
    <2> QED
      BY <1>1, <2>2, <2>3, <2>4, FilesChanged
  <1>2. IInv /\ OpInv /\ [Next]_vars =>
          [\A path \in Paths :
             disk[path].format = "damaged" /\ disk'[path] # disk[path]
               /\ delivered' = delivered =>
               \E p \in Processes :
                 task'[p].kind \in {"save", "delete"} /\ Target(p)' = path]_vars
    BY <1>1
  <1> QED
    BY <1>2, OpInvHolds, PTL DEF Spec, DamagedFilesAreKept


-----------------------------------------------------------------------------
(* One process.  Files are brought in between its operations only, so that *)
(* the file is, until the operation replaces it, the one it began with.    *)

Untouched(p) ==
  /\ pc[p] \in {"read", "backup", "copy", "open", "write", "replace"} =>
       disk[Target(p)] = task[p].before
  /\ pc[p] \in {"backup", "copy", "open", "write", "replace"} /\ task[p].kind = "load" =>
       task[p].payload.value = task[p].before.value
  /\ pc[p] = "apply" =>
       /\ disk[Target(p)] = task[p].payload
       /\ task[p].payload.value = task[p].before.value
  /\ pc[p] = "undesignate" => disk[Target(p)] = Absent

\* What a step of p that ends an operation reports of its file.
Reported(p) ==
  LET file == disk'[Target(p)]
      ok == outcome'[p] = "ok"
      kind == task[p].kind
  IN
  /\ ~ok /\ kind # "delete" => file = task[p].before
  /\ ok /\ kind # "delete" => file = task[p].payload
  /\ ok /\ kind = "load" => file.value = task[p].before.value
  /\ ok /\ kind = "delete" => file = Absent /\ prefs'.designated # task[p].name

LEMMA CurrentContents ==
  ASSUME NEW content \in Contents, content.format = "current"
  PROVE  Current(content.value) = content
  BY DEF Contents, Current

LEMMA StepReports ==
  ASSUME IInv, OpInv, MemoryMatchesPreferences, NEW p \in Processes, Untouched(p), Step(p)
  PROVE  Untouched(p)' /\ (pc'[p] = "idle" => Reported(p))
  <1> USE DEF IInv, TypeOK
  <1>0. task[p] \in Tasks /\ Underway(p)
    BY DEF OpInv
  <1>1. /\ Target(p)' = Target(p) /\ task'[p].kind = task[p].kind
        /\ task'[p].before = task[p].before
    BY TargetKept DEF Target, Path
  <1>2. Target(p) \in Paths /\ task[p].name \in Names
    BY PathsAreOpened DEF Step, Read, BackupExists, BeginBackup, EndBackup, BackupFails,
       OpenTemporary, WriteTemporary, Replace, Fail, Apply, Undesignate, Advance,
       Prepared, Target
  <1>3. CASE Read(p)
    <2>1. /\ disk[Target(p)] \in Contents /\ disk' = disk
          /\ task'[p].payload = Current(disk[Target(p)].value)
      BY <1>0, <1>2, <1>3 DEF Read, Tasks, files
    <2>2. disk[Target(p)] = task[p].before
      BY <1>3 DEF Read, Untouched
    <2>3. task'[p].payload.value = task[p].before.value
      BY <2>1, <2>2 DEF Current
    <2>4. CASE disk[Target(p)].format = "current"
      <3>1. pc'[p] = "apply" /\ task'[p].payload = disk[Target(p)]
        BY <1>3, <2>1, <2>4, CurrentContents DEF Read, Advance
      <3> QED
        BY <1>1, <2>1, <2>3, <3>1 DEF Untouched
    <2>5. CASE disk[Target(p)].format # "current"
      <3>1. pc'[p] = "backup"
        BY <1>3, <2>5 DEF Read, Advance
      <3> QED
        BY <1>1, <2>1, <2>2, <2>3, <3>1 DEF Untouched
    <2> QED
      BY <2>4, <2>5
  <1>4. CASE \/ BackupExists(p) \/ BeginBackup(p) \/ EndBackup(p)
             \/ OpenTemporary(p) \/ WriteTemporary(p)
    <2>1. disk' = disk /\ task'[p].payload = task[p].payload
      BY <1>0, <1>4 DEF BackupExists, BeginBackup, EndBackup, OpenTemporary,
                        WriteTemporary, Tasks, files
    <2> QED
      BY <1>1, <1>4, <2>1 DEF BackupExists, BeginBackup, EndBackup, OpenTemporary,
                              WriteTemporary, Advance, Untouched
  <1>5. CASE Replace(p)
    <2>1. disk'[Target(p)] = task[p].payload
      BY <1>2, <1>5 DEF Replace, Prepared
    <2>2. task'[p].payload = task[p].payload
      BY <1>0, <1>5 DEF Replace, Return, Tasks
    <2>3. CASE task[p].kind = "save"
      <3>1. pc'[p] = "idle" /\ outcome'[p] = "ok"
        BY <1>5, <2>3 DEF Replace, Return
      <3> QED
        BY <2>1, <2>3, <3>1 DEF Untouched, Reported
    <2>4. CASE task[p].kind # "save"
      <3>1. pc'[p] = "apply" /\ task[p].payload.value = task[p].before.value
        BY <1>0, <1>5, <2>4 DEF Replace, Advance, Underway, Untouched
      <3> QED
        BY <1>1, <2>1, <2>2, <3>1 DEF Untouched
    <2> QED
      BY <2>3, <2>4
  <1>6. CASE BackupFails(p) \/ Fail(p)
    <2>1. /\ disk' = disk /\ pc'[p] = "idle" /\ outcome'[p] = "failed"
          /\ pc[p] \in {"copy", "read", "backup", "open", "write", "replace"}
      BY <1>6 DEF BackupFails, Fail, Return, files
    <2>2. disk[Target(p)] = task[p].before /\ task[p].kind # "delete"
      BY <1>0, <2>1 DEF Untouched, Underway
    <2> QED
      BY <2>1, <2>2 DEF Untouched, Reported
  <1>7. CASE Apply(p)
    <2>1. disk' = disk /\ pc'[p] = "idle" /\ outcome'[p] = "ok" /\ task[p].kind = "load"
      BY <1>0, <1>7 DEF Apply, Return, Underway
    <2>2. disk[Target(p)] = task[p].payload
          /\ task[p].payload.value = task[p].before.value
      BY <1>7 DEF Apply, Untouched
    <2> QED
      BY <2>1, <2>2 DEF Untouched, Reported
  <1>8. CASE Undesignate(p)
    <2>1. /\ pc'[p] = "idle" /\ task[p].kind = "delete" /\ disk' = disk
          /\ disk[Target(p)] = Absent
      BY <1>0, <1>8 DEF Undesignate, Return, Underway, Untouched
    <2>2. CASE task[p].name = designated[p]
      <3>1. outcome'[p] = "ok" => prefs'.designated = NoName
        BY <1>8, <2>2 DEF Undesignate, Return, SavePreferences
      <3> QED
        BY <1>2, <2>1, <3>1, NamesAssumption DEF Untouched, Reported
    <2>3. CASE task[p].name # designated[p]
      <3>1. prefs' = prefs /\ prefs.designated = designated[p]
        BY <1>8, <2>3 DEF Undesignate, KeepPreferences, MemoryMatchesPreferences, Mine
      <3> QED
        BY <2>1, <2>3, <3>1 DEF Untouched, Reported
    <2> QED
      BY <2>2, <2>3
  <1> QED
    BY <1>3, <1>4, <1>5, <1>6, <1>7, <1>8 DEF Step

\* What else a process does begins an operation, or leaves none under way.
Begins(p, n) ==
  /\ Target(p)' = Path(p, n) /\ backup' = backup
  /\ task'[p].before = disk[Path(p, n)] /\ task'[p].former = backup[Path(p, n)]
  /\ \/ pc'[p] = "read" /\ disk' = disk
     \/ pc'[p] = "open" /\ disk' = disk /\ task'[p].kind = "save"
     \/ pc'[p] = "undesignate" /\ disk'[Path(p, n)] = Absent

Rests(p) == pc'[p] \in {"off", "idle"} /\ (pc'[p] = "idle" => pc[p] \in {"off", "idle"})

LEMMA EnterBegins ==
  ASSUME TypeOK, NEW p \in Processes, NEW n, NEW kind, NEW step, NEW payload,
         Enter(p, kind, n, step, payload), directory' = directory, backup' = backup,
         \/ step = "read" /\ disk' = disk
         \/ step = "open" /\ disk' = disk /\ kind = "save"
         \/ step = "undesignate" /\ disk'[Path(p, n)] = Absent
  PROVE  Begins(p, n)
  <1>1. /\ pc'[p] = step /\ task'[p].kind = kind /\ task'[p].name = n
        /\ task'[p].before = disk[Path(p, n)] /\ task'[p].former = backup[Path(p, n)]
    BY Entered
  <1>2. Target(p)' = Path(p, n)
    BY <1>1 DEF Target, Path
  <1> QED
    BY <1>1, <1>2 DEF Begins

LEMMA BeginsOrRests ==
  ASSUME IInv, OpInv, NEW p \in Processes, Moves(p), ~ Step(p)
  PROVE  (\E n \in Names : Begins(p, n)) \/ Rests(p)
  <1> USE DEF IInv
  <1>1. ASSUME NEW n \in Names, SaveConfiguration(p, n) PROVE Begins(p, n)
    BY <1>1, EnterBegins DEF SaveConfiguration, files, memory
  <1>2. ASSUME NEW n \in Names, LoadConfiguration(p, n) PROVE Begins(p, n)
    BY <1>2, EnterBegins DEF LoadConfiguration, files, memory
  <1>3. ASSUME NEW n \in Names, DeleteConfiguration(p, n) PROVE Begins(p, n)
    <2>1. Path(p, n) \in Paths
      BY PathsAreOpened
    <2>2. disk'[Path(p, n)] = Absent
      BY <1>3, <2>1 DEF DeleteConfiguration, TypeOK
    <2> QED
      BY <1>3, <2>2, EnterBegins DEF DeleteConfiguration, memory
  <1>4. CASE LoadDefaultConfigurationOnce(p)
    <2>1. CASE designated[p] = NoName
      BY <1>4, <2>1 DEF LoadDefaultConfigurationOnce, Rests
    <2>2. CASE designated[p] # NoName
      <3>1. designated[p] \in Names
        BY <2>2 DEF TypeOK
      <3>2. Begins(p, designated[p])
        BY <1>4, <2>2, EnterBegins DEF LoadDefaultConfigurationOnce, files
      <3> QED
        BY <3>1, <3>2
    <2> QED
      BY <2>1, <2>2
  <1>5. CASE \/ \E n \in Names \cup {NoName} : SetDefaultConfiguration(p, n)
             \/ \E d \in Directories : SetConfigurationDirectory(p, d)
             \/ \E v \in Values : ChangeSettings(p, v)
             \/ Refuse(p) \/ Start(p) \/ Crash(p)
    BY <1>5 DEF SetDefaultConfiguration, SetConfigurationDirectory, ChangePreferences,
                ChangeSettings, Refuse, Start, Crash, ReturnAtOnce, Advance, Rests, TypeOK
  <1> QED
    BY <1>1, <1>2, <1>3, <1>4, <1>5 DEF Moves

LEMMA MoveReports ==
  ASSUME IInv, OpInv, MemoryMatchesPreferences, NEW p \in Processes, Untouched(p), Moves(p)
  PROVE  /\ Untouched(p)'
         /\ pc[p] \notin {"off", "idle"} /\ pc'[p] = "idle" => Reported(p)
  <1>1. CASE Step(p)
    BY <1>1, StepReports
  <1>2. CASE \E n \in Names : Begins(p, n)
    BY <1>2 DEF Begins, Untouched
  <1>3. CASE Rests(p)
    BY <1>3 DEF Rests, Untouched
  <1> QED
    BY <1>1, <1>2, <1>3, BeginsOrRests

\* What an operation of a lone process reports is what it did to the file, though the
\* process may crash at any step, any step may fail, and files come and go between
\* operations.
THEOREM OutcomesHold ==
  ASSUME OneProcess
  PROVE  Spec => OutcomesAreTrue
  <1> DEFINE Alone == MemoryMatchesPreferences /\ \A p \in Processes : Untouched(p)
  <1>0. /\ Init => MemoryMatchesPreferences
        /\ IInv /\ MemoryMatchesPreferences /\ [Next]_vars => MemoryMatchesPreferences'
    BY OneProcess, MemoryKept
  <1>1. Init => Alone
    BY <1>0 DEF Init, Untouched
  <1>2. IInv /\ OpInv /\ Alone /\ [Next]_vars => Alone'
    <2> SUFFICES ASSUME IInv, OpInv, Alone, [Next]_vars PROVE \A p \in Processes : Untouched(p)'
      BY <1>0
    <2>1. ASSUME NEW p \in Processes, Moves(p) PROVE \A q \in Processes : Untouched(q)'
      BY <2>1, OneProcess, MoveReports DEF OneProcess
    <2>2. ASSUME NEW path \in Paths, NEW content \in UserContents, Deliver(path, content)
          PROVE  \A q \in Processes : Untouched(q)'
      BY <2>2 DEF Deliver, Untouched
    <2>3. CASE UNCHANGED vars
      BY <2>3 DEF vars, files, memory, Untouched, Target, Path
    <2> QED
      BY <2>1, <2>2, <2>3, NextIsAMove
  <1>3. IInv /\ OpInv /\ Alone /\ [Next]_vars =>
          [\A p \in Processes :
             pc[p] \notin {"off", "idle"} /\ pc'[p] = "idle" => Reported(p)]_vars
    <2> SUFFICES ASSUME IInv, OpInv, Alone, Next, NEW q \in Processes,
                        pc[q] \notin {"off", "idle"}, pc'[q] = "idle"
                 PROVE  Reported(q)
      OBVIOUS
    <2>1. ASSUME NEW p \in Processes, Moves(p) PROVE Reported(q)
      BY <2>1, OneProcess, MoveReports DEF OneProcess
    <2>2. ~ \E path \in Paths, content \in UserContents : Deliver(path, content)
      BY DEF Deliver
    <2> QED
      BY <2>1, <2>2, NextIsAMove
  <1>4. [\A p \in Processes :
           pc[p] \notin {"off", "idle"} /\ pc'[p] = "idle" => Reported(p)]_vars =>
        [\A p \in Processes :
           LET file == disk'[Target(p)]
               ok == outcome'[p] = "ok"
               kind == task[p].kind
           IN
           pc[p] \notin {"off", "idle"} /\ pc'[p] = "idle" =>
             /\ ~ok /\ kind # "delete" => file = task[p].before
             /\ ok /\ kind # "delete" => file = task[p].payload
             /\ ok /\ kind = "load" => file.value = task[p].before.value
             /\ ok /\ kind = "delete" =>
                  file = Absent /\ prefs'.designated # task[p].name]_vars
    BY DEF Reported
  <1> QED
    BY <1>1, <1>2, <1>3, <1>4, OpInvHolds, PTL DEF Spec, OutcomesAreTrue

-----------------------------------------------------------------------------
(* The backups an upgrade leaves.                                          *)

\* What a load of p has met and what it has kept of it.
Backed(p) ==
  LET met == task[p].former[task[p].format]
      kept == backup[Target(p)][task[p].format]
  IN
  /\ pc[p] \in {"read", "backup"} => task[p].former = backup[Target(p)]
  /\ pc[p] = "copy" => met.format = "absent"
  /\ pc[p] \in {"open", "write", "replace"} /\ task[p].kind = "load" =>
       kept = IF met.format = "absent" THEN disk[Target(p)] ELSE met

LEMMA StepKeepsBacked ==
  ASSUME IInv, OpInv, NEW p \in Processes, Backed(p), Step(p)
  PROVE  Backed(p)'
  <1> USE DEF IInv, TypeOK
  <1>0. task[p] \in Tasks /\ Underway(p)
    BY DEF OpInv
  <1>1. /\ Target(p)' = Target(p) /\ task'[p].kind = task[p].kind
        /\ task'[p].former = task[p].former
    BY TargetKept DEF Target, Path
  <1>2. CASE Read(p)
    BY <1>0, <1>1, <1>2 DEF Read, Advance, Backed, files
  <1>3. CASE BackupExists(p)
    <2>1. /\ pc[p] = "backup" /\ pc'[p] = "open" /\ backup' = backup /\ disk' = disk
          /\ task' = task /\ backup[Target(p)][task[p].format].format # "absent"
      BY <1>3 DEF BackupExists, Advance, files
    <2> QED
      BY <1>1, <2>1 DEF Backed
  <1>4. CASE BeginBackup(p)
    <2>1. /\ pc[p] = "backup" /\ pc'[p] = "copy" /\ task' = task
          /\ backup[Target(p)][task[p].format].format = "absent"
      BY <1>4 DEF BeginBackup, Advance
    <2> QED
      BY <1>1, <2>1 DEF Backed
  <1>5. CASE EndBackup(p)
    <2>1. /\ pc[p] = "copy" /\ pc'[p] = "open" /\ task' = task /\ disk' = disk
          /\ backup' = [backup EXCEPT ![Target(p)][task[p].format] = disk[Target(p)]]
      BY <1>5 DEF EndBackup, Advance
    <2>2. Target(p) \in Paths /\ task[p].format \in OldFormats
      BY <2>1, PathsAreOpened DEF Prepared, Target
    <2>3. backup'[Target(p)][task[p].format] = disk[Target(p)]
      BY <2>1, <2>2
    <2> QED
      BY <1>1, <2>1, <2>3 DEF Backed
  <1>6. CASE OpenTemporary(p) \/ WriteTemporary(p)
    <2>1. /\ pc[p] \in {"open", "write"} /\ pc'[p] \in {"write", "replace"}
          /\ backup' = backup /\ disk' = disk /\ task'[p].format = task[p].format
      BY <1>0, <1>6 DEF OpenTemporary, WriteTemporary, Advance, files, Tasks
    <2> QED
      BY <1>1, <2>1 DEF Backed
  <1>7. CASE BackupFails(p) \/ Replace(p) \/ Fail(p) \/ Apply(p) \/ Undesignate(p)
    <2>1. pc'[p] \in {"idle", "apply"}
      BY <1>7 DEF BackupFails, Replace, Fail, Apply, Undesignate, Return, Advance
    <2> QED
      BY <2>1 DEF Backed
  <1> QED
    BY <1>2, <1>3, <1>4, <1>5, <1>6, <1>7 DEF Step

LEMMA MoveKeepsBacked ==
  ASSUME IInv, OpInv, NEW p \in Processes, Backed(p), Moves(p)
  PROVE  Backed(p)'
  <1>1. CASE Step(p)
    BY <1>1, StepKeepsBacked
  <1>2. CASE \E n \in Names : Begins(p, n)
    BY <1>2 DEF Begins, Backed
  <1>3. CASE Rests(p)
    BY <1>3 DEF Rests, Backed
  <1> QED
    BY <1>1, <1>2, <1>3, BeginsOrRests

\* When an upgrade of a lone process replaces a file, its backup is that very file, or the
\* one, whole or half, that was there before the load began: through crashes at any step,
\* failures, and files brought in under a name that was upgraded before.
THEOREM UpgradesBackUp ==
  ASSUME OneProcess
  PROVE  Spec => UpgradesAreBackedUp
  <1> DEFINE AllBacked == \A p \in Processes : Backed(p)
  <1>1. Init => AllBacked
    BY DEF Init, Backed
  <1>2. IInv /\ OpInv /\ AllBacked /\ [Next]_vars => AllBacked'
    <2> SUFFICES ASSUME IInv, OpInv, AllBacked, [Next]_vars PROVE AllBacked'
      OBVIOUS
    <2>1. ASSUME NEW p \in Processes, Moves(p) PROVE AllBacked'
      BY <2>1, OneProcess, MoveKeepsBacked DEF OneProcess
    <2>2. ASSUME NEW path \in Paths, NEW content \in UserContents, Deliver(path, content)
          PROVE  AllBacked'
      BY <2>2 DEF Deliver, Backed
    <2>3. CASE UNCHANGED vars
      BY <2>3 DEF vars, files, memory, Backed, Target, Path
    <2> QED
      BY <2>1, <2>2, <2>3, NextIsAMove
  <1>3. AllBacked =>
          [\A p \in Processes :
             LET met == task[p].former[task[p].format]
                 kept == backup[Target(p)][task[p].format]
             IN
             Replace(p) /\ task[p].kind = "load" =>
               kept = IF met.format = "absent" THEN disk[Target(p)] ELSE met]_vars
    BY DEF Backed, Replace
  <1> QED
    BY <1>1, <1>2, <1>3, OpInvHolds, PTL DEF Spec, UpgradesAreBackedUp

\* Any number of processes: at most one fills a backup, and it is half until it is full.
Filling(p, path, f) == pc[p] = "copy" /\ Target(p) = path /\ task[p].format = f

CopyInv ==
  \A p \in Processes, path \in Paths, f \in OldFormats :
    Filling(p, path, f) =>
      /\ backup[path][f].format = "torn"
      /\ \A q \in Processes : Filling(q, path, f) => q = p

\* The steps that change a backup.
LEMMA BackupChanged ==
  ASSUME IInv, OpInv, NEW p \in Processes, Moves(p)
  PROVE  \/ backup' = backup /\ pc'[p] # "copy"
         \/ /\ BeginBackup(p)
            /\ backup' = [backup EXCEPT ![Target(p)][task[p].format] = Torn]
         \/ /\ pc[p] = "copy" /\ pc'[p] # "copy"
            /\ \E content :
                 backup' = [backup EXCEPT ![Target(p)][task[p].format] = content]
  <1> USE DEF IInv, TypeOK
  <1>1. CASE Step(p)
    <2>1. CASE BeginBackup(p) \/ EndBackup(p) \/ BackupFails(p)
      BY <2>1 DEF BeginBackup, EndBackup, BackupFails, Advance, Return
    <2>2. CASE \/ Read(p) \/ BackupExists(p) \/ OpenTemporary(p) \/ WriteTemporary(p)
               \/ Replace(p) \/ Fail(p) \/ Apply(p) \/ Undesignate(p)
      BY <2>2 DEF Read, BackupExists, OpenTemporary, WriteTemporary, Replace, Fail, Apply,
                  Undesignate, Advance, Return, files
    <2> QED
      BY <1>1, <2>1, <2>2 DEF Step
  <1>2. CASE ~ Step(p)
    <2>1. backup' = backup
      BY <1>2 DEF Moves, SaveConfiguration, LoadConfiguration, DeleteConfiguration,
                  SetDefaultConfiguration, SetConfigurationDirectory, ChangePreferences,
                  ChangeSettings, LoadDefaultConfigurationOnce, Refuse, Start, Crash, files
    <2>2. pc'[p] # "copy"
      BY <1>2, BeginsOrRests DEF Begins, Rests
    <2> QED
      BY <2>1, <2>2
  <1> QED
    BY <1>1, <1>2

\* What another process fills stays what it was, and is another backup.
LEMMA OtherFills ==
  ASSUME IInv, NEW p \in Processes, Moves(p), NEW q \in Processes, q # p,
         NEW path \in Paths, NEW f \in OldFormats
  PROVE  Filling(q, path, f)' <=> Filling(q, path, f)
  BY OthersUnchanged DEF IInv, Filling, Target, Path

LEMMA MoveKeepsCopies ==
  ASSUME IInv, OpInv, CopyInv, NEW p \in Processes, Moves(p)
  PROVE  /\ CopyInv'
         /\ \A path \in Paths, f \in OldFormats :
              backup[path][f].format \notin {"absent", "torn"} =>
                backup'[path][f] = backup[path][f]
  <1> USE DEF IInv, TypeOK
  <1>1. CASE backup' = backup /\ pc'[p] # "copy"
    <2>1. \A path \in Paths, f \in OldFormats : ~ Filling(p, path, f)'
      BY <1>1 DEF Filling
    <2>2. ASSUME NEW r \in Processes, NEW path \in Paths, NEW f \in OldFormats,
                 Filling(r, path, f)'
          PROVE  /\ backup'[path][f].format = "torn"
                 /\ \A q \in Processes : Filling(q, path, f)' => q = r
      <3>1. r # p /\ Filling(r, path, f)
        BY <2>1, <2>2, OtherFills
      <3> QED
        BY SMTT(30), <1>1, <2>1, <3>1, OtherFills DEF CopyInv
    <2> QED
      BY <1>1, <2>2 DEF CopyInv
  <1>2. CASE /\ BeginBackup(p)
             /\ backup' = [backup EXCEPT ![Target(p)][task[p].format] = Torn]
    <2>1. /\ pc[p] = "backup" /\ pc'[p] = "copy" /\ task' = task /\ directory' = directory
          /\ backup[Target(p)][task[p].format].format = "absent"
      BY <1>2 DEF BeginBackup, Advance, memory
    <2>2. Target(p) \in Paths /\ task[p].format \in OldFormats /\ Target(p)' = Target(p)
      BY <2>1, PathsAreOpened DEF Prepared, Target, Path
    <2>3. backup'[Target(p)][task[p].format] = Torn
      BY <1>2, <2>2
    <2>4. \A path \in Paths, f \in OldFormats :
            path # Target(p) \/ f # task[p].format => backup'[path][f] = backup[path][f]
      BY <1>2, <2>2
    <2>5. \A q \in Processes : ~ Filling(q, Target(p), task[p].format)
      BY <2>1, <2>2 DEF CopyInv
    <2>6. \A path \in Paths, f \in OldFormats :
            Filling(p, path, f)' => path = Target(p) /\ f = task[p].format
      BY <2>1, <2>2 DEF Filling
    <2>7. CopyInv'
      <3> SUFFICES ASSUME NEW r \in Processes, NEW path \in Paths, NEW f \in OldFormats,
                          Filling(r, path, f)'
                   PROVE  /\ backup'[path][f].format = "torn"
                          /\ \A q \in Processes : Filling(q, path, f)' => q = r
        BY DEF CopyInv
      <3>1. CASE r = p
        BY <2>2, <2>3, <2>5, <2>6, <3>1, OtherFills DEF Torn
      <3>2. CASE r # p
        <4>1. Filling(r, path, f) /\ (path # Target(p) \/ f # task[p].format)
          BY <2>5, <3>2, OtherFills
        <4> QED
          BY SMTT(30), <2>4, <2>6, <4>1, OtherFills DEF CopyInv
      <3> QED
        BY <3>1, <3>2
    <2> QED
      BY <2>1, <2>2, <2>4, <2>7
  <1>3. CASE /\ pc[p] = "copy" /\ pc'[p] # "copy"
             /\ \E content :
                  backup' = [backup EXCEPT ![Target(p)][task[p].format] = content]
    <2>1. Target(p) \in Paths /\ task[p].format \in OldFormats
      BY <1>3, PathsAreOpened DEF Prepared, Target
    <2>2. \A path \in Paths, f \in OldFormats :
            path # Target(p) \/ f # task[p].format => backup'[path][f] = backup[path][f]
      BY <1>3, <2>1
    <2>3. /\ backup[Target(p)][task[p].format].format = "torn"
          /\ \A q \in Processes : Filling(q, Target(p), task[p].format) => q = p
      BY <1>3, <2>1 DEF CopyInv, Filling
    <2>4. \A path \in Paths, f \in OldFormats : ~ Filling(p, path, f)'
      BY <1>3 DEF Filling
    <2>5. CopyInv'
      <3> SUFFICES ASSUME NEW r \in Processes, NEW path \in Paths, NEW f \in OldFormats,
                          Filling(r, path, f)'
                   PROVE  /\ backup'[path][f].format = "torn"
                          /\ \A q \in Processes : Filling(q, path, f)' => q = r
        BY DEF CopyInv
      <3>1. r # p /\ Filling(r, path, f)
        BY <2>4, OtherFills
      <3>2. path # Target(p) \/ f # task[p].format
        BY <2>3, <3>1
      <3> QED
        BY SMTT(30), <2>2, <2>4, <3>1, <3>2, OtherFills DEF CopyInv
    <2> QED
      BY <2>2, <2>3, <2>5
  <1> QED
    BY <1>1, <1>2, <1>3, BackupChanged

\* However many processes run, crash and fail, and whatever files are brought in: a backup
\* that was copied to its end is never made anew.
THEOREM BackupsStay == Spec => BackupsAreKept
  <1>1. Init => CopyInv
    BY DEF Init, CopyInv, Filling
  <1>2. IInv /\ OpInv /\ CopyInv /\ [Next]_vars =>
          /\ CopyInv'
          /\ \A path \in Paths, f \in OldFormats :
               backup[path][f].format \notin {"absent", "torn"} =>
                 backup'[path][f] = backup[path][f]
    <2> SUFFICES ASSUME IInv, OpInv, CopyInv, [Next]_vars
                 PROVE  /\ CopyInv'
                        /\ \A path \in Paths, f \in OldFormats :
                             backup[path][f].format \notin {"absent", "torn"} =>
                               backup'[path][f] = backup[path][f]
      OBVIOUS
    <2>1. CASE \E p \in Processes : Moves(p)
      BY <2>1, MoveKeepsCopies
    <2>2. ASSUME \/ \E path \in Paths, content \in UserContents : Deliver(path, content)
                 \/ UNCHANGED vars
          PROVE  UNCHANGED <<backup, pc, task, directory>>
      BY <2>2 DEF Deliver, vars, files, memory
    <2>3. CASE UNCHANGED <<backup, pc, task, directory>>
      BY <2>3 DEF CopyInv, Filling, Target, Path
    <2> QED
      BY <2>1, <2>2, <2>3, NextIsAMove
  <1>3. IInv /\ OpInv /\ CopyInv /\ [Next]_vars =>
          [\A path \in Paths, f \in OldFormats :
             backup[path][f].format \notin {"absent", "torn"} =>
               backup'[path][f] = backup[path][f]]_vars
    BY <1>2
  <1> QED
    BY <1>1, <1>2, <1>3, OpInvHolds, PTL DEF Spec, BackupsAreKept
=============================================================================
