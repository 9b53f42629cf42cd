--------------------------- MODULE FeatureRegistry ---------------------------
(***************************************************************************)
(* trainer/src/bridge/lua_feature_registry.cpp: how a Lua script on the    *)
(* game's thread reads and writes the trainer's settings, which belong to  *)
(* the render thread.                                                      *)
(*                                                                         *)
(* A write is checked against the snapshot and queued; one frame later the *)
(* render thread takes the whole queue, serves it write by write and then  *)
(* publishes a new snapshot.  Only the queue and the snapshot are shared,  *)
(* under a lock: an action of the model is one critical section, or what   *)
(* the render thread does between two of them.                             *)
(***************************************************************************)
EXTENDS Integers, Sequences, SequenceTheorems, TLAPS

CONSTANTS
  Paths,             \* the features
  LowPath, HighPath, \* two of them: a preset's minimum and maximum damage
  Gated,             \* those that are available in some sessions only
  Values,            \* what a setting can hold and a script ask for
  Minimum, Maximum,  \* Minimum[p], Maximum[p]: the range of p's descriptor
  Initial,           \* Initial[p]: the setting of p at the start
  MaxWrites          \* bound: writes the scripts make

ASSUME PathsAssumption ==
  /\ LowPath \in Paths /\ HighPath \in Paths /\ LowPath # HighPath
  /\ Gated \subseteq Paths
ASSUME ValuesAssumption ==
  /\ Values \subseteq Int
  /\ Minimum \in [Paths -> Values] /\ Maximum \in [Paths -> Values]
  /\ Initial \in [Paths -> Values] /\ Initial[LowPath] <= Initial[HighPath]

VARIABLES
  setting,    \* setting[p]: the value in effect
  available,  \* the gated features the session allows
  pending,    \* g_pending_writes
  taken,      \* the writes ApplyPendingLuaFeatureWrites has swapped out, unserved
  snapshot,   \* g_snapshot: value and availability of every feature
  ready,      \* the first snapshot has been published
  pc,         \* where the render thread is in its frame
  touched,    \* the features changed on the render thread since the last snapshot
  owed,       \* owed[p]: acknowledged writes of p that were not yet served or replaced
  latest,     \* latest[p]: the value acknowledged last
  written     \* counter for the bound

frame == <<setting, available, taken, snapshot, ready, pc, touched>>
history == <<owed, latest, written>>
vars == <<frame, pending, history>>

Write == [path : Paths, value : Values]

TypeOK ==
  /\ setting \in [Paths -> Values]
  /\ available \in SUBSET Gated
  /\ pending \in Seq(Write)
  /\ taken \in Seq(Write)
  /\ snapshot \in [Paths -> [value : Values, available : BOOLEAN]]
  /\ ready \in BOOLEAN
  /\ pc \in {"rest", "serving"}
  /\ touched \in SUBSET Paths
  /\ owed \in [Paths -> 0..2]
  /\ latest \in [Paths -> Values]
  /\ written \in Nat

Available(p) == p \notin Gated \/ p \in available

\* Faulty variant of Describe: a feature that is not available is not read.
DescribeAvailable(p) ==
  [value |-> IF Available(p) THEN setting[p] ELSE snapshot[p].value,
   available |-> Available(p)]

Describe(p) == [value |-> setting[p], available |-> Available(p)]

Init ==
  /\ setting = Initial
  /\ available \in SUBSET Gated
  /\ pending = <<>>
  /\ taken = <<>>
  /\ snapshot = [p \in Paths |-> [value |-> Initial[p], available |-> FALSE]]
  /\ ready = FALSE
  /\ pc = "rest"
  /\ touched = {}
  /\ owed = [p \in Paths |-> 0]
  /\ latest = Initial
  /\ written = 0

Listed(p, writes) == \E i \in DOMAIN writes : writes[i].path = p

-----------------------------------------------------------------------------
(* The game thread.                                                        *)

\* FindLuaFeature: what a script is told of a feature.
Find(p) == [value |-> snapshot[p].value, pending |-> Listed(p, pending)]

\* A new write goes to the end of the queue; a second write of a feature replaces
\* the first one where it stands.
Enqueued(writes, p, v) ==
  IF Listed(p, writes)
    THEN [i \in DOMAIN writes |->
            IF writes[i].path = p THEN [path |-> p, value |-> v] ELSE writes[i]]
    ELSE Append(writes, [path |-> p, value |-> v])

\* QueueLuaFeatureWrite, when it answers ok.  Every refusal changes nothing.
QueueWrite(p, v) ==
  /\ ready
  /\ snapshot[p].available
  /\ written < MaxWrites
  /\ pending' = Enqueued(pending, p, v)
  /\ owed' = [owed EXCEPT ![p] = IF Listed(p, pending) THEN @ ELSE @ + 1]
  /\ latest' = [latest EXCEPT ![p] = v]
  /\ written' = written + 1
  /\ UNCHANGED frame

-----------------------------------------------------------------------------
(* The render thread.                                                      *)

Larger(v, w) == IF v < w THEN w ELSE v

\* Faulty variant of Store: the two bounds are plain settings.
StorePlainly(s, p, v) == [s EXCEPT ![p] = v]

\* What the setters and the controls of the menu do: the minimum pushes the
\* maximum up, the maximum stops at the minimum.
Store(s, p, v) ==
  IF p = LowPath THEN [s EXCEPT ![LowPath] = v, ![HighPath] = Larger(@, v)]
  ELSE IF p = HighPath THEN [s EXCEPT ![HighPath] = Larger(v, s[LowPath])]
  ELSE [s EXCEPT ![p] = v]

\* A setter clamps to the range of its descriptor; the menu's range is wider.
Clamp(p, v) ==
  IF v < Minimum[p] THEN Minimum[p] ELSE IF v > Maximum[p] THEN Maximum[p] ELSE v

\* Faulty variant of TakeWrites: not in the frames after the menu was used.
TakeWhenUntouched ==
  /\ touched = {}
  /\ pc = "rest"
  /\ pc' = "serving"
  /\ taken' = pending
  /\ pending' = <<>>
  /\ UNCHANGED <<setting, available, snapshot, ready, touched, history>>

\* The queue is swapped out under the lock,
TakeWrites ==
  /\ pc = "rest"
  /\ pc' = "serving"
  /\ taken' = pending
  /\ pending' = <<>>
  /\ UNCHANGED <<setting, available, snapshot, ready, touched, history>>

\* Faulty variant of ServeWrite: the availability was checked when it was queued.
ServeUnchecked ==
  LET write == Head(taken) IN
  /\ pc = "serving"
  /\ taken # <<>>
  /\ setting' = Store(setting, write.path, Clamp(write.path, write.value))
  /\ taken' = Tail(taken)
  /\ owed' = [owed EXCEPT ![write.path] = @ - 1]
  /\ UNCHANGED <<available, snapshot, ready, pc, touched, pending, latest, written>>

\* its writes are served one by one without it, each if its feature still is
\* available,
ServeWrite ==
  LET write == Head(taken) IN
  /\ pc = "serving"
  /\ taken # <<>>
  /\ setting' = IF Available(write.path)
                  THEN Store(setting, write.path, Clamp(write.path, write.value))
                  ELSE setting
  /\ taken' = Tail(taken)
  /\ owed' = [owed EXCEPT ![write.path] = @ - 1]
  /\ UNCHANGED <<available, snapshot, ready, pc, touched, pending, latest, written>>

\* Faulty variant of RefreshSnapshot: the queue is cleared now, and with it what
\* was written since it was taken.
RefreshAndClear ==
  /\ pc = "serving"
  /\ taken = <<>>
  /\ snapshot' = [p \in Paths |-> Describe(p)]
  /\ ready' = TRUE
  /\ touched' = {}
  /\ pc' = "rest"
  /\ pending' = <<>>
  /\ UNCHANGED <<setting, available, taken, history>>

\* and the settings, which nobody else changes, are published under it again.
RefreshSnapshot ==
  /\ pc = "serving"
  /\ taken = <<>>
  /\ snapshot' = [p \in Paths |-> Describe(p)]
  /\ ready' = TRUE
  /\ touched' = {}
  /\ pc' = "rest"
  /\ UNCHANGED <<setting, available, taken, pending, history>>

\* The rest of the frame: the user, or a configuration that is loaded, changes a
\* setting; the session changes what is available.
ChangeSetting(p, v) ==
  /\ pc = "rest"
  /\ setting' = Store(setting, p, v)
  /\ touched' = touched \cup {p} \cup (IF p = LowPath THEN {HighPath} ELSE {})
  /\ UNCHANGED <<available, taken, snapshot, ready, pc, pending, history>>

ChangeSession(allowed) ==
  /\ pc = "rest"
  /\ available' = allowed
  /\ UNCHANGED <<setting, taken, snapshot, ready, pc, touched, pending, history>>

Next ==
  \/ \E p \in Paths, v \in Values : QueueWrite(p, v) \/ ChangeSetting(p, v)
  \/ \E allowed \in SUBSET Gated : ChangeSession(allowed)
  \/ TakeWrites \/ ServeWrite \/ RefreshSnapshot

Spec == Init /\ [][Next]_vars

\* Frames keep coming.  Scripts need not write and users need not click.
FairSpec == Spec /\ WF_vars(TakeWrites) /\ WF_vars(ServeWrite) /\ WF_vars(RefreshSnapshot)

-----------------------------------------------------------------------------
(* Properties.                                                             *)

InFlight(p) == (IF Listed(p, pending) THEN 1 ELSE 0) + (IF Listed(p, taken) THEN 1 ELSE 0)

\* A write that was acknowledged to a script stays in one of the two lists until it
\* is served or replaced by a newer one, although the script's thread writes while
\* the render thread takes and serves; and the value that will be served last is the
\* one acknowledged last.
NoWriteIsLost ==
  \A p \in Paths :
    LET newest == IF Listed(p, pending) THEN pending ELSE taken IN
    /\ owed[p] = InFlight(p)
    /\ \A i \in DOMAIN newest : newest[i].path = p => newest[i].value = latest[p]

\* A script's write takes effect only in a session that allows the feature then,
\* whatever the snapshot said when it was acknowledged.
NoWriteWhileUnavailable ==
  [][taken # <<>> /\ taken' = Tail(taken) /\ setting' # setting
       => Available(Head(taken).path)]_vars

\* A preset's minimum never exceeds its maximum, in whatever order and from
\* whichever side the two are set.
PresetsStayOrdered == setting[LowPath] <= setting[HighPath]

\* Outside the frame's serving, a feature FindLuaFeature calls settled has the value
\* it shows, unless it was changed in the menu since.  (While the render thread
\* serves, a feature can be called settled and show the value before the write.)
SettledReadsAreFresh ==
  \A p \in Paths \ touched :
    ready /\ pc = "rest" /\ ~Find(p).pending => Find(p).value = setting[p]

\* Every acknowledged write is served in some frame, if the scripts do not write
\* the same feature for ever.
EveryWriteIsServed == \A p \in Paths : owed[p] > 0 ~> owed[p] = 0

-----------------------------------------------------------------------------
(* The constants of the run: a preset's two bounds, and one feature that only *)
(* some sessions allow; the menu gives the latter a value (1) that its        *)
(* descriptor's range does not have.                                          *)

MCPaths == {"low", "high", "gated"}
MCValues == 0..1
MCMinimum == [p \in MCPaths |-> 0]
MCMaximum == [p \in MCPaths |-> IF p = "gated" THEN 0 ELSE 1]
MCInitial == [p \in MCPaths |-> 0]

-----------------------------------------------------------------------------
(* The proofs, for any set of features, values and ranges, and any number of  *)
(* writes.  The key is that neither list ever holds two writes of one feature: *)
(* a new write replaces the old one in the queue, so that serving the head of  *)
(* the list serves all that was owed there.                                   *)

OnePerPath(writes) ==
  \A i, j \in DOMAIN writes : writes[i].path = writes[j].path => i = j

IInv ==
  /\ TypeOK
  /\ OnePerPath(pending)
  /\ OnePerPath(taken)
  /\ NoWriteIsLost
  /\ pc = "rest" => taken = <<>>
  /\ PresetsStayOrdered
  /\ \A p \in Paths \ touched : ready /\ pc = "rest" => snapshot[p].value = setting[p]

\* What enqueuing a write does to the queue: p is listed with the new value, every
\* other feature as it was.
LEMMA EnqueuedWrites ==
  ASSUME NEW writes \in Seq(Write), OnePerPath(writes), NEW p \in Paths, NEW v \in Values
  PROVE  LET queue == Enqueued(writes, p, v) IN
         /\ queue \in Seq(Write)
         /\ OnePerPath(queue)
         /\ \A q \in Paths : Listed(q, queue) <=> q = p \/ Listed(q, writes)
         /\ \A i \in DOMAIN queue : queue[i].path = p => queue[i].value = v
         /\ \A i \in DOMAIN queue :
              queue[i].path # p => i \in DOMAIN writes /\ queue[i] = writes[i]
  <1> DEFINE new == [path |-> p, value |-> v]
             queue == Enqueued(writes, p, v)
  <1>0. new \in Write /\ new.path = p /\ new.value = v
    BY DEF Write
  <1>00. DOMAIN writes = 1 .. Len(writes) /\ Len(writes) \in Nat
         /\ \A i \in DOMAIN writes : writes[i] \in Write
    OBVIOUS
  <1>1. CASE Listed(p, writes)
    <2> DEFINE at(i) == IF writes[i].path = p THEN new ELSE writes[i]
    <2>1. queue = [i \in DOMAIN writes |-> at(i)]
      BY <1>1 DEF Enqueued
    <2>2. DOMAIN queue = DOMAIN writes /\ \A i \in DOMAIN writes : queue[i] = at(i)
      BY <2>1
    <2> HIDE DEF queue
    <2>3. \A i \in DOMAIN writes : queue[i] \in Write /\ queue[i].path = writes[i].path
      BY <2>2, <1>0, <1>00
    <2>4. queue \in [1 .. Len(writes) -> Write]
      BY <2>1, <2>3, <1>00
    <2>5. queue \in Seq(Write)
      BY <2>4, <1>00, SeqDef
    <2>6. OnePerPath(queue)
      BY <2>2, <2>3 DEF OnePerPath
    <2>7. \A q \in Paths : Listed(q, queue) <=> q = p \/ Listed(q, writes)
      BY <2>2, <2>3, <1>1 DEF Listed
    <2> QED
      BY <2>2, <2>5, <2>6, <2>7, <1>0 DEF queue
  <1>2. CASE ~Listed(p, writes)
    <2>1. queue = Append(writes, new)
      BY <1>2 DEF Enqueued
    <2>2. /\ queue \in Seq(Write)
          /\ DOMAIN queue = 1 .. (Len(writes) + 1)
          /\ \A i \in DOMAIN writes : queue[i] = writes[i]
          /\ queue[Len(writes) + 1] = new
      BY <2>1, <1>0, <1>00
    <2> HIDE DEF queue
    <2>3. \A i \in DOMAIN queue : i \in DOMAIN writes \/ i = Len(writes) + 1
      BY <2>2, <1>00
    <2>4. \A i \in DOMAIN writes : writes[i].path # p
      BY <1>2 DEF Listed
    <2>5. OnePerPath(queue)
      BY <2>2, <2>3, <2>4, <1>0 DEF OnePerPath
    <2>6. \A q \in Paths : Listed(q, queue) <=> q = p \/ Listed(q, writes)
      BY <2>2, <2>3, <1>0, <1>00 DEF Listed
    <2> QED
      BY <2>2, <2>3, <2>4, <2>5, <2>6, <1>0 DEF queue
  <1> QED
    BY <1>1, <1>2

\* What serving the head of the list leaves of it.
LEMMA ServedWrites ==
  ASSUME NEW writes \in Seq(Write), OnePerPath(writes), writes # <<>>
  PROVE  LET rest == Tail(writes) IN
         /\ rest \in Seq(Write)
         /\ Head(writes) \in Write
         /\ OnePerPath(rest)
         /\ Listed(Head(writes).path, writes)
         /\ \A q \in Paths : Listed(q, rest) <=> q # Head(writes).path /\ Listed(q, writes)
         /\ \A i \in DOMAIN rest : i + 1 \in DOMAIN writes /\ rest[i] = writes[i + 1]
  <1> DEFINE rest == Tail(writes)
  <1>1. Len(writes) \in Nat \ {0} /\ DOMAIN writes = 1 .. Len(writes)
    OBVIOUS
  <1>2. rest \in Seq(Write) /\ DOMAIN rest = 1 .. (Len(writes) - 1)
        /\ Head(writes) = writes[1] /\ Head(writes) \in Write
    BY <1>1
  <1>3. \A i \in DOMAIN rest : i + 1 \in DOMAIN writes /\ rest[i] = writes[i + 1] /\ i \in Nat
    BY <1>1, <1>2
  <1>4. \A j \in DOMAIN writes : j = 1 \/ (j - 1 \in DOMAIN rest /\ rest[j - 1] = writes[j])
    BY <1>1, <1>2, <1>3
  <1> HIDE DEF rest
  <1>5. OnePerPath(rest)
    <2> SUFFICES ASSUME NEW i \in DOMAIN rest, NEW j \in DOMAIN rest,
                        rest[i].path = rest[j].path
                 PROVE  i = j
      BY DEF OnePerPath
    <2>1. i + 1 = j + 1
      BY <1>3 DEF OnePerPath
    <2> QED
      BY <2>1, <1>3
  <1>6. Listed(Head(writes).path, writes)
    BY <1>1, <1>2 DEF Listed
  <1>7. \A q \in Paths : Listed(q, rest) <=> q # Head(writes).path /\ Listed(q, writes)
    <2> TAKE q \in Paths
    <2>1. ASSUME Listed(q, rest) PROVE q # Head(writes).path /\ Listed(q, writes)
      <3>1. PICK i \in DOMAIN rest : rest[i].path = q
        BY <2>1 DEF Listed
      <3>2. i + 1 \in DOMAIN writes /\ writes[i + 1].path = q /\ i + 1 # 1 /\ 1 \in DOMAIN writes
        BY <3>1, <1>1, <1>2, <1>3
      <3> QED
        BY <3>2, <1>2 DEF Listed, OnePerPath
    <2>2. ASSUME q # Head(writes).path, Listed(q, writes) PROVE Listed(q, rest)
      <3>1. PICK j \in DOMAIN writes : writes[j].path = q
        BY <2>2 DEF Listed
      <3> QED
        BY <3>1, <2>2, <1>2, <1>4 DEF Listed
    <2> QED
      BY <2>1, <2>2
  <1> QED
    BY <1>2, <1>3, <1>5, <1>6, <1>7 DEF rest

LEMMA InitIInv == Init => IInv
  <1> SUFFICES ASSUME Init PROVE IInv
    OBVIOUS
  <1>1. <<>> \in Seq(Write) /\ DOMAIN <<>> = {}
    OBVIOUS
  <1>2. TypeOK
    <2>1. /\ [p \in Paths |-> 0] \in [Paths -> 0 .. 2]
          /\ [p \in Paths |-> [value |-> Initial[p], available |-> FALSE]]
               \in [Paths -> [value : Values, available : BOOLEAN]]
      BY ValuesAssumption
    <2>2. /\ Initial \in [Paths -> Values]
          /\ pending \in Seq(Write) /\ taken \in Seq(Write)
      BY <1>1, ValuesAssumption DEF Init
    <2> QED
      BY <2>1, <2>2 DEF Init, TypeOK
  <1>3. OnePerPath(pending) /\ OnePerPath(taken)
    BY <1>1 DEF Init, OnePerPath
  <1>4. NoWriteIsLost
    <2>1. \A p \in Paths : ~Listed(p, pending) /\ ~Listed(p, taken)
      BY <1>1 DEF Init, Listed
    <2>2. DOMAIN taken = {} /\ \A p \in Paths : owed[p] = 0
      BY <1>1 DEF Init
    <2>3. \A p \in Paths : owed[p] = InFlight(p)
      <3> TAKE p \in Paths
      <3>1. ~Listed(p, pending) /\ ~Listed(p, taken)
        BY <2>1
      <3>2. InFlight(p) = 0 + 0
        BY <3>1, Zenon DEF InFlight
      <3> QED
        BY <2>2, <3>2
    <2>4. \A p \in Paths :
            (IF Listed(p, pending) THEN pending ELSE taken) = taken
      BY <2>1
    <2> QED
      BY <2>2, <2>3, <2>4 DEF NoWriteIsLost
  <1>5. PresetsStayOrdered
    BY ValuesAssumption DEF Init, PresetsStayOrdered
  <1>6. pc = "rest" => taken = <<>>
    BY DEF Init
  <1>7. \A p \in Paths \ touched : ready /\ pc = "rest" => snapshot[p].value = setting[p]
    BY DEF Init
  <1> QED
    BY <1>2, <1>3, <1>4, <1>5, <1>6, <1>7 DEF IInv

\* The setters keep the settings in their type and a preset's bounds in order.
LEMMA StoreKeepsOrder ==
  ASSUME NEW s \in [Paths -> Values], NEW p \in Paths, NEW v \in Values,
         s[LowPath] <= s[HighPath]
  PROVE  /\ Store(s, p, v) \in [Paths -> Values]
         /\ Store(s, p, v)[LowPath] <= Store(s, p, v)[HighPath]
         /\ \A q \in Paths : q # p /\ (p = LowPath => q # HighPath)
                               => Store(s, p, v)[q] = s[q]
  <1>1. v \in Int /\ s[LowPath] \in Int /\ s[HighPath] \in Int
        /\ LowPath \in Paths /\ HighPath \in Paths /\ LowPath # HighPath
    BY PathsAssumption, ValuesAssumption
  <1>2. CASE p = LowPath
    BY <1>1, <1>2 DEF Store, Larger
  <1>3. CASE p = HighPath
    BY <1>1, <1>3 DEF Store, Larger
  <1>4. CASE p # LowPath /\ p # HighPath
    BY <1>1, <1>4 DEF Store
  <1> QED
    BY <1>2, <1>3, <1>4

LEMMA ClampedIsAValue ==
  ASSUME NEW p \in Paths, NEW v \in Values
  PROVE  Clamp(p, v) \in Values
  BY ValuesAssumption DEF Clamp

\* Every step of the system preserves the invariant.
LEMMA StepKeepsIInv == IInv /\ [Next]_vars => IInv'
  <1> SUFFICES ASSUME IInv, [Next]_vars PROVE IInv'
    OBVIOUS
  <1> USE DEF IInv
  <1>1. ASSUME NEW p \in Paths, NEW v \in Values, QueueWrite(p, v) PROVE IInv'
    <2>1. pending' = Enqueued(pending, p, v) /\ pending \in Seq(Write) /\ UNCHANGED frame
      BY <1>1 DEF QueueWrite, TypeOK
    <2>2. /\ pending' \in Seq(Write)
          /\ OnePerPath(pending')
          /\ \A q \in Paths : Listed(q, pending') <=> q = p \/ Listed(q, pending)
          /\ \A i \in DOMAIN pending' : pending'[i].path = p => pending'[i].value = v
          /\ \A i \in DOMAIN pending' :
               pending'[i].path # p => i \in DOMAIN pending /\ pending'[i] = pending[i]
      BY <2>1, EnqueuedWrites
    <2>3. owed[p] = InFlight(p)
      BY DEF NoWriteIsLost
    <2>4. owed' \in [Paths -> 0 .. 2]
      BY <1>1, <2>3 DEF QueueWrite, TypeOK, InFlight
    <2>5. NoWriteIsLost'
      <3> SUFFICES ASSUME NEW q \in Paths
                   PROVE  /\ owed'[q] = InFlight(q)'
                          /\ \A i \in DOMAIN (IF Listed(q, pending') THEN pending' ELSE taken') :
                               (IF Listed(q, pending') THEN pending' ELSE taken')[i].path = q
                                 => (IF Listed(q, pending') THEN pending' ELSE taken')[i].value
                                      = latest'[q]
        BY DEF NoWriteIsLost
      <3>1. taken' = taken /\ latest' = [latest EXCEPT ![p] = v]
        BY <1>1 DEF QueueWrite, frame
      <3>2. CASE q = p
        BY <1>1, <2>2, <2>3, <3>1, <3>2 DEF QueueWrite, TypeOK, InFlight
      <3>3. CASE q # p
        <4>1. latest'[q] = latest[q] /\ owed'[q] = owed[q]
          BY <1>1, <3>1, <3>3 DEF QueueWrite, TypeOK
        <4>2. Listed(q, pending') <=> Listed(q, pending)
          BY <2>2, <3>3
        <4> QED
          BY <2>2, <3>1, <3>3, <4>1, <4>2 DEF NoWriteIsLost, InFlight
      <3> QED
        BY <3>2, <3>3
    <2> QED
      BY <1>1, <2>1, <2>2, <2>4, <2>5 DEF QueueWrite, frame, TypeOK, PresetsStayOrdered
  <1>2. CASE TakeWrites
    <2>1. /\ taken = <<>> /\ DOMAIN taken = {} /\ DOMAIN <<>> = {} /\ <<>> \in Seq(Write)
          /\ taken' = pending /\ pending' = <<>>
      BY <1>2 DEF TakeWrites
    <2>2. \A q \in Paths : ~Listed(q, taken) /\ ~Listed(q, pending')
      BY <2>1 DEF Listed
    <2>3. NoWriteIsLost'
      <3>1. UNCHANGED <<owed, latest>>
        BY <1>2 DEF TakeWrites, history
      <3>2. \A q \in Paths : InFlight(q)' = InFlight(q)
        BY <2>1, <2>2 DEF InFlight
      <3>3. \A q \in Paths : \A i \in DOMAIN pending :
              pending[i].path = q => pending[i].value = latest[q]
        BY DEF NoWriteIsLost, Listed
      <3> QED
        BY <2>1, <2>2, <3>1, <3>2, <3>3 DEF NoWriteIsLost
    <2> QED
      BY <1>2, <2>1, <2>3 DEF TakeWrites, TypeOK, OnePerPath, PresetsStayOrdered, history
  <1>3. CASE ServeWrite
    <2> DEFINE write == Head(taken)
    <2>1. taken # <<>> /\ taken \in Seq(Write) /\ taken' = Tail(taken) /\ pc = "serving"
          /\ UNCHANGED <<available, snapshot, ready, pc, touched, pending, latest, written>>
      BY <1>3 DEF ServeWrite, TypeOK
    <2>2. /\ taken' \in Seq(Write)
          /\ write \in Write
          /\ OnePerPath(taken')
          /\ Listed(write.path, taken)
          /\ \A q \in Paths : Listed(q, taken') <=> q # write.path /\ Listed(q, taken)
          /\ \A i \in DOMAIN taken' : i + 1 \in DOMAIN taken /\ taken'[i] = taken[i + 1]
      BY <2>1, ServedWrites
    <2>3. write.path \in Paths /\ write.value \in Values
      BY <2>2 DEF Write
    <2>4. setting' \in [Paths -> Values] /\ PresetsStayOrdered'
      <3>1. setting \in [Paths -> Values] /\ setting[LowPath] <= setting[HighPath]
        BY DEF TypeOK, PresetsStayOrdered
      <3> QED
        BY <1>3, <2>3, <3>1, StoreKeepsOrder, ClampedIsAValue
        DEF ServeWrite, PresetsStayOrdered
    <2>5. \A q \in Paths : owed[q] = InFlight(q)
      BY DEF NoWriteIsLost
    <2>6. owed' = [owed EXCEPT ![write.path] = owed[write.path] - 1]
      BY <1>3 DEF ServeWrite
    <2>7. owed' \in [Paths -> 0 .. 2] /\ \A q \in Paths : owed'[q] = InFlight(q)'
      <3>1. owed \in [Paths -> 0 .. 2] /\ owed[write.path] \in 1 .. 2
        BY <2>2, <2>3, <2>5 DEF InFlight, TypeOK
      <3>2. owed' \in [Paths -> 0 .. 2]
        BY <2>3, <2>6, <3>1
      <3>3. \A q \in Paths : owed'[q] = InFlight(q)'
        BY <2>1, <2>2, <2>3, <2>5, <2>6, <3>1 DEF InFlight
      <3> QED
        BY <3>2, <3>3
    <2>8. NoWriteIsLost'
      <3> SUFFICES ASSUME NEW q \in Paths
                   PROVE  \A i \in DOMAIN (IF Listed(q, pending) THEN pending ELSE taken') :
                            (IF Listed(q, pending) THEN pending ELSE taken')[i].path = q
                              => (IF Listed(q, pending) THEN pending ELSE taken')[i].value
                                   = latest[q]
        BY <2>1, <2>7 DEF NoWriteIsLost
      <3>1. CASE Listed(q, pending)
        BY <3>1 DEF NoWriteIsLost
      <3>2. CASE ~Listed(q, pending)
        BY <2>2, <3>2 DEF NoWriteIsLost
      <3> QED
        BY <3>1, <3>2
    <2> QED
      BY <2>1, <2>2, <2>4, <2>7, <2>8 DEF TypeOK
  <1>4. CASE RefreshSnapshot
    <2>1. snapshot' \in [Paths -> [value : Values, available : BOOLEAN]]
          /\ \A q \in Paths : snapshot'[q].value = setting[q]
      BY <1>4 DEF RefreshSnapshot, Describe, Available, TypeOK
    <2>2. UNCHANGED <<setting, available, taken, pending, owed, latest, written>>
          /\ ready' = TRUE /\ touched' = {} /\ pc' = "rest" /\ taken = <<>>
      BY <1>4 DEF RefreshSnapshot, history
    <2>3. NoWriteIsLost'
      BY <2>2 DEF NoWriteIsLost, InFlight
    <2> QED
      BY <2>1, <2>2, <2>3 DEF TypeOK, PresetsStayOrdered
  <1>5. ASSUME NEW p \in Paths, NEW v \in Values, ChangeSetting(p, v) PROVE IInv'
    <2>1. setting' = Store(setting, p, v)
          /\ UNCHANGED <<available, taken, snapshot, ready, pc, pending, owed, latest, written>>
      BY <1>5 DEF ChangeSetting, history
    <2>2. /\ setting' \in [Paths -> Values]
          /\ PresetsStayOrdered'
          /\ \A q \in Paths : q # p /\ (p = LowPath => q # HighPath)
                                => setting'[q] = setting[q]
      BY <2>1, StoreKeepsOrder DEF TypeOK, PresetsStayOrdered
    <2>3. touched' \in SUBSET Paths
          /\ \A q \in Paths \ touched' :
               q \notin touched /\ q # p /\ (p = LowPath => q # HighPath)
      BY <1>5, PathsAssumption DEF ChangeSetting, TypeOK
    <2>4. NoWriteIsLost'
      BY <2>1 DEF NoWriteIsLost, InFlight
    <2> QED
      BY <2>1, <2>2, <2>3, <2>4 DEF TypeOK
  <1>6. ASSUME NEW allowed \in SUBSET Gated, ChangeSession(allowed) PROVE IInv'
    <2>1. UNCHANGED <<setting, taken, snapshot, ready, pc, touched, pending, owed, latest,
                      written>>
          /\ available' \in SUBSET Gated
      BY <1>6 DEF ChangeSession, history
    <2>2. NoWriteIsLost'
      BY <2>1 DEF NoWriteIsLost, InFlight
    <2> QED
      BY <2>1, <2>2 DEF TypeOK, PresetsStayOrdered
  <1>7. CASE UNCHANGED vars
    <2>1. UNCHANGED <<setting, available, taken, snapshot, ready, pc, touched, pending, owed,
                      latest, written>>
      BY <1>7 DEF vars, frame, history
    <2>2. NoWriteIsLost'
      BY <2>1 DEF NoWriteIsLost, InFlight
    <2> QED
      BY <2>1, <2>2 DEF TypeOK, PresetsStayOrdered
  <1> QED
    BY <1>1, <1>2, <1>3, <1>4, <1>5, <1>6, <1>7 DEF Next

LEMMA IInvHolds == Spec => []IInv
  BY ZenonT(60), InitIInv, StepKeepsIInv, PTL DEF Spec

\* The state has the declared types in every reachable state.
THEOREM TypeCorrect == Spec => []TypeOK
  <1>1. IInv => TypeOK
    BY DEF IInv
  <1> QED
    BY ZenonT(60), <1>1, IInvHolds, PTL

\* No write that was acknowledged to a script is lost between the two threads.
THEOREM WritesAreKept == Spec => []NoWriteIsLost
  <1>1. IInv => NoWriteIsLost
    BY DEF IInv
  <1> QED
    BY ZenonT(60), <1>1, IInvHolds, PTL

\* A preset's bounds are in order whoever sets them.
THEOREM PresetsOrdered == Spec => []PresetsStayOrdered
  <1>1. IInv => PresetsStayOrdered
    BY DEF IInv
  <1> QED
    BY <1>1, IInvHolds, PTL

\* Between two servings, what a script reads as settled is in effect.
THEOREM SettledReads == Spec => []SettledReadsAreFresh
  <1>1. IInv => SettledReadsAreFresh
    BY DEF IInv, SettledReadsAreFresh, Find
  <1> QED
    BY <1>1, IInvHolds, PTL

\* A write takes effect only while its feature is available.
THEOREM WritesAreAllowed == Spec => NoWriteWhileUnavailable
  <1> DEFINE Allowed == taken # <<>> /\ taken' = Tail(taken) /\ setting' # setting
                          => Available(Head(taken).path)
  <1>1. IInv /\ [Next]_vars => [Allowed]_vars
    <2> SUFFICES ASSUME IInv, Next, taken # <<>>, taken' = Tail(taken), setting' # setting
                 PROVE  Available(Head(taken).path)
      BY DEF vars
    <2>1. Len(taken) \in Nat \ {0} /\ Len(taken') = Len(taken) - 1 /\ taken' # taken
      BY SMTT(30) DEF IInv, TypeOK
    <2>2. ServeWrite
      BY <2>1 DEF Next, QueueWrite, TakeWrites, RefreshSnapshot, ChangeSetting,
                  ChangeSession, frame
    <2> QED
      BY <2>2 DEF ServeWrite
  <1> QED
    BY ZenonT(60), <1>1, IInvHolds, PTL DEF Spec, NoWriteWhileUnavailable
=============================================================================
