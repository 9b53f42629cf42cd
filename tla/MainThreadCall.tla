--------------------------- MODULE MainThreadCall ---------------------------
(***************************************************************************)
(* trainer/src/bridge/main_thread_invoker.cpp: the asynchronous call from  *)
(* the render thread to the game's main thread.                            *)
(*                                                                         *)
(* A bridge (a caller) owns one AsyncObjectMethodCall, here slot[c].       *)
(* QueueObjectMethodOnMainThread fills it and starts a detached thread     *)
(* that hands the queue item to the game; the game thread runs the item;   *)
(* PollObjectMethodOnMainThread, once per frame, reads the item or gives   *)
(* up.  Resetting a slot only drops the references the trainer holds: the  *)
(* item itself is never withdrawn from the game's queue.                   *)
(*                                                                         *)
(* All callers run on the render thread, so Queue, Poll and Reset are      *)
(* atomic towards each other; the dispatch threads, the game thread and    *)
(* the clock interleave with them freely.                                  *)
(***************************************************************************)
EXTENDS TLAPS

CONSTANTS
  Callers,  \* the bridges, one AsyncObjectMethodCall each
  Items,    \* identities of the queue items ever allocated (the bound of TLC's runs)
  NoItem    \* the null reference

Nobody == "nobody"

ASSUME NoItemAssumption == NoItem \notin Items
ASSUME NobodyAssumption == Nobody \notin Callers

VARIABLES
  slot,     \* slot[c]: call.queue_item of caller c
  owner,    \* owner[i]: the caller that allocated item i, "nobody" before that
  stage,    \* stage[i]: where item i is between its allocation and its end
  overdue,  \* overdue[i]: now - call.started_at >= timeout
  verdict   \* verdict[i]: the AsyncObjectMethodState that ended the call, for the caller

vars == <<slot, owner, stage, overdue, verdict>>

Finished == {"returned", "threw"}
Stages == {"unused", "dispatching", "lost", "queued", "running"} \cup Finished
\* "faulted" is reported as Failed too, when JNI threw while the item was read.
Verdicts == {"none", "succeeded", "failed", "faulted", "timedOut", "cancelled"}

TypeOK ==
  /\ slot \in [Callers -> Items \cup {NoItem}]
  /\ owner \in [Items -> Callers \cup {Nobody}]
  /\ stage \in [Items -> Stages]
  /\ overdue \in [Items -> BOOLEAN]
  /\ verdict \in [Items -> Verdicts]

Init ==
  /\ slot = [c \in Callers |-> NoItem]
  /\ owner = [i \in Items |-> Nobody]
  /\ stage = [i \in Items |-> "unused"]
  /\ overdue = [i \in Items |-> FALSE]
  /\ verdict = [i \in Items |-> "none"]

-----------------------------------------------------------------------------
(* The render thread.                                                      *)

\* Faulty variant of Queue: the slot's open call is overwritten.
QueueOverOpenCall(c, i) ==
  /\ stage[i] = "unused"
  /\ slot' = [slot EXCEPT ![c] = i]
  /\ owner' = [owner EXCEPT ![i] = c]
  /\ stage' = [stage EXCEPT ![i] = "dispatching"]
  /\ UNCHANGED <<overdue, verdict>>

\* A free slot gets a new item and a dispatch thread.  The other exits of the
\* function (no bindings, an allocation or the thread failing) leave the slot
\* empty and no item behind, so they change nothing here.
Queue(c, i) ==
  /\ slot[c] = NoItem
  /\ stage[i] = "unused"
  /\ slot' = [slot EXCEPT ![c] = i]
  /\ owner' = [owner EXCEPT ![i] = c]
  /\ stage' = [stage EXCEPT ![i] = "dispatching"]
  /\ UNCHANGED <<overdue, verdict>>

\* ResetObjectMethodCall, with what the caller makes of the call it drops.
Reset(c, outcome) ==
  /\ slot' = [slot EXCEPT ![c] = NoItem]
  /\ verdict' = [verdict EXCEPT ![slot[c]] = outcome]
  /\ UNCHANGED <<owner, stage, overdue>>

\* Faulty variant of PollUnfinished: only an item that runs can time out.
PollRunningOnly(c) ==
  /\ stage[slot[c]] = "running"
  /\ overdue[slot[c]]
  /\ Reset(c, "timedOut")

\* The item is unfinished: Pending (no change) until the timeout has passed.
PollUnfinished(c) ==
  /\ stage[slot[c]] \notin Finished
  /\ overdue[slot[c]]
  /\ Reset(c, "timedOut")

\* Faulty variants of PollFinished: the exception is not looked at; the item's
\* stage is handed out for a state of the call.
PollFinishedUnchecked(c) == stage[slot[c]] \in Finished /\ Reset(c, "succeeded")
\* The item is finished, in time or not: its exception or its value decides.
PollFinished(c) ==
  \/ stage[slot[c]] = "threw" /\ Reset(c, "failed")
  \/ stage[slot[c]] = "returned" /\ Reset(c, "succeeded")

\* A JNI exception from isFinished, getThrown or getValue ends the call as
\* Failed, whatever the item has done or will do.
PollFaulted(c) == Reset(c, "faulted")

PollAnswered(c) == slot[c] # NoItem /\ (PollUnfinished(c) \/ PollFinished(c))

Poll(c) == PollAnswered(c) \/ (slot[c] # NoItem /\ PollFaulted(c))

\* A bridge drops its own call: the session changed, the request was given up.
Cancel(c) == slot[c] # NoItem /\ Reset(c, "cancelled")

-----------------------------------------------------------------------------
(* The dispatch threads, the game thread and the clock.                    *)

Move(i, from, to) ==
  /\ stage[i] = from
  /\ stage' = [stage EXCEPT ![i] = to]
  /\ UNCHANGED <<slot, owner, overdue, verdict>>

\* The detached thread reaches the JVM and hands the item over, in any order
\* with the other dispatch threads.
Dispatch(i) == Move(i, "dispatching", "queued")

\* It cannot attach, or the game throws: nobody is told.
LoseDispatch(i) == Move(i, "dispatching", "lost")

\* Faulty variant of Run: an item that was run stays in the queue.
RunRepeatedly(i) == Move(i, "queued", "running") \/ Move(i, "returned", "running")

\* MainThread takes an item and runs it: Expression.getValue, once.
Run(i) == Move(i, "queued", "running")
Finish(i) == Move(i, "running", "returned") \/ Move(i, "running", "threw")

\* The timeout of an open call passes.
Elapse(i) ==
  /\ stage[i] # "unused"
  /\ verdict[i] = "none"
  /\ ~overdue[i]
  /\ overdue' = [overdue EXCEPT ![i] = TRUE]
  /\ UNCHANGED <<slot, owner, stage, verdict>>

Next ==
  \/ \E c \in Callers, i \in Items : Queue(c, i)
  \/ \E c \in Callers : Poll(c) \/ Cancel(c)
  \/ \E i \in Items : Dispatch(i) \/ LoseDispatch(i) \/ Run(i) \/ Finish(i) \/ Elapse(i)

Spec == Init /\ [][Next]_vars

\* Frames keep coming, so the bridges keep polling, and so does the time.  Nothing
\* is assumed of the dispatch threads or of the game thread, which a menu or a
\* loading screen may stop, and no call is counted on to end by a JNI fault.
FairSpec ==
  /\ Spec
  /\ \A c \in Callers : WF_vars(PollAnswered(c))
  /\ \A i \in Items : WF_vars(Elapse(i))

-----------------------------------------------------------------------------
(* Properties.                                                             *)

\* The calls a caller is still owed a verdict on are exactly the one its slot
\* holds: no live call is dropped from a slot unreported, no item is held by two
\* bridges, and no slot keeps an item that was already concluded.
SlotHoldsTheOpenCall ==
  \A c \in Callers, i \in Items :
    slot[c] = i <=> owner[i] = c /\ stage[i] # "unused" /\ verdict[i] = "none"

\* What the caller is told is true of the item it allocated: success means that
\* very item ran to its end without an exception, a timeout that the time was up.
\* (An item that was given up may be in any stage, and may still run.)
VerdictsAreTrue ==
  \A i \in Items :
    /\ verdict[i] = "succeeded" => stage[i] = "returned"
    /\ verdict[i] = "failed" => stage[i] = "threw"
    /\ verdict[i] = "timedOut" => overdue[i]
    /\ verdict[i] # "none" => owner[i] # Nobody

\* A bridge gets its slot back from every call, although the dispatch thread may
\* lose the item and the game thread may never run it.
EveryCallConcludes == \A c \in Callers, i \in Items : slot[c] = i ~> slot[c] # i

\* Every step is one the contract of GameThreadContract allows.
effectOf == [i \in Items |-> IF stage[i] = "returned" THEN "done"
                             ELSE IF stage[i] = "threw" THEN "threw" ELSE "none"]

Contract == INSTANCE GameThreadContract WITH open <- slot, effect <- effectOf

ImplementsContract == Contract!Spec

-----------------------------------------------------------------------------
(***************************************************************************)
(* Proofs about MainThreadCall for every set of bridges and of queue       *)
(* items: the type invariant, the slot and verdict invariants, and that    *)
(* the protocol implements GameThreadContract.                             *)
(***************************************************************************)

\* Every variable keeps its type under every step of the protocol.
THEOREM TypeCorrect == Spec => []TypeOK
<1>1. Init => TypeOK
  BY DEF Init, TypeOK, Stages, Verdicts
<1>2. TypeOK /\ [Next]_vars => TypeOK'
  <2> SUFFICES ASSUME TypeOK, [Next]_vars PROVE TypeOK'
    OBVIOUS
  <2> USE DEF TypeOK, Stages, Verdicts, Finished
  <2>1. ASSUME NEW c \in Callers, NEW i \in Items, Queue(c, i) PROVE TypeOK'
    BY <2>1 DEF Queue
  <2>2. ASSUME NEW c \in Callers, Poll(c) PROVE TypeOK'
    BY <2>2 DEF Poll, PollAnswered, PollUnfinished, PollFinished, PollFaulted, Reset
  <2>3. ASSUME NEW c \in Callers, Cancel(c) PROVE TypeOK'
    BY <2>3 DEF Cancel, Reset
  <2>4. ASSUME NEW i \in Items, Dispatch(i) \/ LoseDispatch(i) \/ Run(i) \/ Finish(i)
        PROVE TypeOK'
    BY <2>4 DEF Dispatch, LoseDispatch, Run, Finish, Move
  <2>5. ASSUME NEW i \in Items, Elapse(i) PROVE TypeOK'
    BY <2>5 DEF Elapse
  <2>6. CASE UNCHANGED vars
    BY <2>6 DEF vars
  <2> QED
    BY <2>1, <2>2, <2>3, <2>4, <2>5, <2>6 DEF Next
<1> QED
  BY <1>1, <1>2, PTL DEF Spec

-----------------------------------------------------------------------------
\* The inductive invariant: the slots hold exactly the open calls, an item without
\* an owner was never used, and what was told of an item stays true of it.
IInv ==
  /\ TypeOK
  /\ SlotHoldsTheOpenCall
  /\ VerdictsAreTrue
  /\ \A i \in Items : owner[i] = Nobody => stage[i] = "unused" /\ verdict[i] = "none"
  /\ \A i \in Items : stage[i] = "unused" => owner[i] = Nobody

\* Ending the call of a slot with a verdict that is true of its item keeps IInv.
LEMMA ResetKeepsIInv ==
  ASSUME IInv, NEW c \in Callers, slot[c] # NoItem, NEW v \in Verdicts \ {"none"},
         Reset(c, v),
         v = "succeeded" => stage[slot[c]] = "returned",
         v = "failed" => stage[slot[c]] = "threw",
         v = "timedOut" => overdue[slot[c]]
  PROVE  IInv'
<1> DEFINE j == slot[c]
<1>1. j \in Items /\ owner[j] = c /\ stage[j] # "unused" /\ verdict[j] = "none"
  BY DEF IInv, TypeOK, SlotHoldsTheOpenCall
<1>2. TypeOK'
  BY <1>1 DEF IInv, TypeOK, Reset
<1>3. SlotHoldsTheOpenCall'
  <2> SUFFICES ASSUME NEW d \in Callers, NEW i \in Items
               PROVE  slot'[d] = i
                        <=> owner'[i] = d /\ stage'[i] # "unused" /\ verdict'[i] = "none"
    BY DEF SlotHoldsTheOpenCall
  <2>1. CASE d = c
    BY <1>1, <2>1, NoItemAssumption DEF IInv, TypeOK, SlotHoldsTheOpenCall, Reset, Verdicts
  <2>2. CASE d # c
    BY <1>1, <2>2 DEF IInv, TypeOK, SlotHoldsTheOpenCall, Reset, Verdicts
  <2> QED
    BY <2>1, <2>2
<1>4. VerdictsAreTrue'
  BY <1>1 DEF IInv, TypeOK, VerdictsAreTrue, Reset, Verdicts
<1>5. \A i \in Items : owner'[i] = Nobody => stage'[i] = "unused" /\ verdict'[i] = "none"
  BY <1>1 DEF IInv, TypeOK, Reset
<1>6. \A i \in Items : stage'[i] = "unused" => owner'[i] = Nobody
  BY DEF IInv, Reset
<1> QED
  BY <1>2, <1>3, <1>4, <1>5, <1>6 DEF IInv

\* Every step of the protocol keeps the inductive invariant.
LEMMA StepKeepsIInv == IInv /\ [Next]_vars => IInv'
<1> SUFFICES ASSUME IInv, [Next]_vars PROVE IInv'
  OBVIOUS
<1>1. ASSUME NEW c \in Callers, NEW i \in Items, Queue(c, i) PROVE IInv'
  <2>1. TypeOK'
    BY <1>1 DEF IInv, TypeOK, Queue, Stages
  <2>2. owner[i] = Nobody /\ verdict[i] = "none" /\ \A d \in Callers : slot[d] # i
    BY <1>1, NobodyAssumption DEF IInv, Queue, SlotHoldsTheOpenCall
  <2>3. SlotHoldsTheOpenCall'
    BY <1>1, <2>2, NoItemAssumption, NobodyAssumption
    DEF IInv, TypeOK, SlotHoldsTheOpenCall, Queue
  <2>4. VerdictsAreTrue'
    BY <1>1, <2>2, NobodyAssumption DEF IInv, TypeOK, VerdictsAreTrue, Queue
  <2>5. \A k \in Items : owner'[k] = Nobody => stage'[k] = "unused" /\ verdict'[k] = "none"
    BY <1>1, NobodyAssumption DEF IInv, TypeOK, Queue
  <2>6. \A k \in Items : stage'[k] = "unused" => owner'[k] = Nobody
    BY <1>1 DEF IInv, TypeOK, Queue
  <2> QED
    BY <2>1, <2>3, <2>4, <2>5, <2>6 DEF IInv
<1>2. ASSUME NEW c \in Callers, Poll(c) PROVE IInv'
  BY <1>2, ResetKeepsIInv
  DEF Poll, PollAnswered, PollUnfinished, PollFinished, PollFaulted, Verdicts
<1>3. ASSUME NEW c \in Callers, Cancel(c) PROVE IInv'
  BY <1>3, ResetKeepsIInv DEF Cancel, Verdicts
<1>4. ASSUME NEW i \in Items, NEW to \in Stages, to # "unused",
             stage[i] \notin {"unused", "returned", "threw"}, Move(i, stage[i], to)
      PROVE IInv'
  BY <1>4 DEF IInv, TypeOK, SlotHoldsTheOpenCall, VerdictsAreTrue, Move, Stages
<1>5. ASSUME NEW i \in Items, Dispatch(i) \/ LoseDispatch(i) \/ Run(i) \/ Finish(i)
      PROVE IInv'
  <2>1. \E to \in Stages \ {"unused"} :
          stage[i] \notin {"unused", "returned", "threw"} /\ Move(i, stage[i], to)
    BY <1>5 DEF Dispatch, LoseDispatch, Run, Finish, Move, Stages, Finished
  <2> QED
    BY <2>1, <1>4
<1>6. ASSUME NEW i \in Items, Elapse(i) PROVE IInv'
  BY <1>6 DEF IInv, TypeOK, SlotHoldsTheOpenCall, VerdictsAreTrue, Elapse
<1>7. CASE UNCHANGED vars
  BY <1>7 DEF vars, IInv, TypeOK, SlotHoldsTheOpenCall, VerdictsAreTrue
<1> QED
  BY <1>1, <1>2, <1>3, <1>5, <1>6, <1>7 DEF Next

\* The inductive invariant holds of every behaviour.
LEMMA IInvHolds == Spec => []IInv
<1>1. Init => IInv
  BY NoItemAssumption, NobodyAssumption
  DEF Init, IInv, TypeOK, SlotHoldsTheOpenCall, VerdictsAreTrue, Stages, Verdicts
<1> QED
  BY <1>1, StepKeepsIInv, PTL DEF Spec

\* No live call is dropped from a slot unreported and none is held twice.
THEOREM SlotsHoldOpenCalls == Spec => []SlotHoldsTheOpenCall
<1>1. IInv => SlotHoldsTheOpenCall
  BY DEF IInv
<1> QED
  BY <1>1, IInvHolds, PTL

\* What a bridge is told of its call is true of that call.
THEOREM VerdictsTrue == Spec => []VerdictsAreTrue
<1>1. IInv => VerdictsAreTrue
  BY DEF IInv
<1> QED
  BY <1>1, IInvHolds, PTL

-----------------------------------------------------------------------------
\* The protocol implements the contract: every step opens a call, concludes one
\* with a verdict it is entitled to, lets one take effect, or changes nothing.
THEOREM Refinement == Spec => ImplementsContract
<1> USE DEF effectOf
<1>1. Init => Contract!Init
  BY DEF Init, Contract!Init
<1>2. ASSUME IInv, [Next]_vars PROVE [Contract!Next]_Contract!vars
  <2> USE DEF Contract!vars, Contract!Next
  <2>1. ASSUME NEW c \in Callers, NEW i \in Items, Queue(c, i)
        PROVE  Contract!Open(c, i)
    <3>1. verdict[i] = "none" /\ (\A d \in Callers : slot[d] # i)
      BY <1>2, <2>1, NobodyAssumption DEF IInv, Queue, SlotHoldsTheOpenCall
    <3>2. effectOf[i] = "none"
      BY <2>1 DEF Queue
    <3>3. effectOf' = effectOf
      BY <1>2, <2>1 DEF Queue, IInv, TypeOK
    <3> QED
      BY <2>1, <3>1, <3>2, <3>3 DEF Queue, Contract!Open
  <2>2. ASSUME NEW c \in Callers, slot[c] # NoItem, NEW v \in Verdicts, Reset(c, v),
               \/ v = "succeeded" /\ stage[slot[c]] = "returned"
               \/ v = "failed" /\ stage[slot[c]] = "threw"
               \/ v \in {"faulted", "timedOut", "cancelled"}
        PROVE  \E i \in Items : Contract!Conclude(c, i)
    <3>1. slot[c] \in Items /\ verdict[slot[c]] = "none"
      BY <1>2, <2>2 DEF IInv, TypeOK, SlotHoldsTheOpenCall
    <3>2. effectOf' = effectOf
      BY <2>2 DEF Reset
    <3>3. Contract!Conclude(c, slot[c])
      BY <2>2, <3>1, <3>2 DEF Reset, Contract!Conclude, Contract!Uninformed
    <3> QED
      BY <3>1, <3>3
  <2>3. ASSUME NEW c \in Callers, Poll(c) \/ Cancel(c)
        PROVE  \E i \in Items : Contract!Conclude(c, i)
    BY <2>2, <2>3
    DEF Poll, PollAnswered, PollUnfinished, PollFinished, PollFaulted, Cancel, Verdicts
  <2>4. ASSUME NEW i \in Items, Dispatch(i) \/ LoseDispatch(i) \/ Run(i)
        PROVE  UNCHANGED Contract!vars
    BY <1>2, <2>4 DEF Dispatch, LoseDispatch, Run, Move, IInv, TypeOK
  <2>5. ASSUME NEW i \in Items, Finish(i) PROVE Contract!TakeEffect(i)
    BY <1>2, <2>5 DEF Finish, Move, IInv, TypeOK, Contract!TakeEffect
  <2>6. ASSUME NEW i \in Items, Elapse(i) PROVE UNCHANGED Contract!vars
    BY <2>6 DEF Elapse
  <2>7. CASE UNCHANGED vars
    BY <2>7 DEF vars
  <2> QED
    BY <1>2, <2>1, <2>3, <2>4, <2>5, <2>6, <2>7 DEF Next
<1> QED
  BY <1>1, <1>2, IInvHolds, PTL DEF Spec, ImplementsContract, Contract!Spec
=============================================================================
