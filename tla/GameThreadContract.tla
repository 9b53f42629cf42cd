------------------------- MODULE GameThreadContract -------------------------
(***************************************************************************)
(* What trainer/src/bridge/main_thread_invoker.hpp promises a bridge that  *)
(* hands work to the game's main thread and polls for the answer.          *)
(*                                                                         *)
(* A call is opened by a caller that has none open, the work takes effect  *)
(* at most once, and the caller is told exactly one verdict.  "succeeded"  *)
(* and "failed" are only told of work that has already taken effect.  The  *)
(* other verdicts are told without knowing: the contract does NOT promise  *)
(* that work given up on stays undone, so an effect may follow a verdict.  *)
(***************************************************************************)
CONSTANTS Callers, Items, NoItem

VARIABLES
  open,     \* open[c]: the call c waits for, or NoItem
  effect,   \* effect[i]: what the work of call i has done to the game
  verdict   \* verdict[i]: what the caller of i was told

vars == <<open, effect, verdict>>

Uninformed == {"faulted", "timedOut", "cancelled"}

Init ==
  /\ open = [c \in Callers |-> NoItem]
  /\ effect = [i \in Items |-> "none"]
  /\ verdict = [i \in Items |-> "none"]

\* A caller with no open call opens one that was never used.
Open(c, i) ==
  /\ open[c] = NoItem
  /\ effect[i] = "none"
  /\ verdict[i] = "none"
  /\ \A d \in Callers : open[d] # i
  /\ open' = [open EXCEPT ![c] = i]
  /\ UNCHANGED <<effect, verdict>>

\* The game thread does the work, whether or not anybody still waits for it.
TakeEffect(i) ==
  /\ effect[i] = "none"
  /\ effect' = [effect EXCEPT ![i] = "done"] \/ effect' = [effect EXCEPT ![i] = "threw"]
  /\ UNCHANGED <<open, verdict>>

\* The caller is told the one verdict of its call and is free again.
Conclude(c, i) ==
  /\ open[c] = i
  /\ verdict[i] = "none"
  /\ open' = [open EXCEPT ![c] = NoItem]
  /\ \/ effect[i] = "done" /\ verdict' = [verdict EXCEPT ![i] = "succeeded"]
     \/ effect[i] = "threw" /\ verdict' = [verdict EXCEPT ![i] = "failed"]
     \/ \E v \in Uninformed : verdict' = [verdict EXCEPT ![i] = v]
  /\ UNCHANGED effect

Next ==
  \/ \E c \in Callers, i \in Items : Open(c, i) \/ Conclude(c, i)
  \/ \E i \in Items : TakeEffect(i)

Spec == Init /\ [][Next]_vars
=============================================================================
