-------------------------- MODULE CarrierTransfer --------------------------
(***************************************************************************)
(* trainer/src/bridge/light_item_payload_bridge.cpp and                    *)
(* media_item_payload_bridge.cpp: items that come into the inventory by    *)
(* way of a carrier, a lamp nearby or a radio in hand.  Each is put into   *)
(* the carrier, taken out again, and counted when it has arrived.  The two *)
(* files are the same code but for the carrier.                            *)
(***************************************************************************)
EXTENDS GameSession

CONSTANT MaxItems  \* bound on the items of the type in the inventory

VARIABLE transfer

vars == <<transfer, game, bounds>>

Phases == {"Idle", "Calling", "WaitBeforeRemove", "WaitForItem"}
Steps == {"None", "FindCarrier", "CountBefore", "SendState", "SendRemove", "CountAfter"}

\* loaded: the carrier holds our item; taking: the game has been asked to take it out;
\* held: the items of the type in the inventory.  History: arrived and gained count the
\* items that came by the carrier and otherwise since the request; late is a call that
\* was given up and may still run, strayed that one did, or that the game was still at
\* work for an earlier request; done: the request succeeded.
TransferTypeOK ==
  transfer \in [kind : {"light", "media"}, phase : Phases, step : Steps,
                call : {"none", "queued", "failed", "no", "yes"},
                requested : 0 .. 2, completed : 0 .. 2, base : 0 .. MaxItems,
                answer : 0 .. MaxItems, near : BOOLEAN, loaded : BOOLEAN, taking : BOOLEAN,
                held : 0 .. MaxItems, arrived : 0 .. 2 * MaxItems, gained : 0 .. MaxItems,
                late : Steps, strayed : BOOLEAN, done : BOOLEAN]

Nothing(kind) ==
  [kind |-> kind, phase |-> "Idle", step |-> "None", call |-> "none", requested |-> 0,
   completed |-> 0, base |-> 0, answer |-> 0, near |-> FALSE, loaded |-> FALSE,
   taking |-> FALSE, held |-> 0, arrived |-> 0, gained |-> 0, late |-> "None",
   strayed |-> FALSE, done |-> FALSE]

Init == GameInit /\ \E kind \in {"light", "media"} : transfer = Nothing(kind)

-----------------------------------------------------------------------------
(* The game, and the calls that its thread runs.                           *)

\* Another character starts with nothing, away from the carrier.
Live ==
  /\ Play
  /\ transfer' = [transfer EXCEPT !.held = 0, !.near = FALSE, !.taking = FALSE]

Move ==
  /\ player # NoPlayer
  /\ transfer' = [transfer EXCEPT !.near = ~@]
  /\ Request
  /\ UNCHANGED game

\* The player finds an item of the type, or parts with one.
Find ==
  /\ player # NoPlayer
  /\ transfer.held < MaxItems /\ transfer.gained < MaxItems
  /\ transfer' = [transfer EXCEPT !.held = @ + 1, !.gained = @ + 1]
  /\ Request
  /\ UNCHANGED game

Drop ==
  /\ transfer.held > 0
  /\ transfer' = [transfer EXCEPT !.held = @ - 1]
  /\ Request
  /\ UNCHANGED game

\* The server takes the item out of the carrier.
Arrive ==
  /\ transfer.taking /\ transfer.held < MaxItems
  /\ transfer' = [transfer EXCEPT !.taking = FALSE, !.loaded = FALSE,
                    !.held = IF transfer.loaded THEN @ + 1 ELSE @,
                    !.arrived = IF transfer.loaded THEN @ + 1 ELSE @]
  /\ UNCHANGED <<game, bounds>>

Told(t, yes) == [t EXCEPT !.call = IF yes THEN "yes" ELSE "no"]

\* A radio that holds our item can be written again, a lamp cannot; a lamp that holds
\* nothing has nothing to remove.
FindCarrier(t) == Told(t, t.near /\ (t.loaded => t.kind = "media"))

SendState(t) ==
  IF t.near /\ (t.loaded => t.kind = "media") THEN Told([t EXCEPT !.loaded = TRUE], TRUE)
  ELSE Told(t, FALSE)

SendRemove(t) ==
  IF t.near /\ (t.loaded \/ t.kind = "media") THEN Told([t EXCEPT !.taking = TRUE], TRUE)
  ELSE Told(t, FALSE)

CountInventory(t) == Told([t EXCEPT !.answer = t.held], TRUE)

Ran(t, step) ==
  CASE step = "FindCarrier" -> FindCarrier(t)
    [] step = "SendState" -> SendState(t)
    [] step = "SendRemove" -> SendRemove(t)
    [] OTHER -> CountInventory(t)

Runs ==
  /\ transfer.call = "queued"
  /\ \/ transfer' = Ran(transfer, transfer.step) /\ NoFault
     \/ \E t \in {transfer, Ran(transfer, transfer.step)} :
          transfer' = [t EXCEPT !.call = "failed"] /\ Fault
  /\ UNCHANGED <<game, requests>>

RunsLate ==
  /\ transfer.late # "None"
  /\ transfer' = [Ran(transfer, transfer.late) EXCEPT
                    !.call = transfer.call, !.answer = transfer.answer,
                    !.late = "None", !.strayed = TRUE]
  /\ UNCHANGED <<game, bounds>>

-----------------------------------------------------------------------------
(* The bridge.                                                             *)

\* QueueRuntimeCall
Calling(t, step) == [t EXCEPT !.phase = "Calling", !.step = step, !.call = "queued"]

\* ResetPending: a call that was not answered can still run.
Reset(t) ==
  [t EXCEPT !.phase = "Idle", !.step = "None", !.call = "none",
            !.late = IF t.call = "queued" THEN t.step ELSE @]

\* Faulty variant of HasArrived: there are as many as before.
HasArrivedOrNot(t) == t.answer >= t.base

HasArrived(t) == t.answer > t.base

\* Faulty variant of Counted: the count of the items is not brought up to date.
CountedFromStart(t) == [t EXCEPT !.completed = @ + 1]

Counted(t) == [t EXCEPT !.completed = @ + 1, !.base = t.answer]

Waiting(t, phase) == [t EXCEPT !.phase = phase, !.step = "None", !.call = "none"]

Continued(t) ==
  IF t.completed >= t.requested THEN [Reset(t) EXCEPT !.done = TRUE]
  ELSE Calling(t, "SendState")

\* HandleCompletedCall
HandleCompletedCall(t) ==
  IF t.call # "yes" THEN Reset(t)
  ELSE CASE t.step = "FindCarrier" -> Calling(t, "CountBefore")
         [] t.step = "CountBefore" -> Calling([t EXCEPT !.base = t.answer], "SendState")
         [] t.step = "SendState" -> Waiting(t, "WaitBeforeRemove")
         [] t.step = "SendRemove" -> Waiting(t, "WaitForItem")
         [] t.step = "CountAfter" ->
              IF HasArrived(t) THEN Continued(Counted([t EXCEPT !.call = "none"]))
                               ELSE Waiting(t, "WaitForItem")

NextCall(t) == IF t.phase = "WaitBeforeRemove" THEN "SendRemove" ELSE "CountAfter"

Updated(t) ==
  CASE t.call = "queued" -> t
    [] t.call = "none" -> Calling(t, NextCall(t))
    [] t.call \notin {"queued", "none"} -> HandleCompletedCall(t)

\* UpdateLightItemPayloadBridge: a fault is the deadline, a call that is not answered in
\* time or that cannot be submitted.  The next step may not be due.
Update ==
  /\ player # NoPlayer /\ transfer.phase # "Idle"
  /\ \/ transfer' = Updated(transfer) /\ NoFault
     \/ transfer' = Reset(transfer) /\ Fault
  /\ UNCHANGED <<game, requests>>

MayBegin(t) == t.phase = "Idle"

\* QueueLightItemPayload
Queue(quantity) ==
  /\ player # NoPlayer /\ Online
  /\ MayBegin(transfer)
  /\ transfer' = [Calling(transfer, "FindCarrier") EXCEPT
                    !.requested = quantity, !.completed = 0, !.base = 0, !.arrived = 0,
                    !.gained = 0, !.done = FALSE, !.strayed = transfer.taking]
  /\ Request
  /\ UNCHANGED game

Next ==
  \/ Live \/ Move \/ Find \/ Drop \/ Arrive \/ Runs \/ RunsLate \/ Update
  \/ \E quantity \in 1 .. 2 : Queue(quantity)

Spec == Init /\ [][Next]_vars

-----------------------------------------------------------------------------
(* Properties.                                                             *)

\* Every item that was counted did come into the inventory since the request: another one
\* of its type may be taken for it, and nothing is counted twice.
CountedHaveArrived == transfer.completed <= transfer.arrived + transfer.gained

\* A request that succeeded leaves nothing in the carrier, unless something else was
\* taken for its item or an earlier request was not over.
NothingStaysBehind ==
  transfer.done /\ transfer.loaded => transfer.gained > 0 \/ transfer.strayed
=============================================================================
