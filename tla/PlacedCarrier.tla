--------------------------- MODULE PlacedCarrier ---------------------------
(***************************************************************************)
(* trainer/src/bridge/pallet_item_bridge.cpp: items that come by way of a  *)
(* carrier, an object that the server places on the square of the player   *)
(* and that it takes away again when an action on it is over.              *)
(***************************************************************************)
EXTENDS GameSession

CONSTANTS Spots, Nowhere  \* squares of the world, and none of them

VARIABLE pallet

vars == <<pallet, game, bounds>>

Ids == 1 .. MaxRequests

Phases == {"Idle", "Preparing", "WaitingForTrap", "WaitingForAction"}
Steps == {"None", "QuerySquare", "QueryObjects", "CarrierSquare", "CarrierPacket",
          "CarrierSet", "CarrierSend", "ActionSquare", "ActionSend"}

\* here is the square of the player, at that of a carrier, coming of one that the server
\* was asked to place, acting the carrier of an action that it was asked for.  square and
\* found are the answers of calls, id the carrier that is looked for, last the number of
\* carriers made.  History: given for the request; moved, if the player was elsewhere in
\* the meantime; strayed, if something that was given up had its effect afterwards; blind,
\* if his square could not be read; crowded are the squares that had two carriers when the
\* request began.
PalletTypeOK ==
  pallet \in [phase : Phases, step : Steps, call : {"none", "queued", "failed", "done"},
              here : Spots, at : [Ids -> Spots \cup {Nowhere}],
              coming : [Ids -> Spots \cup {Nowhere}], acting : Ids \cup {0},
              square : Spots \cup {Nowhere}, found : Ids \cup {0}, id : Ids \cup {0},
              last : Ids \cup {0}, given : BOOLEAN, moved : BOOLEAN, strayed : BOOLEAN, blind : BOOLEAN,
              late : {"None", "CarrierSend", "ActionSend"}, lateId : Ids \cup {0},
              lateSquare : Spots \cup {Nowhere}, done : BOOLEAN, crowded : SUBSET Spots]

NoCarrier == [i \in Ids |-> Nowhere]

Init ==
  /\ GameInit
  /\ \E s \in Spots :
       pallet = [phase |-> "Idle", step |-> "None", call |-> "none", here |-> s,
                 at |-> NoCarrier, coming |-> NoCarrier, acting |-> 0, square |-> Nowhere,
                 found |-> 0, id |-> 0, last |-> 0, given |-> FALSE, moved |-> FALSE,
                 strayed |-> FALSE, blind |-> FALSE, late |-> "None", lateId |-> 0,
                 lateSquare |-> Nowhere, done |-> FALSE, crowded |-> {}]

-----------------------------------------------------------------------------
(* The game and its server.                                                *)

\* Another world has no carriers.
Live ==
  /\ Play
  /\ pallet' = [pallet EXCEPT !.moved = TRUE, !.at = NoCarrier, !.coming = NoCarrier,
                  !.acting = 0]

Move ==
  /\ player # NoPlayer
  /\ \E s \in Spots \ {pallet.here} : pallet' = [pallet EXCEPT !.here = s, !.moved = TRUE]
  /\ Request
  /\ UNCHANGED game

Place(i) ==
  /\ pallet.coming[i] # Nowhere
  /\ \/ pallet' = [pallet EXCEPT !.at[i] = pallet.coming[i], !.coming[i] = Nowhere,
                     !.strayed = @ \/ i # pallet.id] /\ NoFault
     \/ pallet' = [pallet EXCEPT !.coming[i] = Nowhere] /\ Fault
  /\ UNCHANGED <<game, requests>>

\* The action gives the items and takes the carrier away.
Act ==
  /\ pallet.acting # 0
  /\ \/ /\ NoFault
        /\ pallet' = [pallet EXCEPT !.acting = 0, !.at[pallet.acting] = Nowhere,
                        !.given = @ \/ pallet.acting = pallet.id,
                        !.strayed = @ \/ pallet.acting # pallet.id]
     \/ pallet' = [pallet EXCEPT !.acting = 0] /\ Fault
  /\ UNCHANGED <<game, requests>>

Carriers(p) == {i \in Ids : p.at[i] # Nowhere}

\* FindCarrierTrapInObjects: the one with the id, or before there is one, any of ours.
Matching(p) == {i \in Carriers(p) : p.at[i] = p.square /\ p.id \in {0, i}}

Sent(p, step, i, s) ==
  IF step = "CarrierSend" THEN [p EXCEPT !.coming[i] = s] ELSE [p EXCEPT !.acting = i]

Answers(p) ==
  CASE p.step \in {"QuerySquare", "CarrierSquare"} -> {[p EXCEPT !.square = p.here]}
    [] p.step = "QueryObjects" ->
         IF Matching(p) = {} THEN {[p EXCEPT !.found = 0]}
         ELSE {[p EXCEPT !.found = i, !.id = i] : i \in Matching(p)}
    [] p.step \in {"CarrierSend", "ActionSend"} -> {Sent(p, p.step, p.id, p.square)}
    [] OTHER -> {p}

\* The call that the game thread runs; one that fails may have had its effect.
Runs ==
  /\ pallet.call = "queued"
  /\ \E p \in Answers(pallet) :
       \/ pallet' = [p EXCEPT !.call = "done"] /\ NoFault
       \/ \E q \in {pallet, p} : pallet' = [q EXCEPT !.call = "failed"] /\ Fault
  /\ UNCHANGED <<game, requests>>

RunsLate ==
  /\ pallet.late # "None"
  /\ pallet' = [Sent(pallet, pallet.late, pallet.lateId, pallet.lateSquare) EXCEPT
                  !.late = "None", !.lateId = 0, !.lateSquare = Nowhere, !.strayed = TRUE]
  /\ UNCHANGED <<game, bounds>>

-----------------------------------------------------------------------------
(* The bridge.                                                             *)

\* FailPending: a call that was not answered can still run.
GivenUp(p) ==
  IF p.call = "queued" /\ p.step \in {"CarrierSend", "ActionSend"}
  THEN [p EXCEPT !.late = p.step, !.lateId = p.id, !.lateSquare = p.square]
  ELSE p

Reset(p) == [GivenUp(p) EXCEPT !.phase = "Idle", !.step = "None", !.call = "none"]

QueuePendingCall(p, step) == [p EXCEPT !.step = step, !.call = "queued"]

Waiting(p, phase) == [p EXCEPT !.phase = phase, !.step = "None", !.call = "none"]

BeginCarrierSend(p) ==
  QueuePendingCall([p EXCEPT !.last = @ + 1, !.id = p.last + 1], "CarrierSquare")

\* Faulty variant of Prepared: what an earlier request left behind is not looked at.
PreparedAnew(p) == BeginCarrierSend(p)

Prepared(p) ==
  IF p.found # 0 THEN QueuePendingCall(p, "ActionSquare") ELSE BeginCarrierSend(p)

\* Faulty variant of Gone: a carrier that has not come yet is taken for one that is gone.
NotThere(p) == p.phase # "Preparing" /\ p.found = 0

Gone(p) == p.phase = "WaitingForAction" /\ p.found = 0

\* HandleTrapQueryResult
HandleTrapQueryResult(p) ==
  CASE p.phase = "Preparing" -> Prepared(p)
    [] p.phase = "WaitingForTrap" /\ p.found # 0 -> QueuePendingCall(p, "ActionSquare")
    [] Gone(p) -> [Reset(p) EXCEPT !.done = TRUE]
    [] OTHER -> Waiting(p, p.phase)

\* HandlePendingStep
HandlePendingStep(p) ==
  CASE p.step = "QuerySquare" -> QueuePendingCall(p, "QueryObjects")
    [] p.step = "QueryObjects" -> HandleTrapQueryResult([p EXCEPT !.call = "none"])
    [] p.step = "CarrierSquare" -> QueuePendingCall(p, "CarrierPacket")
    [] p.step = "CarrierPacket" -> QueuePendingCall(p, "CarrierSet")
    [] p.step = "CarrierSet" -> QueuePendingCall(p, "CarrierSend")
    [] p.step = "CarrierSend" -> Waiting(p, "WaitingForTrap")
    [] p.step = "ActionSquare" -> QueuePendingCall(p, "ActionSend")
    [] OTHER -> Waiting(p, "WaitingForAction")

\* There is no square under the player, or what is on it cannot be read: that is taken for
\* a square without a carrier, whatever is looked for.
Blinded(p) == HandleTrapQueryResult([p EXCEPT !.found = 0, !.call = "none", !.blind = TRUE])

\* BeginTrapQuery, when nothing is under way.
Updated(p) ==
  CASE p.call = "queued" -> p
    [] p.call = "done" -> HandlePendingStep(p)
    [] p.call = "failed" -> Reset(p)
    [] OTHER -> QueuePendingCall(p, "QuerySquare")

\* UpdatePalletItemBridge: a fault is the deadline, a call that cannot be submitted or is
\* not answered in time, or an object that cannot be made.
Update ==
  /\ player # NoPlayer /\ pallet.phase # "Idle"
  /\ \/ pallet' = Updated(pallet) /\ NoFault
     \/ pallet' = Reset(pallet) /\ Fault
     \/ /\ pallet.call = "done" /\ pallet.step \in {"QuerySquare", "QueryObjects"}
        /\ pallet' = Blinded(pallet) /\ Fault
  /\ UNCHANGED <<game, requests>>

\* Something of an earlier request is still under way.
Lingers(p) == p.late # "None" \/ p.acting # 0 \/ p.coming # NoCarrier

Crowded(p) == {s \in Spots : \E i, j \in Carriers(p) : i # j /\ p.at[i] = s /\ p.at[j] = s}

\* QueuePalletItemRequests
Queue ==
  /\ player # NoPlayer /\ Online
  /\ pallet.phase = "Idle"
  /\ pallet' = [pallet EXCEPT !.phase = "Preparing", !.id = 0, !.given = FALSE,
                  !.done = FALSE, !.moved = FALSE, !.blind = FALSE,
                  !.strayed = @ \/ Lingers(pallet), !.crowded = Crowded(pallet)]
  /\ Request
  /\ UNCHANGED game

Next ==
  \/ Live \/ Move \/ Act \/ Runs \/ RunsLate \/ Update \/ Queue
  \/ \E i \in Ids : Place(i)

Spec == Init /\ [][Next]_vars

-----------------------------------------------------------------------------
(* Properties.                                                             *)

\* What is announced has been given, unless the player was elsewhere, or his square could
\* not be read: the carrier is taken to be gone when it is not found where he stands now.
AnnouncedIsGiven ==
  pallet.done => pallet.given \/ pallet.moved \/ pallet.strayed \/ pallet.blind

\* A carrier that a failed request left behind is used by the next one on its square: no
\* second one is put beside it while the player stays there and the square can be read.
LeftoversAreUsed ==
  Crowded(pallet) \subseteq pallet.crowded \/ pallet.moved \/ pallet.strayed \/ pallet.blind
=============================================================================
