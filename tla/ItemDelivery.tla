--------------------------- MODULE ItemDelivery ---------------------------
(***************************************************************************)
(* trainer/src/bridge/item_bridge.cpp: items for the player.  In a local   *)
(* world they are made one by one, each step a call that the game thread   *)
(* runs between two frames; on a server a payload bridge takes the         *)
(* request, within a cooldown.                                             *)
(***************************************************************************)
EXTENDS GameSession

CONSTANT MaxQuantity  \* bound: 100 in the code

VARIABLE item

vars == <<item, game, bounds>>

Destinations == {"Backpack", "Ground"}
Stages == {"Inventory", "Create", "AddDirectToInventory", "ValidateInventory",
           "Square", "SpawnGround"}
Calls == {"none", "queued", "succeeded", "failed"}

RefreshPasses == 4

\* given counts what the world got for the task, whatever the report says; late: a call
\* that was given up may still give one.  struck counts the items that another request,
\* refused, struck off the report; overwritten: it was accepted and took the report.
\* shown: the inventory window was drawn again since the delivery ended; excused if a
\* pass failed or it was for another player.
ItemTypeOK ==
  item \in [active : BOOLEAN, stage : Stages, call : Calls, prepared : BOOLEAN,
            destination : Destinations, requested : 0 .. MaxQuantity,
            created : Nat, succeeded : BOOLEAN, given : Nat, struck : Nat,
            late : BOOLEAN, overwritten : BOOLEAN,
            cooling : BOOLEAN, passes : -1 .. RefreshPasses, refresh : Calls,
            shown : BOOLEAN, excused : BOOLEAN]

NoTask ==
  [active |-> FALSE, stage |-> "Inventory", call |-> "none", prepared |-> FALSE,
   destination |-> "Backpack", requested |-> 0, created |-> 0, succeeded |-> FALSE,
   given |-> 0, struck |-> 0, late |-> FALSE, overwritten |-> FALSE, cooling |-> FALSE,
   passes |-> 0, refresh |-> "none", shown |-> TRUE, excused |-> FALSE]

Init == GameInit /\ item = NoTask

Live == Play /\ item' = [item EXCEPT !.excused = TRUE]

-----------------------------------------------------------------------------
(* The game thread.                                                        *)

Gives(stage) == stage \in {"AddDirectToInventory", "SpawnGround"}

Given(i) == [i EXCEPT !.given = @ + 1]

\* A call that fails may have had its effect.
Runs ==
  /\ item.call = "queued"
  /\ LET done == IF Gives(item.stage) THEN Given(item) ELSE item IN
     \/ item' = [done EXCEPT !.call = "succeeded"] /\ NoFault
     \/ \E i \in {item, done} : item' = [i EXCEPT !.call = "failed"] /\ Fault
  /\ UNCHANGED <<game, requests>>

RunsLate ==
  /\ item.late
  /\ item' = Given([item EXCEPT !.late = FALSE])
  /\ UNCHANGED <<game, bounds>>

RunsRefresh ==
  /\ item.refresh = "queued"
  /\ \/ item' = [item EXCEPT !.refresh = "succeeded"] /\ NoFault
     \/ item' = [item EXCEPT !.refresh = "failed", !.excused = TRUE] /\ Fault
  /\ UNCHANGED <<game, requests>>

CoolDown ==
  /\ item.cooling
  /\ item' = [item EXCEPT !.cooling = FALSE]
  /\ Request
  /\ UNCHANGED game

-----------------------------------------------------------------------------
(* The frame.                                                              *)

\* ResetLocalSpawnTask, FailLocalSpawnTask: the report keeps what was created so far.
FailLocalSpawnTask(i) == [i EXCEPT !.active = FALSE, !.call = "none", !.succeeded = FALSE]

\* Faulty variant of TimedOut: the call that was not answered in time is made again.
TimedOutRetried(i) == [i EXCEPT !.call = "none", !.late = Gives(i.stage)]

TimedOut(i) == [FailLocalSpawnTask(i) EXCEPT !.late = Gives(i.stage)]

\* Every item begins anew where it is made.
FirstStage(i) ==
  IF i.prepared THEN "Create"
  ELSE IF i.destination = "Backpack" THEN "AddDirectToInventory" ELSE "SpawnGround"

NextStage(i) ==
  CASE i.stage = "Inventory" -> IF i.destination = "Backpack" THEN FirstStage(i) ELSE "Square"
    [] i.stage = "Square" -> FirstStage(i)
    [] i.stage = "Create" ->
         IF i.destination = "Backpack" THEN "AddDirectToInventory" ELSE "SpawnGround"
    [] OTHER -> "ValidateInventory"

\* Faulty variant of Last: counted from zero.
LastFromZero(i) == i.created > i.requested

Last(i) == i.created >= i.requested

\* Faulty variant of Completed: whatever is on its way to be drawn is drawn already.
CompletedUnseen(i) ==
  [i EXCEPT !.active = FALSE, !.succeeded = TRUE, !.shown = i.destination = "Ground",
            !.excused = FALSE, !.passes = 0]

Completed(i) ==
  [i EXCEPT !.active = FALSE, !.succeeded = TRUE, !.shown = i.destination = "Ground",
            !.excused = FALSE,
            !.passes = IF i.destination = "Backpack" THEN RefreshPasses ELSE 0]

FinishLocalSpawnItem(i) ==
  LET j == [i EXCEPT !.call = "none", !.created = @ + 1] IN
  IF Last(j) THEN Completed(j) ELSE [j EXCEPT !.stage = FirstStage(j)]

\* Where an item is done: on the ground, or found to be in the inventory.
Finishes(i) == i.stage \in {"ValidateInventory", "SpawnGround"}

Proceeded(i) ==
  IF Finishes(i) THEN FinishLocalSpawnItem(i)
  ELSE [i EXCEPT !.call = "none", !.stage = NextStage(i)]

\* AdvanceLocalSpawnTask, where nothing goes wrong: each frame submits a call or takes
\* the answer of one.
Advanced(i) ==
  CASE i.active /\ i.call = "none" -> [i EXCEPT !.call = "queued"]
    [] i.active /\ i.call = "succeeded" -> Proceeded(i)
    [] i.active /\ i.call = "failed" -> FailLocalSpawnTask(i)
    [] OTHER -> i

\* The call cannot be submitted, is not answered in time, or its answer is not valid.
Disturbed(i) ==
  CASE i.call = "queued" -> TimedOut(i)
    [] OTHER -> FailLocalSpawnTask(i)

\* The second half of UpdateItemBridge, with the player of the frame.
Refreshed(i) ==
  CASE i.refresh \in {"succeeded", "failed"} ->
         [i EXCEPT !.refresh = "none", !.passes = @ - 1,
                   !.shown = @ \/ i.refresh = "succeeded"]
    [] i.refresh = "none" /\ i.passes > 0 /\ player # NoPlayer ->
         [i EXCEPT !.refresh = "queued"]
    [] i.refresh = "none" /\ i.passes > 0 /\ player = NoPlayer ->
         [i EXCEPT !.passes = @ - 1, !.excused = TRUE]
    [] OTHER -> i

\* A pass of the refresh may not be due yet.
UpdateItemBridge ==
  /\ \/ item' \in {Advanced(item), Refreshed(Advanced(item))} /\ NoFault
     \/ item.active /\ item' = Disturbed(item) /\ Fault
     \/ item.refresh = "queued" /\ Fault
          /\ item' = [Advanced(item) EXCEPT !.refresh = "failed", !.excused = TRUE]
  /\ UNCHANGED <<game, requests>>

-----------------------------------------------------------------------------
(* Requests from the menu.                                                 *)

\* SpawnItem refuses while a local delivery is under way.
Reported(i) == ~i.active

Reset(i) ==
  [i EXCEPT !.created = 0, !.succeeded = FALSE, !.given = 0, !.struck = 0, !.requested = 0,
            !.late = FALSE, !.overwritten = FALSE, !.shown = TRUE]

\* The method, the item, the session or the destination does not fit, the cooldown is not
\* over, or there is no player: nothing is begun.
Refuse ==
  /\ Reported(item)
  /\ item' = Reset(item)
  /\ Request
  /\ UNCHANGED game

SpawnLocally(quantity, destination, prepared) ==
  /\ Reported(item) /\ ~Online /\ player # NoPlayer
  /\ item' = [Reset(item) EXCEPT !.active = TRUE, !.call = "none", !.stage = "Inventory",
                 !.prepared = prepared, !.destination = destination, !.requested = quantity]
  /\ Request
  /\ UNCHANGED game

\* TryAcquireOnlineItemSpawn: the cooldown begins before the player is looked for.
Acquires == Online /\ ~item.cooling

\* A payload bridge accepts some of the items.
Acceptable(quantity) == IF player = NoPlayer THEN {0} ELSE 0 .. quantity

Answered(i, quantity, accepted) ==
  [i EXCEPT !.created = accepted, !.succeeded = accepted = quantity, !.cooling = TRUE]

SpawnOnline(quantity) ==
  /\ Reported(item) /\ Acquires
  /\ \E n \in Acceptable(quantity) : item' = Answered(Reset(item), quantity, n)
  /\ Request
  /\ UNCHANGED game

Struck(i) == [i EXCEPT !.created = 0, !.succeeded = FALSE, !.struck = @ + i.created]

\* SpawnCorpsePayloadBatch, in any session: it begins the report anew before it looks at
\* anything, and does not look for a local delivery, which goes on counting in it.
SpawnCorpsePayloadBatch(quantity) ==
  /\ LET i == IF item.active THEN Struck(item) ELSE Reset(item) IN
     \/ item' = i
     \/ /\ Acquires
        /\ \E n \in Acceptable(quantity) :
             item' = [Answered(i, quantity, n) EXCEPT
                        !.overwritten = item.active /\ (@ \/ n > 0)]
  /\ Request
  /\ UNCHANGED game

Next ==
  \/ Live \/ Runs \/ RunsLate \/ RunsRefresh \/ CoolDown \/ UpdateItemBridge \/ Refuse
  \/ \E quantity \in 1 .. MaxQuantity :
       \/ SpawnOnline(quantity) \/ SpawnCorpsePayloadBatch(quantity)
       \/ \E destination \in Destinations, prepared \in BOOLEAN :
            SpawnLocally(quantity, destination, prepared)

Spec == Init /\ [][Next]_vars

-----------------------------------------------------------------------------
(* Properties of the report of a local delivery, unless another request was *)
(* accepted meanwhile and took it.                                         *)

IsReported(i) == i.requested > 0 /\ ~i.overwritten

\* Success means that as many items were made as were asked for, and no more, but for a
\* corpse payload refused in the meantime: the delivery counts from zero again, and makes
\* as many more as it had counted before it says that it succeeded.
SuccessIsWhole ==
  IsReported(item) /\ item.succeeded => item.given = item.requested + item.struck

\* A report of items made, with those that were struck off it, is short of at most the one
\* whose call failed or is under way, even if that call was given up and ran afterwards.
ReportIsShortOfOne == IsReported(item) => item.given - (item.created + item.struck) \in {0, 1}

\* The inventory window is drawn again after the last delivery, unless the game would not,
\* or the player has gone.
InventoryIsShown ==
  item.succeeded /\ item.passes = 0 /\ item.refresh = "none" =>
    item.shown \/ item.excused
=============================================================================
