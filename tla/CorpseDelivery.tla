--------------------------- MODULE CorpseDelivery ---------------------------
(***************************************************************************)
(* trainer/src/bridge/corpse_item_bridge.cpp: a container that is made     *)
(* step by step, each a call that the game thread runs, filled with the    *)
(* items of a list, and placed in the world as the last step.              *)
(***************************************************************************)
EXTENDS GameSession, Sequences

CONSTANT MaxKinds  \* bound on the length of the list

VARIABLE corpse

vars == <<corpse, game, bounds>>

Preparations ==
  <<"QuerySquare", "QueryCell", "ConstructZombie", "SetZombieSquare", "SetZombieCurrent",
    "SetZombieX", "SetZombieY", "SetZombieZ", "DressZombie", "ConstructBody",
    "QueryContainer">>

Fillings == <<"AddItems", "SetExplored", "AddCorpse">>

Steps == {(Preparations \o Fillings)[i] : i \in 1 .. Len(Preparations \o Fillings)}

Kinds == 1 .. MaxKinds

\* content, explored: what is in the container that is being made, and whether the game
\* has been told that it was looked through already.  late: the container whose placing
\* was given up and may still happen.  History: placed and spoiled say that a container
\* was placed for the request, and that one ever was that it should not have been.
CorpseTypeOK ==
  corpse \in [active : BOOLEAN, step : Steps, call : {"none", "queued", "failed", "short", "done"},
              kinds : 0 .. MaxKinds, index : 1 .. MaxKinds + 1,
              content : [Kinds -> {"none", "part", "whole"}], explored : BOOLEAN,
              late : {"none", "part", "whole"}, placed : BOOLEAN, spoiled : BOOLEAN, sent : BOOLEAN]

Empty == [k \in Kinds |-> "none"]

Init ==
  /\ GameInit
  /\ corpse = [active |-> FALSE, step |-> "QuerySquare", call |-> "none", kinds |-> 0,
               index |-> 1, content |-> Empty, explored |-> FALSE, late |-> "none",
               placed |-> FALSE, spoiled |-> FALSE, sent |-> FALSE]

Live == Play /\ UNCHANGED corpse

-----------------------------------------------------------------------------
(* The calls that the game thread runs.                                    *)

IsReady(c) == c.explored /\ \A k \in 1 .. c.kinds : c.content[k] = "whole"

Effect(c) ==
  CASE c.step = "AddItems" -> [c EXCEPT !.content[c.index] = "whole"]
    [] c.step = "SetExplored" -> [c EXCEPT !.explored = TRUE]
    [] c.step = "AddCorpse" -> [c EXCEPT !.placed = TRUE, !.spoiled = @ \/ ~IsReady(c)]
    [] OTHER -> c

\* The game may add fewer items than it was asked to; a call that fails may have had its
\* effect.
Runs ==
  /\ corpse.call = "queued"
  /\ \/ corpse' = [Effect(corpse) EXCEPT !.call = "done"] /\ NoFault
     \/ corpse.step = "AddItems" /\ Fault
          /\ corpse' = [corpse EXCEPT !.content[corpse.index] = "part", !.call = "short"]
     \/ \E c \in {corpse, Effect(corpse)} : corpse' = [c EXCEPT !.call = "failed"] /\ Fault
  /\ UNCHANGED <<game, requests>>

\* The container of a request that was given up at its last step.
RunsLate ==
  /\ corpse.late # "none"
  /\ corpse' = [corpse EXCEPT !.late = "none", !.spoiled = @ \/ corpse.late = "part"]
  /\ UNCHANGED <<game, bounds>>

-----------------------------------------------------------------------------
(* The bridge.                                                             *)

\* FailPending
Reset(c) ==
  [c EXCEPT !.active = FALSE, !.call = "none", !.content = Empty, !.explored = FALSE,
            !.late = IF c.call = "queued" /\ c.step = "AddCorpse"
                     THEN IF IsReady(c) THEN "whole" ELSE "part"
                     ELSE @]

QueuePendingCall(c, step) == [c EXCEPT !.step = step, !.call = "queued"]

After(step) ==
  LET chain == Preparations \o Fillings
      i == CHOOSE i \in 1 .. Len(chain) : chain[i] = step
  IN chain[i + 1]

\* Faulty variant of Filled: items that are missing are not noticed.
FilledInPart(c) == c.call # "failed"

Filled(c) == c.call = "done"

\* QueueCurrentPayloadItem: the next item of the list, if there is one.
AddedItems(c) ==
  LET d == [c EXCEPT !.index = @ + 1] IN
  QueuePendingCall(d, IF d.index <= d.kinds THEN "AddItems" ELSE "SetExplored")

\* Faulty variant of IsLast: the placing is forgotten.
IsLastTooSoon(c) == c.step = "SetExplored"

IsLast(c) == c.step = "AddCorpse"

\* HandlePendingStep
HandlePendingStep(c) ==
  CASE c.step = "AddItems" -> AddedItems(c)
    [] IsLast(c) -> [Reset(c) EXCEPT !.sent = TRUE]
    [] OTHER -> QueuePendingCall(c, After(c.step))

Updated(c) ==
  CASE c.call = "queued" -> c
    [] Filled(c) -> HandlePendingStep(c)
    [] OTHER -> Reset(c)

\* UpdateCorpsePayloadBridge: a fault is the deadline, a call that cannot be submitted or
\* is not answered in time, or an object that is missing.
Update ==
  /\ player # NoPlayer /\ corpse.active
  /\ \/ corpse' = Updated(corpse) /\ NoFault
     \/ corpse' = Reset(corpse) /\ Fault
  /\ UNCHANGED <<game, requests>>

\* QueueCorpsePayloadRequests
Queue(kinds) ==
  /\ player # NoPlayer /\ Online
  /\ ~corpse.active
  /\ corpse' = [QueuePendingCall(corpse, "QuerySquare") EXCEPT
                  !.active = TRUE, !.kinds = kinds, !.index = 1, !.placed = FALSE,
                  !.sent = FALSE]
  /\ Request
  /\ UNCHANGED game

Next == Live \/ Runs \/ RunsLate \/ Update \/ \E kinds \in Kinds : Queue(kinds)

Spec == Init /\ [][Next]_vars

-----------------------------------------------------------------------------
(* Properties.                                                             *)

\* A container that is placed has every item of the list, and was marked before.
PlacedWhole == ~corpse.spoiled

\* What is announced has been placed.
AnnouncedIsPlaced == corpse.sent => corpse.placed
=============================================================================
