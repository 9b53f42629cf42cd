--------------------------- MODULE PlayerResource ---------------------------
(***************************************************************************)
(* trainer/src/bridge/player_resource_bridge.cpp and                       *)
(* endurance_compensation_bridge.cpp: worn items in the hands are repaired *)
(* and, on a server, reported; and while a player on a server runs, states *)
(* of movement that count as walking are submitted, each in two calls of   *)
(* the game thread, and a plain one after the feature was turned off.      *)
(*                                                                         *)
(* Endurance in a local world is set to its maximum in every frame: that   *)
(* part remembers nothing and is left out.                                 *)
(***************************************************************************)
EXTENDS GameSession

CONSTANT Hands  \* hands that hold an item of their own

VARIABLE resource

vars == <<resource, game, bounds>>

Stages == {"Idle", "SettingPacket", "SendingPacket"}
States == {"plain", "eased"}

\* enabled, repairing: the two requests; was: g_was_enabled; restoring:
\* g_restore_requested; stage, pending and call: the submission under way; due:
\* g_next_send has come.  The server has last seen the state `seen'.  History: late are
\* submissions that were given up with their call in the queue, undone tells that a
\* plain state was lost or overtaken, or that a world was entered with a submission still
\* under way, unsent are repairs the server was not told.
ResourceTypeOK ==
  /\ resource \in [enabled : BOOLEAN, was : BOOLEAN, restoring : BOOLEAN, stage : Stages,
                   pending : States, call : {"none", "queued", "overdue", "done"},
                   due : BOOLEAN, fast : BOOLEAN, seen : States, late : SUBSET States,
                   undone : BOOLEAN, repairing : BOOLEAN, worn : SUBSET Hands,
                   wornOnServer : SUBSET Hands, unsent : SUBSET Hands]
  /\ resource.call = "none" <=> resource.stage = "Idle"

Init ==
  /\ GameInit
  /\ resource = [enabled |-> FALSE, was |-> FALSE, restoring |-> FALSE, stage |-> "Idle",
                 pending |-> "plain", call |-> "none", due |-> TRUE, fast |-> FALSE,
                 seen |-> "plain", late |-> {}, undone |-> FALSE, repairing |-> FALSE,
                 worn |-> {}, wornOnServer |-> {}, unsent |-> {}]

-----------------------------------------------------------------------------
(* The game.                                                               *)

\* Another server has seen nothing, and another player holds other items.
Live ==
  /\ Play
  /\ resource' = [resource EXCEPT !.worn = {}, !.wornOnServer = {}, !.unsent = {},
                    !.fast = FALSE, !.seen = IF player' = NoPlayer THEN "plain" ELSE @,
                    !.undone = player' # NoPlayer /\ (@ \/ (player = NoPlayer /\ resource.stage # "Idle"))]

Run ==
  /\ player # NoPlayer
  /\ resource' = [resource EXCEPT !.fast = ~@]
  /\ Request
  /\ UNCHANGED game

Wear(hand) ==
  /\ player # NoPlayer /\ hand \notin resource.worn
  /\ resource' = [resource EXCEPT !.worn = @ \cup {hand},
                    !.wornOnServer = IF Online THEN @ \cup {hand} ELSE @]
  /\ Request
  /\ UNCHANGED game

Received(r, state) == IF Online /\ player # NoPlayer THEN [r EXCEPT !.seen = state] ELSE r

\* The game thread runs the call, perhaps after it was given up.
Serve ==
  /\ resource.call \in {"queued", "overdue"}
  /\ resource' = [(IF resource.stage = "SendingPacket"
                   THEN Received(resource, resource.pending) ELSE resource)
                    EXCEPT !.call = "done"]
  /\ UNCHANGED <<game, bounds>>

ServeLate(state) ==
  /\ resource' = [Received(resource, state) EXCEPT !.late = @ \ {state},
                    !.undone = @ \/ state # "plain"]
  /\ UNCHANGED <<game, bounds>>

\* Two seconds, or the interval between two submissions, have passed.
Elapse ==
  /\ \/ resource.call = "queued" /\ Fault /\ resource' = [resource EXCEPT !.call = "overdue"]
     \/ ~resource.due /\ NoFault /\ resource' = [resource EXCEPT !.due = TRUE]
  /\ UNCHANGED <<game, requests>>

SetEnduranceRecoveryEnabled(on) ==
  /\ resource' = [resource EXCEPT !.enabled = on]
  /\ Request
  /\ UNCHANGED game

SetDurabilityProtectionEnabled(on) ==
  /\ resource' = [resource EXCEPT !.repairing = on]
  /\ Request
  /\ UNCHANGED game

-----------------------------------------------------------------------------
(* The submission.                                                         *)

\* ResetMovementStateSubmission.  A call that is given up stays in the queue.
Reset(r) ==
  [r EXCEPT !.stage = "Idle", !.call = "none",
     !.late = IF r.stage = "SendingPacket" /\ r.call \in {"queued", "overdue"}
              THEN @ \cup {r.pending} ELSE @,
     !.undone = @ \/ (r.pending = "plain" /\ ~(r.stage = "SendingPacket" /\ r.call = "done"))]

\* PollMovementStateSubmission: the first answer queues the second call.
Polled(r, fails) ==
  IF r.stage = "Idle" \/ (r.call = "queued" /\ ~fails) THEN r
  ELSE IF r.stage = "SettingPacket" /\ r.call = "done" /\ ~fails
  THEN [r EXCEPT !.stage = "SendingPacket", !.call = "queued"]
  ELSE Reset(r)

\* QueueMovementState.
Submitted(r, state, fails) ==
  IF fails THEN r
  ELSE [r EXCEPT !.stage = "SettingPacket", !.call = "queued", !.pending = state]

\* Faulty variant of TurnedOff: one try has to do.
TurnedOffAtOnce(r, fails) ==
  IF ~Online THEN [r EXCEPT !.was = FALSE, !.due = TRUE, !.restoring = FALSE]
  ELSE LET off == [r EXCEPT !.was = FALSE, !.due = TRUE, !.restoring = FALSE] IN
       IF (r.restoring \/ r.was) /\ r.stage = "Idle" /\ player # NoPlayer
       THEN Submitted(off, "plain", fails) ELSE off

TurnedOff(r, fails) ==
  IF ~Online THEN [r EXCEPT !.was = FALSE, !.due = TRUE, !.restoring = FALSE]
  ELSE LET off == [r EXCEPT !.was = FALSE, !.due = TRUE, !.restoring = @ \/ r.was] IN
       IF off.restoring /\ r.stage = "Idle" /\ player # NoPlayer
       THEN Submitted([off EXCEPT !.restoring = fails], "plain", fails) ELSE off

TurnedOn(r, fails) ==
  LET on == [r EXCEPT !.was = TRUE, !.restoring = FALSE] IN
  IF player # NoPlayer /\ r.fast /\ r.due /\ r.stage = "Idle"
  THEN Submitted([on EXCEPT !.due = FALSE], "eased", fails) ELSE on

\* UpdateEnduranceCompensationBridge.
Compensated(fails) ==
  LET r == Polled(resource, fails) IN
  IF Online /\ r.enabled THEN TurnedOn(r, fails) ELSE TurnedOff(r, fails)

-----------------------------------------------------------------------------
(* The items.                                                              *)

\* RestoreItem and SendItemFields, for each hand: the repair stays, sent or not.
Repaired(r, hands, sent) ==
  [r EXCEPT !.worn = @ \ hands,
     !.wornOnServer = IF sent THEN @ \ hands ELSE @,
     !.unsent = IF sent THEN @ \ hands ELSE IF Online THEN @ \cup hands ELSE @]

\* Faulty variant of Items: nobody tells the server.
ItemsOffline(r, fails) ==
  IF r.repairing /\ player # NoPlayer
  THEN {[Repaired(r, r.worn, TRUE) EXCEPT !.wornOnServer = r.wornOnServer]} ELSE {r}

\* The items that were sent, those that could not be sent, and those that were kept as they are.
PartlyRepaired(r, sent, kept) ==
  Repaired(Repaired(r, sent, Online), r.worn \ (sent \cup kept), FALSE)

Items(r, fails) ==
  IF ~r.repairing \/ player = NoPlayer THEN {r}
  ELSE IF ~fails THEN {Repaired(r, r.worn, Online)}
  ELSE {PartlyRepaired(r, sent, kept) : sent \in SUBSET r.worn, kept \in SUBSET r.worn}

\* UpdatePlayerResourceBridge.
Update ==
  /\ \E failing \in {"nothing", "submission", "items"} :
       /\ IF failing = "nothing" THEN NoFault ELSE Fault
       /\ resource' \in Items(Compensated(failing = "submission"), failing = "items")
  /\ UNCHANGED <<game, requests>>

Next ==
  \/ Live \/ Run \/ Serve \/ Elapse
  \/ \E hand \in Hands : Wear(hand)
  \/ \E state \in resource.late : ServeLate(state)
  \/ \E on \in BOOLEAN : SetEnduranceRecoveryEnabled(on) \/ SetDurabilityProtectionEnabled(on)
  \/ Update

Spec == Init /\ [][Next]_vars

-----------------------------------------------------------------------------
(* Properties.                                                             *)

\* Once the feature is off and nothing is under way, the server has last seen a plain
\* state; lost and overtaken submissions are the exception, which nobody repeats, and one
\* that was under way when the world was entered: a local world in between makes the
\* bridge forget that it has something to take back.
OffEndsPlain ==
  ~resource.was /\ ~resource.restoring /\ resource.stage = "Idle" =>
    resource.seen = "plain" \/ resource.undone

\* An item that is whole here is whole on the server, unless the message about that
\* repair failed: the next frame finds nothing to repair and sends none.
ServerKnowsTheRepairs == resource.wornOnServer \subseteq resource.worn \cup resource.unsent
=============================================================================
