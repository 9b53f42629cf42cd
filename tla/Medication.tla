----------------------------- MODULE Medication -----------------------------
(***************************************************************************)
(* trainer/src/bridge/server_player_effect_bridge.cpp: a medication with   *)
(* the game's own action on a server.  The item is taken from the          *)
(* inventory or requested first, the action is sent while the player wears *)
(* a temporary access level and acts at once, and the effect that the      *)
(* server sends back is waited for.                                        *)
(***************************************************************************)
EXTENDS GameSession

CONSTANTS
  Medicines,
  Blocking   \* whether a frame bars synchronous calls of the game thread

VARIABLE medication

vars == <<medication, game, bounds>>

\* instant and access are the two flags of a player, own is what the game had set;
\* patient is the one an action is being sent for, with what was read before; broken are
\* players whose flags could not be put back.  sent counts the actions of a request.
MedicationTypeOK ==
  medication \in [blocking : BOOLEAN, phase : {"idle", "item", "effect"},
                  medicine : Medicines, baseline : Nat, effect : [Medicines -> Nat],
                  items : SUBSET Medicines, due : BOOLEAN, expired : BOOLEAN,
                  patient : met \cup {NoPlayer}, previous : BOOLEAN, reply : BOOLEAN,
                  own : [Players -> BOOLEAN], instant : [Players -> BOOLEAN],
                  temporary : SUBSET met, broken : SUBSET met, sent : Nat]

Init ==
  /\ GameInit
  /\ \E b \in Blocking, own \in [Players -> BOOLEAN] :
       medication = [blocking |-> b, phase |-> "idle", medicine |-> CHOOSE m \in Medicines : TRUE,
                     baseline |-> 0, effect |-> [m \in Medicines |-> 0], items |-> {},
                     due |-> FALSE, expired |-> FALSE, patient |-> NoPlayer,
                     previous |-> FALSE, reply |-> FALSE, own |-> own, instant |-> own,
                     temporary |-> {}, broken |-> {}, sent |-> 0]

Idle(s) == [s EXCEPT !.phase = "idle", !.baseline = 0, !.due = FALSE, !.expired = FALSE, !.sent = 0]

Busy == medication.patient # NoPlayer

-----------------------------------------------------------------------------
(* The game.  It goes on while the frame waits for the call.               *)

Live ==
  /\ Play
  /\ medication' = [medication EXCEPT !.effect = [m \in Medicines |-> 0], !.items = {}]

\* An item arrives, an effect sets in, 150 ms or the deadline pass.
Receive(m) ==
  /\ player # NoPlayer /\ m \notin medication.items
  /\ medication' = [medication EXCEPT !.items = @ \cup {m}]
  /\ UNCHANGED <<game, bounds>>

Feel(m) ==
  /\ player # NoPlayer /\ medication.effect[m] = 0
  /\ medication' = [medication EXCEPT !.effect[m] = 1]
  /\ UNCHANGED <<game, bounds>>

Elapse ==
  /\ medication.phase # "idle" /\ ~Busy
  /\ \E expired \in BOOLEAN :
       medication' = [medication EXCEPT !.due = TRUE, !.expired = @ \/ expired]
  /\ UNCHANGED <<game, bounds>>

-----------------------------------------------------------------------------
(* The action.                                                             *)

\* What StartTakePillAction has when the call is made: the player's flags are kept.
Sending(s) ==
  [s EXCEPT !.baseline = s.effect[s.medicine], !.patient = player,
     !.previous = s.instant[player], !.instant[player] = TRUE,
     !.temporary = @ \cup {player}]

\* The call comes back: one that was not made, or failed, sent nothing.
Reply ==
  /\ Busy /\ ~medication.reply
  /\ \/ /\ ~medication.blocking /\ NoFault
        /\ medication' = [medication EXCEPT !.reply = TRUE, !.sent = @ + 1]
     \/ medication.blocking /\ NoFault /\ medication' = [medication EXCEPT !.reply = TRUE]
     \/ ~medication.blocking /\ Fault /\ medication' = [medication EXCEPT !.reply = TRUE]
  /\ UNCHANGED <<game, requests>>

\* Faulty variant of Restored: only after an action that was sent.
RestoredIfSent(s, ok) ==
  IF s.sent = 0 THEN [s EXCEPT !.patient = NoPlayer, !.reply = FALSE]
  ELSE [s EXCEPT !.patient = NoPlayer, !.reply = FALSE, !.temporary = @ \ {s.patient},
          !.instant[s.patient] = s.previous]

\* The flags go back in any case.
Restored(s, ok) ==
  [s EXCEPT !.patient = NoPlayer, !.reply = FALSE,
     !.temporary = IF ok THEN @ \ {s.patient} ELSE @,
     !.instant[s.patient] = IF ok THEN s.previous ELSE @,
     !.broken = IF ok THEN @ ELSE @ \cup {s.patient}]

\* Faulty variant of Waiting: the item is looked for again.
WaitingForItem(s) == [s EXCEPT !.phase = "item", !.due = FALSE, !.expired = FALSE]

Waiting(s) == [s EXCEPT !.phase = "effect", !.due = FALSE, !.expired = FALSE]

\* The rest of StartTakePillAction and of its callers: a failure ends the request.
Started ==
  /\ Busy /\ medication.reply
  /\ \E ok \in BOOLEAN :
       /\ IF ok THEN NoFault ELSE Fault
       /\ medication' = LET s == Restored(medication, ok) IN
                        IF ok /\ s.sent > 0 THEN Waiting(s) ELSE Idle(s)
  /\ UNCHANGED <<game, requests>>

\* FindInventoryItem needs a synchronous call.
Finds(s) == s.medicine \in s.items /\ ~s.blocking

\* Items that are looked for when a call fails are not found; a baseline that cannot be
\* read ends the request.
Take(s, missing) ==
  \/ Finds(s) /\ NoFault /\ medication' = Sending(s)
  \/ Finds(s) /\ Fault /\ medication' \in {missing, Idle(s)}
  \/ ~Finds(s) /\ NoFault /\ medication' = missing

-----------------------------------------------------------------------------
(* The operations of the bridge.                                           *)

\* RequestServerTimedMedication: an item that is missing is queued, if that can be done.
RequestServerTimedMedication(m) ==
  /\ medication.phase = "idle" /\ ~Busy /\ player # NoPlayer
  /\ LET asked == [Idle(medication) EXCEPT !.medicine = m] IN
     \E missing \in {asked, [asked EXCEPT !.phase = "item"]} : Take(asked, missing)
  /\ requests < MaxRequests /\ requests' = requests + 1
  /\ UNCHANGED game

\* UpdateServerPlayerEffectBridge, every 150 ms: without a player not even the deadline.
Later(s) == [s EXCEPT !.due = FALSE]

Expire ==
  /\ medication.expired /\ NoFault
  /\ medication' = Idle(medication)

LookForItem == ~medication.expired /\ medication.phase = "item" /\ Take(medication, Later(medication))

LookForEffect ==
  LET s == medication IN
  /\ ~s.expired /\ s.phase = "effect"
  /\ \/ NoFault /\ s.effect[s.medicine] # s.baseline /\ medication' = Idle(s)
     \/ NoFault /\ s.effect[s.medicine] = s.baseline /\ medication' = Later(s)
     \/ Fault /\ medication' = Later(s)

Update ==
  /\ medication.phase # "idle" /\ ~Busy /\ medication.due /\ player # NoPlayer
  /\ Expire \/ LookForItem \/ LookForEffect
  /\ UNCHANGED <<game, requests>>

Next ==
  \/ Live \/ Elapse
  \/ \E m \in Medicines : Receive(m) \/ Feel(m) \/ RequestServerTimedMedication(m)
  \/ Reply \/ Started \/ Update

Spec == Init /\ [][Next]_vars

-----------------------------------------------------------------------------
(* Properties.                                                             *)

\* Outside of the call every player has his own flags, whatever became of the call, even
\* if another player has taken his place meanwhile; unless putting them back failed.
PlayersKeepTheirFlags ==
  \A p \in Players \ (medication.broken \cup {medication.patient}) :
    p \notin medication.temporary /\ medication.instant[p] = medication.own[p]

\* One action is sent for a request, and its effect is waited for only after that.
OneActionPerRequest ==
  ~Busy => medication.sent = IF medication.phase = "effect" THEN 1 ELSE 0
=============================================================================
