---------------------------- MODULE PlayerCarry ----------------------------
(***************************************************************************)
(* trainer/src/bridge/player_carry_bridge.cpp and                          *)
(* java/pztrainer/player/CarryOverrides.java: IsoGameCharacter.getMaxWeight *)
(* is multiplied while the feature is on.  The frame thread configures the *)
(* helper, the game thread updates it, and on a server the result is sent  *)
(* there and comes back as the weight of the player.                       *)
(*                                                                         *)
(* update() reads the volatile request several times; its steps are        *)
(* actions of their own here.                                              *)
(***************************************************************************)
EXTENDS GameSession

CONSTANTS
  OwnWeight,  \* the weight the game gives a player
  Factors,    \* multipliers
  MaxWeight   \* bound: weights above it count as it

VARIABLE carry

vars == <<carry, game, bounds>>

Unknown == -1

\* raw: the weight field of the player; base, last, active, target, previous and factor:
\* the fields of CarryOverrides; queued: its flag; tasks: updates in the game's queue;
\* step: where a running update is; echoes: what the server sends back; disturbed: the
\* settings have changed since something was sent for this player, or while an update ran.
CarryTypeOK ==
  carry \in [requested : BOOLEAN, factor : Factors, raw : 0 .. MaxWeight,
             base : 0 .. MaxWeight, last : Unknown .. MaxWeight, active : BOOLEAN,
             target : met \cup {NoPlayer}, previous : met \cup {NoPlayer},
             queued : BOOLEAN, tasks : 0 .. 1, step : {"none", "publish", "finish"},
             echoes : SUBSET (0 .. MaxWeight), disturbed : BOOLEAN]

Init ==
  /\ GameInit
  /\ \E factor \in Factors :
       carry = [requested |-> FALSE, factor |-> factor, raw |-> OwnWeight, base |-> 0,
                last |-> Unknown, active |-> FALSE, target |-> NoPlayer,
                previous |-> NoPlayer, queued |-> FALSE, tasks |-> 0, step |-> "none",
                echoes |-> {}, disturbed |-> FALSE]

-----------------------------------------------------------------------------
(* The game.                                                               *)

Live ==
  /\ Play
  /\ carry.step = "none"
  /\ carry' = [carry EXCEPT !.raw = OwnWeight, !.echoes = {}]

Capped(weight) == IF weight > MaxWeight THEN MaxWeight ELSE weight

\* Faulty variant of Based: every value is taken for the game's.
BasedOnAnything(c) ==
  IF c.requested /\ c.target = player THEN [c EXCEPT !.base = c.raw] ELSE c

\* scaledWeight, as a side effect and as a value: what was sent last is not multiplied
\* again.
Based(c) ==
  IF c.requested /\ c.target = player /\ c.raw # c.last THEN [c EXCEPT !.base = c.raw] ELSE c

Scaled(c) ==
  IF c.requested /\ c.target = player THEN Capped(Based(c).base * c.factor) ELSE c.raw

\* The game asks for the weight of the player.
ReadWeight ==
  /\ player # NoPlayer /\ carry.step = "none"
  /\ carry' = Based(carry)
  /\ UNCHANGED <<game, bounds>>

\* PlayerDamage comes back from the server.
Echo(weight) ==
  /\ carry.step = "none"
  /\ carry' = [carry EXCEPT !.raw = weight, !.echoes = @ \ {weight}]
  /\ UNCHANGED <<game, bounds>>

-----------------------------------------------------------------------------
(* The frame thread.                                                       *)

\* SetUnlimitedCarryEnabled, SetCarryWeightMultiplier and configure, which runs in every
\* frame: the settings arrive at once.
Configure(enabled, factor) ==
  /\ carry' = [carry EXCEPT !.requested = enabled, !.factor = factor,
                 !.disturbed = @ \/ ((carry.last # Unknown \/ carry.step # "none")
                                     /\ (enabled # carry.requested \/ factor # carry.factor))]
  /\ Request
  /\ UNCHANGED game

QueueUpdate ==
  /\ ~carry.queued
  /\ \/ NoFault /\ carry' = [carry EXCEPT !.queued = TRUE, !.tasks = @ + 1]
     \/ Fault /\ carry' = [carry EXCEPT !.target = NoPlayer]
  /\ UNCHANGED <<game, requests>>

-----------------------------------------------------------------------------
(* The game thread: update().                                              *)

\* Faulty variant of Begin: the flag is free as soon as the update runs.
BeginAndRelease ==
  /\ carry.tasks = 1 /\ carry.step = "none"
  /\ carry' = [carry EXCEPT !.tasks = 0, !.step = "publish", !.queued = FALSE]
  /\ UNCHANGED <<game, bounds>>

\* No player who can carry anything, or an error.
BeginUnavailable ==
  /\ carry.tasks = 1 /\ carry.step = "none"
  /\ LET c == [carry EXCEPT !.tasks = 0, !.queued = FALSE, !.target = NoPlayer] IN
     \/ /\ player = NoPlayer /\ NoFault
        /\ carry' = [c EXCEPT !.previous = NoPlayer, !.active = FALSE]
     \/ Fault /\ carry' = c
  /\ UNCHANGED <<game, requests>>

\* Another player or connection starts anew; the weight goes back when the feature is
\* off again.
Begin ==
  /\ carry.tasks = 1 /\ carry.step = "none" /\ player # NoPlayer
  /\ LET known == carry.previous = player
         c == [carry EXCEPT !.previous = player, !.active = @ /\ known,
                 !.last = IF known THEN @ ELSE Unknown, !.disturbed = @ /\ known]
     IN  carry' = [c EXCEPT !.tasks = 0, !.step = "publish",
                     !.raw = IF c.active /\ ~c.requested THEN c.base ELSE @]
  /\ UNCHANGED <<game, bounds>>

\* sendPlayerDamage writes the weight as getMaxWeight gives it.  The second between two
\* messages may have passed or not.
Publish ==
  /\ carry.step = "publish"
  /\ LET c == [carry EXCEPT !.target = IF carry.requested THEN player ELSE NoPlayer]
         weight == Scaled(c)
         read == [Based(c) EXCEPT !.step = "finish"]
         sent == [read EXCEPT !.last = weight, !.echoes = @ \cup {weight}]
         must == (c.requested /\ weight # c.last) \/ (c.active /\ ~c.requested)
     IN  carry' \in IF ~Online THEN {read}
                    ELSE IF must THEN {sent}
                    ELSE IF c.requested THEN {sent, read} ELSE {read}
  /\ UNCHANGED <<game, bounds>>

Finish ==
  /\ carry.step = "finish"
  /\ carry' = [carry EXCEPT !.active = carry.requested, !.queued = FALSE, !.step = "none"]
  /\ UNCHANGED <<game, bounds>>

Next ==
  \/ Live \/ ReadWeight
  \/ \E weight \in carry.echoes : Echo(weight)
  \/ \E enabled \in BOOLEAN, factor \in Factors : Configure(enabled, factor)
  \/ QueueUpdate \/ BeginUnavailable \/ Begin \/ Publish \/ Finish

Spec == Init /\ [][Next]_vars

-----------------------------------------------------------------------------
(* Properties.                                                             *)

\* An echo is recognised as long as the settings stay as they were when it was sent: what
\* is multiplied for the player who carries more is the weight the game gave him, or none
\* was read yet.
SteadyEchoIsRecognised ==
  carry.requested /\ player # NoPlayer /\ {carry.target, carry.previous} = {player} =>
    carry.base = OwnWeight \/ carry.disturbed

\* Never two updates at once, in the queue or running, and the flag says when there is
\* one.
OneCarryUpdate ==
  (IF carry.step = "none" THEN 0 ELSE 1) + carry.tasks = (IF carry.queued THEN 1 ELSE 0)

\* The comment in scaledWeight: an echo of what was sent is not multiplied again.
EchoIsNotMultiplied == carry.base \in {0, OwnWeight}
=============================================================================
