------------------------------ MODULE Experience ------------------------------
(***************************************************************************)
(* trainer/src/bridge/experience_bridge.cpp and                            *)
(* maintenance_training_bridge.cpp: the skills of the player are read      *)
(* every 250 ms, and experience is added here, by the game in a local      *)
(* world, or by a message to the server, at once or in a training that     *)
(* sends one now and then until the goal is reached.                       *)
(*                                                                         *)
(* One skill stands for all, with small numbers for its experience.        *)
(***************************************************************************)
EXTENDS GameSession

CONSTANT Top  \* experience of the highest level

VARIABLE experience

vars == <<experience, game, bounds>>

Amounts == 0 .. Top

\* bound, mode, ready, catalog and seen are what the last refresh found; training, goal
\* and rested the training under way.  xp[p] is what player p has, onServer[p] what the
\* server knows.  History: trainee is who started the training, strayed tells that a
\* message was sent for somebody else, offline or beyond the goal, and unsent are players
\* of whom the server was not told something.
ExperienceTypeOK ==
  experience \in [bound : met \cup {NoPlayer}, mode : Sessions, ready : BOOLEAN,
                  catalog : BOOLEAN, seen : Amounts, xp : [Players -> Amounts],
                  onServer : [Players -> Amounts], training : BOOLEAN, goal : 0 .. 2 * Top,
                  rested : BOOLEAN, trainee : met \cup {NoPlayer}, strayed : BOOLEAN,
                  unsent : SUBSET Players]

Init ==
  /\ GameInit
  /\ experience = [bound |-> NoPlayer, mode |-> "local", ready |-> FALSE, catalog |-> FALSE,
                   seen |-> 0, xp |-> [p \in Players |-> 0],
                   onServer |-> [p \in Players |-> 0], training |-> FALSE, goal |-> 0,
                   rested |-> FALSE, trainee |-> NoPlayer, strayed |-> FALSE, unsent |-> {}]

-----------------------------------------------------------------------------
(* The game.                                                               *)

\* Loading a world takes longer than the time between two refreshes.
Live ==
  /\ Play
  /\ player = NoPlayer => ~experience.ready
  /\ UNCHANGED experience

\* The player learns something: on a server, from a message of the training for one.
Learn ==
  /\ player # NoPlayer /\ experience.xp[player] < Top
  /\ experience' = [experience EXCEPT !.xp[player] = @ + 1, !.onServer[player] = @ + 1]
  /\ Request
  /\ UNCHANGED game

\* The interval between two messages has passed.
Rest ==
  /\ experience.training /\ ~experience.rested
  /\ experience' = [experience EXCEPT !.rested = TRUE]
  /\ UNCHANGED <<game, bounds>>

-----------------------------------------------------------------------------
(* The training.                                                           *)

\* StartMaintenanceTraining and StopMaintenanceTraining.
Started(e, amount) ==
  [e EXCEPT !.training = TRUE, !.goal = e.seen + amount, !.rested = FALSE, !.trainee = player]

Stopped(e) == [e EXCEPT !.training = FALSE]

\* UpdateMaintenanceTraining: an attack or the wrong weapon in the hand starts another
\* pause, and a call that fails ends the training.
Trained(e, fails) ==
  IF ~e.training THEN {e}
  ELSE IF e.seen >= e.goal \/ fails THEN {Stopped(e)}
  ELSE IF ~e.rested THEN {e}
  ELSE {[e EXCEPT !.rested = FALSE],
        [e EXCEPT !.rested = FALSE,
           !.strayed = @ \/ e.trainee # player \/ ~Online \/ e.seen >= e.goal]}

-----------------------------------------------------------------------------
(* The refresh.                                                            *)

\* No JVM or no bindings: the session stays as it was, and so does the training.
Unready(e) == [e EXCEPT !.ready = FALSE]

\* ResetPlayerSession.
NobodyThere(e) == [Stopped(e) EXCEPT !.bound = NoPlayer, !.catalog = FALSE, !.ready = FALSE]

\* Faulty variant of Bound: the training goes on with the new player.
BoundAndTraining(e) ==
  [e EXCEPT !.mode = session, !.bound = player, !.catalog = @ /\ e.bound = player]

\* Another player or another kind of session starts anew.
Bound(e) ==
  IF e.mode = session /\ e.bound = player THEN e
  ELSE [Stopped(e) EXCEPT !.mode = session, !.bound = player, !.catalog = FALSE,
          !.seen = 0, !.ready = FALSE]

\* BuildCatalog and RefreshValues.
Refreshed(e) == [e EXCEPT !.catalog = TRUE, !.seen = e.xp[player], !.ready = TRUE]

AfterRefresh(e, fails) == IF Online THEN Trained(e, fails) ELSE {Stopped(e)}

\* UpdateExperienceBridge.  Without a catalog the frame ends; if the values cannot be
\* read, the training goes on with the old ones.
Update ==
  LET there == player # NoPlayer
      known == Bound(experience) IN
  /\ \/ there /\ NoFault /\ experience' \in AfterRefresh(Refreshed(known), FALSE)
     \/ ~there /\ NoFault /\ experience' = [NobodyThere(experience) EXCEPT !.mode = session]
     \/ Fault /\ \/ experience' = Unready(experience)
                 \/ there /\ ~known.catalog /\ experience' = Unready(known)
                 \/ there /\ experience' \in
                      AfterRefresh([Unready(known) EXCEPT !.catalog = TRUE], FALSE)
                      \cup AfterRefresh(Refreshed(known), TRUE)
  /\ UNCHANGED <<game, requests>>

-----------------------------------------------------------------------------
(* The user.                                                               *)

Gained(e, amount) ==
  [e EXCEPT !.xp[player] = IF @ + amount > Top THEN Top ELSE @ + amount]

\* In a local world the server is this game.
Known(e) == [e EXCEPT !.onServer[player] = e.xp[player]]

\* AddSkillExperience and AddSkillLevel: what is added goes to the player of this moment,
\* in the way of the session that the last refresh has seen.
AddLocally(amount) ==
  /\ experience.ready /\ experience.mode = "local" /\ player # NoPlayer
  /\ experience' = Known(Gained(experience, amount))

ToggleTraining(amount) ==
  /\ experience.ready /\ experience.mode = "multiplayer" /\ player # NoPlayer
  /\ \/ experience.training /\ experience' = Stopped(experience)
     \/ /\ ~experience.training /\ experience.seen < Top
        /\ experience' = Started(experience, amount)

\* Faulty variant of AddSkillExperienceVanilla: without the message to the server.
AddHereOnly(amount) ==
  /\ experience.ready /\ player # NoPlayer
  /\ NoFault /\ experience' = Gained(experience, amount)

\* AddSkillExperienceVanilla: on a server a message follows; if it fails, what was added
\* stays.
AddSkillExperienceVanilla(amount) ==
  /\ experience.ready /\ player # NoPlayer
  /\ \/ NoFault /\ experience' = Known(Gained(experience, amount))
     \/ Fault /\ experience.mode = "multiplayer"
        /\ experience' = [Gained(experience, amount) EXCEPT !.unsent = @ \cup {player}]

Use ==
  /\ requests < MaxRequests /\ requests' = requests + 1
  /\ \E amount \in 1 .. Top :
       \/ (AddLocally(amount) \/ ToggleTraining(amount)) /\ NoFault
       \/ AddSkillExperienceVanilla(amount)
  /\ UNCHANGED game

Next == Live \/ Learn \/ Rest \/ Update \/ Use

Spec == Init /\ [][Next]_vars

-----------------------------------------------------------------------------
(* Properties.                                                             *)

\* Messages of a training are sent for the player who started it, to a server, and not
\* beyond the goal, whoever has died, left or come back since.
TrainingStaysWithItsPlayer == ~experience.strayed

\* What a player has gained here is known to the server, unless a message failed.
GainsAreKnown ==
  \A p \in Players \ experience.unsent : experience.xp[p] = experience.onServer[p]
===============================================================================
