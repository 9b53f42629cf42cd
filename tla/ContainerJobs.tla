---------------------------- MODULE ContainerJobs ----------------------------
(***************************************************************************)
(* trainer/src/java/pztrainer/extensions/ContainerOperations.java: the     *)
(* containers around the player are emptied on a server, a few at a time   *)
(* and each in batches, and filled anew by the server if that is asked for.*)
(* The job spans many runs on the game thread: meanwhile the character, the*)
(* connection and the containers change.                                   *)
(***************************************************************************)
EXTENDS GameSession, Sequences, Functions

CONSTANTS Containers, MaxItems, MaxRounds  \* a batch holds one item, in the code 128

VARIABLE job

vars == <<job, game, bounds>>

Links == 0 .. 2
NoLink == 0

\* owner, connection, reroll and targets are the job's; total is how many targets it began
\* with.  here and server are what each container holds here and on the server, placed
\* those that are where they were.  refills are the requests to fill a container, each
\* with what was in it here and there, and the connections of the request and of the job;
\* filled are the containers this job has had filled, rounds the steps of all jobs.
JobTypeOK ==
  /\ job.owner \in Players \cup {NoPlayer} /\ job.previous \in Players \cup {NoPlayer}
  /\ job.link \in Links /\ job.previousLink \in Links /\ job.connection \in Links
  /\ job.reroll \in BOOLEAN /\ job.placed \subseteq Containers
  /\ Range(job.targets) \subseteq Containers /\ Len(job.targets) <= Cardinality(Containers)
  /\ job.completed \in 0 .. job.total /\ job.skipped \in 0 .. job.total
  /\ job.here \in [Containers -> 0 .. MaxItems] /\ job.server \in [Containers -> 0 .. MaxItems]
  /\ \A c \in Containers : job.filled[c] \in Nat /\ job.twice \in BOOLEAN
  /\ \A r \in job.refills : r.container \in Containers

Init ==
  /\ GameInit
  /\ \E items \in [Containers -> 1 .. MaxItems] :
       job = [owner |-> NoPlayer, previous |-> NoPlayer, link |-> NoLink, previousLink |-> NoLink,
              connection |-> NoLink, reroll |-> FALSE, placed |-> Containers, targets |-> <<>>,
              completed |-> 0, skipped |-> 0, total |-> 0, here |-> items, server |-> items,
              filled |-> [c \in Containers |-> 0], twice |-> FALSE, refills |-> {}, rounds |-> 0]

-----------------------------------------------------------------------------
(* The game.                                                               *)

Live ==
  /\ Play
  /\ job' = [job EXCEPT !.link = IF player' = NoPlayer THEN NoLink
                                 ELSE IF player = NoPlayer /\ session' = "multiplayer"
                                 THEN (IF met = {} THEN 1 ELSE 2) ELSE @]

Reconnect ==
  /\ Online /\ job.link = 1
  /\ job' = [job EXCEPT !.link = 2]
  /\ UNCHANGED <<game, bounds>>

\* A container is broken or carried off.
Move(c) ==
  /\ c \in job.placed
  /\ job' = [job EXCEPT !.placed = @ \ {c}]
  /\ UNCHANGED <<game, bounds>>

\* The user puts something in.
Put(c) ==
  /\ player # NoPlayer /\ c \in job.placed /\ job.here[c] < MaxItems /\ job.server[c] < MaxItems
  /\ job' = [job EXCEPT !.here[c] = @ + 1, !.server[c] = @ + 1]
  /\ Request
  /\ UNCHANGED game

\* What the server put into a container arrives.
Arrive(c) ==
  /\ Online /\ job.link # NoLink /\ job.here[c] < job.server[c]
  /\ job' = [job EXCEPT !.here[c] = job.server[c]]
  /\ UNCHANGED <<game, bounds>>

Ready == player # NoPlayer /\ (Online => job.link # NoLink)

-----------------------------------------------------------------------------
(* The job.                                                                *)

Cancelled(j) == [j EXCEPT !.targets = <<>>, !.owner = NoPlayer, !.connection = NoLink]

\* begin: nothing while another job is under way.
Begin(reroll) ==
  /\ Online /\ Ready /\ job.previous = player /\ job.previousLink = job.link
  /\ job.owner = NoPlayer
  /\ \E order \in Bijection(1 .. Cardinality(job.placed), job.placed) :
       job' = [job EXCEPT !.owner = player, !.connection = job.link, !.reroll = reroll,
                          !.completed = 0, !.skipped = 0, !.targets = order, !.total = Len(order),
                          !.filled = [c \in Containers |-> 0]]
  /\ Request
  /\ UNCHANGED game

\* Faulty variant of Done: the container stays in the line.
DoneLater(j) == [j EXCEPT !.completed = @ + 1, !.targets = Append(Tail(@), Head(@))]

Done(j) == [j EXCEPT !.completed = @ + 1, !.targets = Tail(@)]

Skipped(j) == [j EXCEPT !.skipped = @ + 1, !.targets = Tail(@)]

\* Faulty variant of Emptied: the server is not told.
EmptiedHere(j, c) == [j EXCEPT !.here[c] = @ - 1]

\* A batch is taken out, first on the server.
Emptied(j, c) == [j EXCEPT !.server[c] = IF @ > 0 THEN @ - 1 ELSE 0, !.here[c] = @ - 1]

\* The server fills what has not been looked into.
Refilled(j, c) ==
  [j EXCEPT !.server[c] = IF @ = 0 THEN 1 ELSE @,
            !.filled[c] = @ + 1, !.twice = @ \/ j.filled[c] > 0,
            !.refills = @ \cup {[container |-> c, here |-> j.here[c], by |-> j.link, of |-> j.connection]}]

\* Faulty variant of Handled: a batch is taken to be all there is.
HandledAtOnce(j) ==
  LET c == Head(j.targets)
      left == IF j.here[c] > 0 THEN Emptied(j, c) ELSE j
  IN  IF c \notin j.placed THEN Skipped(j) ELSE Done(IF j.reroll THEN Refilled(left, c) ELSE left)

\* One turn of the loop of update, with the first of the line.
Handled(j) ==
  LET c == Head(j.targets)
      left == IF j.here[c] > 0 THEN Emptied(j, c) ELSE j
  IN  IF c \notin j.placed THEN Skipped(j)
      ELSE IF left.here[c] > 0 THEN left
      ELSE Done(IF j.reroll THEN Refilled(left, c) ELSE left)

\* Up to four turns, and the job ends when none is left.
Step(j) == IF j.targets = <<>> THEN j ELSE Handled(j)
Stepped(j) == LET all == Step(Step(Step(Step(j)))) IN IF all.targets = <<>> THEN Cancelled(all) ELSE all

Stale(j) == player # j.owner \/ j.link # j.connection

\* The character or the connection is another one than in the run before.
Moved == ~Ready \/ job.previous # player \/ job.previousLink # job.link

\* ExtensionRuntime.run, as far as it is about the job; an error cancels it, after the
\* server was told of a batch.
Run ==
  /\ LET begun == IF Moved
                  THEN [Cancelled(job) EXCEPT !.previous = IF Ready THEN player ELSE NoPlayer,
                                              !.previousLink = job.link]
                  ELSE job
         underWay == Ready /\ begun.owner # NoPlayer
         stepped == IF ~underWay THEN begun ELSE IF Stale(begun) THEN Cancelled(begun) ELSE Stepped(begun)
     IN  \/ /\ NoFault
            /\ job.rounds < MaxRounds \/ ~underWay
            /\ job' = [stepped EXCEPT !.rounds = IF underWay THEN @ + 1 ELSE @]
         \/ /\ Fault /\ underWay /\ ~Stale(begun) /\ begun.targets # <<>>
            /\ LET c == Head(begun.targets) IN
               /\ c \in begun.placed /\ begun.here[c] > 0
               /\ job' = Cancelled([begun EXCEPT !.server[c] = IF @ > 0 THEN @ - 1 ELSE 0])
  /\ UNCHANGED <<game, requests>>

Next ==
  \/ Live \/ Reconnect \/ Run
  \/ \E c \in Containers : Move(c) \/ Put(c) \/ Arrive(c)
  \/ \E reroll \in BOOLEAN : Begin(reroll)

Spec == Init /\ [][Next]_vars

-----------------------------------------------------------------------------
(* Properties.                                                             *)

\* A container is filled anew once in a job, when it is empty, and by the server the job
\* was given for, whatever is put into it or arrives in between.
RefillsFindItEmpty ==
  /\ ~job.twice
  /\ \A r \in job.refills : r.here = 0 /\ r.by = r.of /\ r.by # NoLink

\* Every container the job began with is done, skipped or still in the line.
TargetsAreCounted ==
  job.owner # NoPlayer => job.completed + job.skipped + Len(job.targets) = job.total

\* What was taken out here is not there either, so that the server does not bring it back;
\* it may have filled the container since.
RemovedIsRemovedThere ==
  \A c \in Containers : job.server[c] > job.here[c] => \E r \in job.refills : r.container = c
=============================================================================
