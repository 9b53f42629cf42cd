---------------------------- MODULE GameSession ----------------------------
(***************************************************************************)
(* The game as the player and world bridges see it from a frame: who the   *)
(* local player is, whether the world is played locally or on a server,    *)
(* and calls into the JVM that fail now and then.                          *)
(*                                                                         *)
(* zombie.characters.IsoPlayer and zombie.network.GameClient are not in    *)
(* the repository.  A player is an object of the JVM: a respawn and a new  *)
(* world make another one, and none comes back.                            *)
(***************************************************************************)
EXTENDS Integers, FiniteSets

CONSTANTS
  Players,     \* the IsoPlayer objects of a run
  NoPlayer,
  MaxFaults,   \* bounds: calls that fail,
  MaxRequests  \* and requests of the user

ASSUME PlayerAssumption == NoPlayer \notin Players
ASSUME BoundAssumption == MaxFaults \in Nat /\ MaxRequests \in Nat

VARIABLES
  player,    \* IsoPlayer.getInstance()
  session,   \* "local" or "multiplayer": GameClient.client
  met,       \* players that have been in the game
  faults,    \* counters for the bounds
  requests

game == <<player, session, met>>
bounds == <<faults, requests>>

Sessions == {"local", "multiplayer"}

GameTypeOK ==
  /\ player \in met \cup {NoPlayer}
  /\ session \in Sessions
  /\ met \in SUBSET Players
  /\ faults \in 0 .. MaxFaults
  /\ requests \in 0 .. MaxRequests

GameInit ==
  /\ player = NoPlayer
  /\ session = "local"
  /\ met = {}
  /\ faults = 0
  /\ requests = 0

EnterWorld(p, s) ==
  /\ player = NoPlayer
  /\ p \notin met
  /\ player' = p
  /\ session' = s
  /\ met' = met \cup {p}

LeaveWorld ==
  /\ player # NoPlayer
  /\ player' = NoPlayer
  /\ UNCHANGED <<session, met>>

\* Death and a new character in the same world.
Respawn(p) ==
  /\ player # NoPlayer
  /\ p \notin met
  /\ player' = p
  /\ met' = met \cup {p}
  /\ UNCHANGED session

Play ==
  /\ \/ LeaveWorld
     \/ \E p \in Players : Respawn(p) \/ \E s \in Sessions : EnterWorld(p, s)
  /\ UNCHANGED bounds

\* A step that calls the JVM and fails; one that does not.
Fault == faults < MaxFaults /\ faults' = faults + 1
NoFault == UNCHANGED faults

\* A request of the user.
Request == requests < MaxRequests /\ requests' = requests + 1 /\ UNCHANGED faults

Online == session = "multiplayer"
=============================================================================
