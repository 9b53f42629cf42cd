---------------------------- MODULE BridgeStates ----------------------------
(***************************************************************************)
(* What the modules about the bridges share: their constants, the two      *)
(* variables of which one is the state of whatever component a behaviour   *)
(* exercises, and the invariants on which both BridgeInvariants and        *)
(* BridgeBooks rest, with the instances they are about.  What the          *)
(* invariants are for is said in BridgeInvariants, where they are proved.  *)
(***************************************************************************)
EXTENDS GameSession, Sequences

CONSTANTS
  Hands, Weapons, NoWeapon, Capacity, Environments, OwnWeight, Factors, MaxWeight, Top, Blocking,
  Persons,    \* players, where one is enough
  Places,     \* squares, settings, vehicles, containers or programs
  Things,     \* zombies, clothes or models
  Medicines, Shaders, Windows,
  FewFaults, SomeRequests, FewRequests, MaxTexts  \* bounds

ASSUME PersonAssumption == Persons \subseteq Players
ASSUME WeaponAssumption == NoWeapon \notin Weapons
ASSUME ValueAssumption == "ours" \notin Weapons
ASSUME PlaceAssumption == NoWeapon \notin Places
ASSUME PlacesAssumption == IsFiniteSet(Places)
ASSUME MedicineAssumption == Medicines # {}
ASSUME ScriptAssumption == NoWeapon \notin Medicines
\* "self" marks the player's own model among the objects, "none" that no window has the capture.
ASSUME CaptureAssumption == IsFiniteSet(Things) /\ "self" \notin Things /\ "none" \notin Windows
ASSUME CapacityAssumption == Capacity \in [Weapons -> Nat]
ASSUME CarryAssumption == MaxWeight \in Nat /\ OwnWeight \in 0 .. MaxWeight /\ Factors \subseteq Nat
ASSUME FewAssumption == {FewFaults, SomeRequests, FewRequests, MaxTexts} \subseteq Nat

VARIABLES
  active,  \* the component that a behaviour exercises
  state    \* and its variable

all == <<active, state, game, bounds>>

-----------------------------------------------------------------------------
(* PlayerCarry *)

Carry == INSTANCE PlayerCarry WITH carry <- state

CarryStates ==
  [requested : BOOLEAN, factor : Factors, raw : 0 .. MaxWeight, base : 0 .. MaxWeight,
   last : -1 .. MaxWeight, active : BOOLEAN, target : Players \cup {NoPlayer},
   previous : Players \cup {NoPlayer}, queued : BOOLEAN, tasks : Nat,
   step : {"none", "publish", "finish"}, echoes : SUBSET (0 .. MaxWeight), disturbed : BOOLEAN]

\* For the player the helper looks after, while the settings stay as they are: the weight
\* is the game's or an echo, there is but one echo, and what was sent is the product of
\* the game's weight.
CarrySteady(c, p) ==
  /\ c.raw \in {OwnWeight, c.last} /\ c.echoes \subseteq {c.last}
  /\ (c.target = p \/ c.active) => c.base = OwnWeight
  /\ c.last # -1 /\ c.requested => c.base = OwnWeight /\ c.last = Carry!Capped(OwnWeight * c.factor)
  /\ c.last # -1 /\ ~c.requested => c.last = OwnWeight /\ c.raw = OwnWeight
  /\ c.step = "finish" /\ c.requested => c.base = OwnWeight

CarryGood(c, p) ==
  /\ c \in CarryStates
  /\ c.target = p /\ p # NoPlayer => c.previous = p
  /\ p # NoPlayer /\ c.previous # p => c.raw = OwnWeight /\ c.echoes = {}
  /\ c.step # "none" => p # NoPlayer /\ c.previous = p
  /\ p # NoPlayer /\ c.previous = p /\ ~c.disturbed => CarrySteady(c, p)

\* A player who has been in the game does not come back.
CarryInv ==
  /\ met \subseteq Players /\ {player, state.target, state.previous} \subseteq met \cup {NoPlayer}
  /\ CarryGood(state, player)

-----------------------------------------------------------------------------
(* FreeBuild *)

Build == INSTANCE FreeBuild WITH build <- state

BuildStates ==
  [requested : BOOLEAN, applied : BOOLEAN, target : BOOLEAN, phase : Build!Phases,
   call : {"none", "queued", "overdue", "done", "error"},
   env : Environments, current : Environments, entered : SUBSET Environments,
   patch : [Environments -> {"none", "old", "new"}], enabled : [Environments -> BOOLEAN],
   code : [Environments -> {"game", "old", "new"}],
   kept : [Environments -> {"none", "game", "old", "new"}],
   late : SUBSET (Environments \X BOOLEAN), strayed : BOOLEAN]

\* What is installed in an environment, and what that keeps.
BuildGood(b) ==
  /\ b \in BuildStates
  /\ \A e \in Environments :
       /\ b.patch[e] = "none" => b.code[e] = "game" /\ b.kept[e] = "none"
       /\ b.patch[e] # "none" => b.kept[e] = "game"

BuildInv == BuildGood(state)

-----------------------------------------------------------------------------
(* PlayerWeapon *)

Weapon == INSTANCE PlayerWeapon WITH weapon <- state

WeaponStates ==
  [held : Weapons \cup {NoWeapon}, reliable : BOOLEAN, tracked : Weapons \cup {NoWeapon},
   original : Weapon!Chances, base : [Weapons -> Weapon!Chances \ {0}],
   chance : [Weapons -> Weapon!Chances], jammed : BOOLEAN, jammedOnServer : BOOLEAN,
   unsent : BOOLEAN, lost : SUBSET Weapons, infinite : BOOLEAN, clip : BOOLEAN, rounds : Nat,
   fired : BOOLEAN, refilled : BOOLEAN]

\* A weapon that is not lost has its own chance, or it is tracked, with that chance, and
\* does not jam.
WeaponGood(s) ==
  /\ s \in WeaponStates
  /\ \A w \in Weapons \ s.lost :
       s.chance[w] = s.base[w] \/ (s.tracked = w /\ s.original = s.base[w] /\ s.chance[w] = 0)

WeaponInv == WeaponGood(state)

WeaponFields ==
  {"held", "reliable", "tracked", "original", "base", "chance", "jammed", "jammedOnServer", "unsent", "lost",
   "infinite", "clip", "rounds", "fired", "refilled"}

\* A weapon that the server takes to be jammed is, or the message failed.
JamGood(s, online) ==
  /\ DOMAIN s = WeaponFields
  /\ s.jammedOnServer => online /\ (s.jammed \/ s.unsent)

JamInv == JamGood(state, session = "multiplayer")

-----------------------------------------------------------------------------
(* Experience *)

Experience == INSTANCE Experience WITH experience <- state

ExperienceFields ==
  {"bound", "mode", "ready", "catalog", "seen", "xp", "onServer", "training", "goal", "rested", "trainee",
   "strayed", "unsent"}

ExperienceGood(e) ==
  /\ DOMAIN e = ExperienceFields
  /\ DOMAIN e.xp = Players /\ DOMAIN e.onServer = Players
  /\ \A p \in Players \ e.unsent : e.xp[p] = e.onServer[p]

ExperienceInv ==
  /\ ExperienceGood(state)
  /\ player \in met \cup {NoPlayer} /\ met \subseteq Players

\* What differs in the training, or in what the menu shows, only.
ExperienceLike(t, e) ==
  /\ DOMAIN t = ExperienceFields
  /\ t.xp = e.xp /\ t.onServer = e.onServer /\ t.unsent = e.unsent

-----------------------------------------------------------------------------
(* Medication *)

Medication == INSTANCE Medication WITH medication <- state, MaxRequests <- SomeRequests

MedicationStates ==
  [blocking : Blocking, phase : {"idle", "item", "effect"}, medicine : Medicines,
   baseline : Nat, effect : [Medicines -> Nat], items : SUBSET Medicines, due : BOOLEAN,
   expired : BOOLEAN, patient : Players \cup {NoPlayer}, previous : BOOLEAN, reply : BOOLEAN,
   own : [Players -> BOOLEAN], instant : [Players -> BOOLEAN], temporary : SUBSET Players,
   broken : SUBSET Players, sent : Nat]

\* What a player has who is not being treated, and what was read of one who is.
MedicationGood(s) ==
  /\ s \in MedicationStates
  /\ \A p \in Players \ (s.broken \cup {s.patient}) :
       p \notin s.temporary /\ s.instant[p] = s.own[p]
  /\ s.patient \in Players \ s.broken => s.previous = s.own[s.patient]

MedicationInv ==
  /\ player \in Players \cup {NoPlayer}
  /\ MedicationGood(state)

-----------------------------------------------------------------------------
(* Teleport *)

Teleport == INSTANCE Teleport WITH teleport <- state, Spots <- Places

TeleportFields == {"enabled", "down", "cooling", "mapOpen", "here", "there", "unsent", "jumps", "sends"}

TeleportGood(t) == DOMAIN t = TeleportFields /\ (t.here = t.there \/ t.unsent)

TeleportInv == TeleportGood(state)

-----------------------------------------------------------------------------
(* WorldVisuals *)

Visuals == INSTANCE WorldVisuals WITH visuals <- state, MaxRequests <- SomeRequests, MaxFaults <- FewFaults, Squares <- Places, NoSquare <- NoWeapon

VisualsStates ==
  [daylight : BOOLEAN, vision : BOOLEAN, dark : BOOLEAN, reveal : BOOLEAN,
   fog : Visuals!FogModes, rain : Visuals!RainModes, forced : SUBSET Visuals!Climate,
   taken : SUBSET Visuals!Climate, right : SUBSET Visuals!Climate,
   broken : SUBSET Visuals!Climate, square : Places, lamp : Places \cup {NoWeapon},
   lamps : SUBSET Places, orphans : SUBSET Places, masked : BOOLEAN, ended : BOOLEAN,
   obeyed : BOOLEAN]

\* A variable that is taken while it is forced is one for which a call has failed.
VisualsGood(v) ==
  /\ v \in VisualsStates
  /\ v.forced \ v.broken \subseteq v.taken \cap v.right
  /\ v.taken \ v.right \subseteq v.broken

\* Nothing is taken any more when another world may be entered.
VisualsInv ==
  /\ VisualsGood(state)
  /\ player = NoPlayer /\ ~state.ended => state.taken = {}

-----------------------------------------------------------------------------
(* ContainerJobs *)

Job == INSTANCE ContainerJobs WITH job <- state, MaxRequests <- FewRequests, MaxFaults <- FewFaults, Containers <- Places, MaxItems <- 2, MaxRounds <- 2

JobFields ==
  {"owner", "previous", "link", "previousLink", "connection", "reroll", "placed", "targets", "completed",
   "skipped", "total", "here", "server", "filled", "twice", "refills", "rounds"}

JobTables == [Places -> Nat]

\* What is in the containers: there is no more on the server than here, but in what it filled.
JobGood(j) ==
  /\ DOMAIN j = JobFields /\ j.placed \subseteq Places
  /\ j.here \in JobTables /\ j.server \in JobTables
  /\ \A c \in Places : j.server[c] > j.here[c] => \E r \in j.refills : r.container = c

JobInv == JobGood(state)

\* What differs in neither.
JobLike(t, j) ==
  /\ DOMAIN t = JobFields /\ t.placed \subseteq j.placed
  /\ t.here = j.here /\ t.server = j.server /\ t.refills = j.refills

-----------------------------------------------------------------------------
(* VehicleGhost *)

Ghost == INSTANCE VehicleGhost WITH ghost <- state, MaxRequests <- FewRequests, MaxFaults <- FewFaults, Vehicles <- Places, NoVehicle <- NoWeapon

GhostStates ==
  [static : Ghost!Hooks, step : Ghost!Hooks, natives : BOOLEAN, bridge : BOOLEAN,
   flag : BOOLEAN, requested : BOOLEAN, heard : BOOLEAN, driven : Places \cup {NoWeapon},
   here : SUBSET Places, own : [Places -> BOOLEAN], body : [Places -> Ghost!Bodies],
   retained : Places \cup {NoWeapon}, original : Ghost!Bodies, publish : BOOLEAN,
   half : SUBSET Places]

GhostOwn(g, v) == [static |-> g.own[v], flags |-> "own"]

\* A vehicle that is not as the game made it is the one that is remembered, and what is
\* remembered of a vehicle is what the game made.
GhostGood(g) ==
  /\ g \in GhostStates
  /\ \A v \in g.here \ g.half :
       /\ g.body[v] # GhostOwn(g, v) => g.retained = v
       /\ g.retained = v => g.original = GhostOwn(g, v)

GhostInv == GhostGood(state)

-----------------------------------------------------------------------------
(* AimOverrides *)

Aim == INSTANCE AimOverrides WITH aim <- state, MaxRequests <- FewRequests, MaxFaults <- FewFaults, Players <- Persons

AimFields ==
  {"options", "hand", "values", "moves", "force", "weapon", "weaponHad", "walker", "walkerHad",
   "forced", "pending", "published", "hooks", "requested", "making", "prepared", "actor", "previous",
   "calls", "strays", "frame", "spoiltWeapons", "spoiltPlayers", "unsent", "caught", "followed", "extra"}
=============================================================================
