---------------------------- MODULE BridgeBooks -----------------------------
(***************************************************************************)
(* The books of the bridges agree with the game: what a component takes to *)
(* be in force is, what it counts as under way is, and nothing is done     *)
(* twice.  For component X, XBooks is what its books say, which its initial*)
(* states satisfy (XBooksInit), which its steps preserve (XBooksStep),     *)
(* often only with the invariant XInv of BridgeStates, and which implies   *)
(* what the user relies on (XBooksKept).  Of the components that           *)
(* BridgeInvariants has no use for, XInv is stated and proved here, too.    *)
(***************************************************************************)
EXTENDS BridgeStates, SequenceTheorems, FiniteSetTheorems, TLAPS

-----------------------------------------------------------------------------
(* PlayerCarry: an update is begun and ended with the flag that keeps others out. *)

CarryFields ==
  {"requested", "factor", "raw", "base", "last", "active", "target", "previous", "queued", "tasks",
   "step", "echoes", "disturbed"}

LEMMA CarryBooksInit == Carry!Init => Carry!OneCarryUpdate
  BY DEF Carry!Init, Carry!OneCarryUpdate

LEMMA CarryBooksStep == CarryInv /\ Carry!OneCarryUpdate /\ [Carry!Next]_all => Carry!OneCarryUpdate'
  <1> SUFFICES ASSUME CarryInv, Carry!OneCarryUpdate, [Carry!Next]_all PROVE Carry!OneCarryUpdate'
    OBVIOUS
  <1> USE DEF Carry!OneCarryUpdate
  <1>0. state \in CarryStates
    BY DEF CarryInv, CarryGood
  <1>1. CASE Carry!Live
    BY <1>0, <1>1 DEF CarryStates, Carry!Live
  <1>2. CASE Carry!ReadWeight
    BY <1>0, <1>2 DEF CarryStates, Carry!ReadWeight, Carry!Based
  <1>3. CASE \E weight \in state.echoes : Carry!Echo(weight)
    BY <1>0, <1>3 DEF CarryStates, Carry!Echo
  <1>4. CASE \E enabled \in BOOLEAN, factor \in Factors : Carry!Configure(enabled, factor)
    BY <1>0, <1>4 DEF CarryStates, Carry!Configure
  <1>5. CASE Carry!QueueUpdate
    <2> DEFINE queued == [state EXCEPT !.queued = TRUE, !.tasks = @ + 1]
               failed == [state EXCEPT !.target = NoPlayer]
    <2>1. state' = queued \/ state' = failed
      BY <1>5 DEF Carry!QueueUpdate
    <2>2. ~state.queued
      BY <1>5 DEF Carry!QueueUpdate
    <2>3. DOMAIN state = CarryFields /\ state.tasks = 0 /\ state.step = "none"
      BY <1>0, <2>2 DEF CarryStates, CarryFields
    <2>4. /\ queued.tasks = 1 /\ queued.queued = TRUE /\ queued.step = "none"
          /\ failed.tasks = 0 /\ failed.queued = state.queued /\ failed.step = "none"
      BY <2>3 DEF CarryFields
    <2> HIDE DEF queued, failed
    <2> QED
      BY <2>1, <2>2, <2>4
  <1>6. CASE Carry!BeginUnavailable
    <2> DEFINE c == [state EXCEPT !.tasks = 0, !.queued = FALSE, !.target = NoPlayer]
    <2>1. state' \in {c, [c EXCEPT !.previous = NoPlayer, !.active = FALSE]}
      BY <1>6 DEF Carry!BeginUnavailable
    <2>2. state.tasks = 1 /\ state.step = "none"
      BY <1>6 DEF Carry!BeginUnavailable
    <2>3. DOMAIN state = CarryFields
      BY <1>0 DEF CarryStates, CarryFields
    <2>4. c.tasks = 0 /\ c.step = "none" /\ c.queued = FALSE /\ DOMAIN c = CarryFields
      BY <2>2, <2>3 DEF CarryFields
    <2> HIDE DEF c
    <2>5. state'.tasks = 0 /\ state'.step = "none" /\ state'.queued = FALSE
      BY <2>1, <2>4 DEF CarryFields
    <2> QED
      BY <2>5
  <1>7. CASE Carry!Begin
    <2> DEFINE known == state.previous = player
               raw == IF state.active /\ known /\ ~state.requested THEN state.base ELSE state.raw
    <2>1. /\ state'.step = "publish" /\ state'.tasks = 0 /\ state'.queued = state.queued
          /\ state.step = "none" /\ state.tasks = 1
      BY <1>0, <1>7 DEF CarryStates, Carry!Begin
    <2> QED
      BY <2>1
  <1>8. CASE Carry!Publish
    <2> DEFINE c == [state EXCEPT !.target = IF state.requested THEN player ELSE NoPlayer]
               read == [Carry!Based(c) EXCEPT !.step = "finish"]
               weight == Carry!Scaled(c)
               sent == [read EXCEPT !.last = weight, !.echoes = @ \cup {weight}]
    <2>1. DOMAIN c = CarryFields /\ c.tasks = state.tasks /\ c.queued = state.queued
      BY <1>0 DEF CarryStates, CarryFields
    <2>2. state' \in {read, sent}
      BY <1>8 DEF Carry!Publish
    <2> HIDE DEF c, weight
    <2>3. read.step = "finish" /\ read.tasks = state.tasks /\ read.queued = state.queued /\ DOMAIN read = CarryFields
      BY <2>1 DEF Carry!Based, CarryFields
    <2> HIDE DEF read
    <2>4. sent.step = "finish" /\ sent.tasks = state.tasks /\ sent.queued = state.queued
      BY <2>3 DEF CarryFields
    <2>5. state.step = "publish"
      BY <1>8 DEF Carry!Publish
    <2> QED
      BY <2>2, <2>3, <2>4, <2>5
  <1>9. CASE Carry!Finish
    BY <1>0, <1>9 DEF CarryStates, Carry!Finish
  <1>10. CASE UNCHANGED all
    BY <1>10 DEF all
  <1> QED
    BY <1>1, <1>2, <1>3, <1>4, <1>5, <1>6, <1>7, <1>8, <1>9, <1>10 DEF Carry!Next

-----------------------------------------------------------------------------
(* FreeBuild: while a chunk is under way, the flag is what was applied until it has run. *)

BuildFields ==
  {"requested", "applied", "target", "phase", "call", "env", "current", "entered", "patch", "enabled",
   "code", "kept", "late", "strayed"}

BuildBelieves(b) ==
  /\ b.call = "none" <=> b.phase = "Idle"
  /\ \/ b.strayed
     \/ /\ b.current \in b.entered /\ (b.phase # "Idle" => b.env = b.current)
        /\ \A e \in Environments \ b.entered : ~b.enabled[e]
        /\ IF b.phase = "Execute" /\ b.call = "done" THEN b.enabled[b.current] = b.target
           ELSE b.applied = b.enabled[b.current]

BuildBooks == BuildBelieves(state)

LEMMA BuildBooksInit == Build!Init => BuildBooks
  BY DEF Build!Init, BuildBooks, BuildBelieves

\* The chunk sets the flag.
LEMMA BuildRan ==
  ASSUME NEW b \in BuildStates, NEW e \in Environments, NEW target \in BOOLEAN
  PROVE  LET r == Build!Executed(b, e, target) IN
         /\ DOMAIN r = BuildFields /\ r.enabled = [b.enabled EXCEPT ![e] = target]
         /\ \A f \in BuildFields \ {"patch", "kept", "code", "enabled"} : r[f] = b[f]
  <1> DEFINE i == Build!Installed(b, e)
  <1>1. DOMAIN b = BuildFields
    BY DEF BuildStates, BuildFields
  <1>2. DOMAIN i = BuildFields /\ \A f \in BuildFields \ {"patch", "kept", "code"} : i[f] = b[f]
    BY <1>1 DEF Build!Installed, BuildFields
  <1> HIDE DEF i
  <1>3. Build!Executed(b, e, target) = [i EXCEPT !.enabled[e] = target]
    BY DEF Build!Executed, i
  <1>4. i.enabled = b.enabled
    BY <1>2 DEF BuildFields
  <1> QED
    BY <1>2, <1>3, <1>4 DEF BuildFields

\* A call that ended in any other way than with an answer has changed nothing, or is late.
LEMMA BuildPolls ==
  ASSUME NEW b \in BuildStates, BuildBelieves(b), NEW fails \in BOOLEAN
  PROVE  LET p == Build!Polled(b, fails) IN
         /\ BuildBelieves(p) /\ BuildBelieves(Build!Begun(p))
  <1> DEFINE p == Build!Polled(b, fails)
  <1>1. DOMAIN b = BuildFields
    BY DEF BuildStates, BuildFields
  <1>2. Build!Finished(b).phase = "Idle" /\ Build!Finished(b).call = "none" /\ DOMAIN Build!Finished(b) = BuildFields
        /\ \A f \in BuildFields \ {"phase", "call", "late"} : Build!Finished(b)[f] = b[f]
    BY <1>1 DEF Build!Finished, BuildFields
  <1>3. /\ DOMAIN p = BuildFields
        /\ \A f \in BuildFields \ {"phase", "call", "late", "applied", "strayed"} : p[f] = b[f]
    BY <1>1, <1>2 DEF Build!Polled, BuildFields
  <1>4. BuildBelieves(p)
    <2>1. CASE b.phase = "Idle" \/ (b.call = "queued" /\ ~fails)
      BY <2>1 DEF Build!Polled
    <2>2. CASE b.phase = "Compile" /\ b.call = "done" /\ ~fails
      <3>1. p = [b EXCEPT !.phase = "Execute", !.call = "queued"]
        BY <2>2 DEF Build!Polled
      <3> QED
        BY <1>1, <2>2, <3>1 DEF BuildBelieves, BuildFields
    <2>3. CASE b.phase = "Execute" /\ b.call = "done" /\ ~fails
      <3>1. p = [Build!Finished(b) EXCEPT !.applied = b.target]
        BY <2>3 DEF Build!Polled
      <3>2. /\ p.phase = "Idle" /\ p.call = "none" /\ p.applied = b.target /\ p.strayed = b.strayed
            /\ p.current = b.current /\ p.entered = b.entered /\ p.enabled = b.enabled
        BY <1>2, <3>1 DEF BuildFields
      <3> HIDE DEF p
      <3> QED
        BY <2>3, <3>2 DEF BuildBelieves, BuildStates
    <2>4. CASE /\ ~(b.phase = "Idle" \/ (b.call = "queued" /\ ~fails))
               /\ ~(b.phase = "Compile" /\ b.call = "done" /\ ~fails)
               /\ ~(b.phase = "Execute" /\ b.call = "done" /\ ~fails)
      <3> DEFINE lost == b.strayed \/ (b.phase = "Execute" /\ b.call = "done")
      <3>1. p = [Build!Finished(b) EXCEPT !.strayed = lost]
        BY <1>2, <2>4 DEF Build!Polled, BuildFields
      <3> HIDE DEF lost
      <3>2. /\ p.phase = "Idle" /\ p.call = "none" /\ p.applied = b.applied /\ p.strayed = lost
            /\ p.current = b.current /\ p.entered = b.entered /\ p.enabled = b.enabled
        BY <1>2, <3>1 DEF BuildFields
      <3> HIDE DEF p
      <3> QED
        BY <3>2 DEF BuildBelieves, BuildStates, lost
    <2> QED
      BY <2>1, <2>2, <2>3, <2>4
  <1> HIDE DEF p
  <1>5. BuildBelieves(Build!Begun(p))
    <2>1. CASE p.phase # "Idle" \/ p.applied = p.requested
      BY <1>4, <2>1 DEF Build!Begun
    <2>2. CASE p.phase = "Idle" /\ p.applied # p.requested
      <3> DEFINE r == [p EXCEPT !.phase = "Compile", !.call = "queued", !.target = p.requested, !.env = p.current]
      <3>1. Build!Begun(p) = r
        BY <2>2 DEF Build!Begun
      <3>2. /\ r.phase = "Compile" /\ r.call = "queued" /\ r.env = p.current /\ r.applied = p.applied /\ r.strayed = p.strayed
            /\ r.current = p.current /\ r.entered = p.entered /\ r.enabled = p.enabled
        BY <1>3 DEF BuildFields
      <3> HIDE DEF r
      <3> QED
        BY <1>4, <2>2, <3>1, <3>2 DEF BuildBelieves
    <2> QED
      BY <2>1, <2>2
  <1> QED
    BY <1>4, <1>5 DEF p

LEMMA BuildBooksStep == BuildInv /\ BuildBooks /\ [Build!Next]_all => BuildBooks'
  <1> SUFFICES ASSUME BuildInv, BuildBooks, [Build!Next]_all PROVE BuildBelieves(state')
    BY DEF BuildBooks
  <1>0. state \in BuildStates /\ BuildBelieves(state) /\ DOMAIN state = BuildFields
    BY DEF BuildInv, BuildGood, BuildBooks, BuildStates, BuildFields
  <1>1. CASE Build!Run
    <2> DEFINE r == Build!Executed(state, state.env, state.target)
    <2>1. /\ DOMAIN r = BuildFields /\ r.enabled = [state.enabled EXCEPT ![state.env] = state.target]
          /\ \A f \in BuildFields \ {"patch", "kept", "code", "enabled"} : r[f] = state[f]
      BY <1>0, BuildRan DEF BuildStates
    <2> HIDE DEF r
    <2>2. CASE state' = [state EXCEPT !.call = "done"] /\ state.phase = "Compile"
      BY <1>0, <2>2 DEF BuildBelieves, BuildFields
    <2>3. CASE state' = [r EXCEPT !.call = "done"] /\ state.phase # "Compile"
      <3>1. /\ state'.phase = state.phase /\ state'.env = state.env /\ state'.current = state.current
            /\ state'.entered = state.entered /\ state'.strayed = state.strayed /\ state'.applied = state.applied
            /\ state'.enabled = [state.enabled EXCEPT ![state.env] = state.target] /\ state'.target = state.target
            /\ state'.call = "done"
        BY <2>1, <2>3 DEF BuildFields
      <3>2. state.phase = "Execute"
        BY <1>0, <1>1, <2>3 DEF BuildStates, Build!Phases, Build!Run, BuildBelieves
      <3>3. state.call \in {"queued", "overdue"}
        BY <1>1 DEF Build!Run
      <3> QED
        BY <1>0, <3>1, <3>2, <3>3 DEF BuildBelieves, BuildStates
    <2>4. CASE state' = [state EXCEPT !.call = "error"]
      <3>1. state.call \in {"queued", "overdue"}
        BY <1>1 DEF Build!Run
      <3> QED
        BY <1>0, <2>4, <3>1 DEF BuildBelieves, BuildFields
    <2>5. CASE state' = [r EXCEPT !.call = "error", !.strayed = TRUE]
      <3>1. state.call \in {"queued", "overdue"}
        BY <1>1 DEF Build!Run
      <3> QED
        BY <1>0, <2>1, <2>5, <3>1 DEF BuildBelieves, BuildFields
    <2> QED
      BY <1>1, <2>2, <2>3, <2>4, <2>5 DEF Build!Run, r
  <1>2. CASE Build!Elapse
    BY <1>0, <1>2 DEF Build!Elapse, BuildBelieves, BuildFields
  <1>3. CASE Build!Update
    <2>1. PICK fails \in BOOLEAN : state' \in {Build!Polled(state, fails), Build!Begun(Build!Polled(state, fails))}
      BY <1>3 DEF Build!Update
    <2> QED
      BY <1>0, <2>1, BuildPolls
  <1>4. ASSUME NEW chunk \in state.late, Build!RunLate(chunk) PROVE BuildBelieves(state')
    <2>1. chunk[1] \in Environments /\ chunk[2] \in BOOLEAN
      BY <1>0 DEF BuildStates
    <2> DEFINE r == Build!Executed(state, chunk[1], chunk[2])
    <2>2. DOMAIN r = BuildFields /\ \A f \in BuildFields \ {"patch", "kept", "code", "enabled"} : r[f] = state[f]
      BY ZenonT(60), <1>0, <2>1, BuildRan
    <2>3. state' = [r EXCEPT !.late = @ \ {chunk}, !.strayed = TRUE]
      BY <1>4 DEF Build!RunLate
    <2> HIDE DEF r
    <2>4. r.call = state.call /\ r.phase = state.phase
      BY <2>2 DEF BuildFields
    <2> QED
      BY <1>0, <2>2, <2>3, <2>4 DEF BuildBelieves, BuildFields
  <1>5. ASSUME NEW e \in Environments, Build!ReplaceEnvironment(e) PROVE BuildBelieves(state')
    <2> DEFINE strayed == state.strayed \/ state.applied \/ state.phase # "Idle"
    <2>1. /\ state' = [state EXCEPT !.current = e, !.entered = @ \cup {e}, !.strayed = strayed]
          /\ e \notin state.entered
      BY <1>0, <1>5 DEF Build!ReplaceEnvironment, BuildFields
    <2> HIDE DEF strayed
    <2>2. /\ state'.current = e /\ state'.entered = state.entered \cup {e} /\ state'.strayed = strayed
          /\ state'.phase = state.phase /\ state'.call = state.call /\ state'.enabled = state.enabled /\ state'.applied = state.applied
      BY <1>0, <2>1 DEF BuildFields
    <2> QED
      BY <1>0, <2>1, <2>2 DEF BuildBelieves, BuildStates, strayed
  <1>6. ASSUME NEW enabled \in BOOLEAN, Build!SetFreeBuildEnabled(enabled) PROVE BuildBelieves(state')
    BY <1>0, <1>6 DEF Build!SetFreeBuildEnabled, BuildBelieves, BuildFields
  <1>7. CASE UNCHANGED all
    BY <1>0, <1>7 DEF all
  <1> QED
    BY <1>1, <1>2, <1>3, <1>4, <1>5, <1>6, <1>7 DEF Build!Next

LEMMA BuildBooksKept == BuildBooks => Build!BelievedFlagIsReal
  BY DEF BuildBooks, BuildBelieves, Build!BelievedFlagIsReal

-----------------------------------------------------------------------------
(* PlayerWeapon: what was filled without a shot is still full. *)

WeaponFull(s) == ~s.refilled /\ (s.fired \/ s.rounds = Capacity[s.held] - 1)

WeaponBooks == WeaponFull(state)

WeaponLike(t, s) ==
  /\ DOMAIN t = WeaponFields
  /\ t.refilled = s.refilled /\ t.fired = s.fired /\ t.rounds = s.rounds /\ t.held = s.held

LEMMA WeaponBooksInit == Weapon!Init => WeaponBooks
  BY DEF Weapon!Init, WeaponBooks, WeaponFull

\* The chances are written without a shot.
LEMMA WeaponAlike ==
  ASSUME NEW s, DOMAIN s = WeaponFields
  PROVE  /\ \A ok : WeaponLike(Weapon!Released(s, ok), s)
         /\ \A ok : WeaponLike(Weapon!Unhanded(s, ok), s) /\ WeaponLike(Weapon!Tracked(s, ok), s)
  <1>1. ASSUME NEW tracked, NEW original, NEW chance, NEW lost, NEW t,
               t = [s EXCEPT !.tracked = tracked, !.original = original, !.chance = chance, !.lost = lost]
        PROVE  WeaponLike(t, s)
    BY <1>1 DEF WeaponLike, WeaponFields
  <1>2. ASSUME NEW ok PROVE WeaponLike(Weapon!Released(s, ok), s)
    <2>1. CASE s.tracked = NoWeapon
      BY <2>1 DEF Weapon!Released, WeaponLike
    <2>2. CASE s.tracked # NoWeapon
      <3> DEFINE lost == IF ok /\ s.original = s.base[s.tracked] THEN s.lost ELSE s.lost \cup {s.tracked}
                 value == IF ok THEN s.original ELSE s.chance[s.tracked]
                 chance == [s.chance EXCEPT ![s.tracked] = value]
      <3>1. Weapon!Released(s, ok) = [s EXCEPT !.tracked = NoWeapon, !.original = 0, !.chance = chance, !.lost = lost]
        BY <2>2 DEF Weapon!Released, WeaponFields
      <3> HIDE DEF lost, value, chance
      <3> QED
        BY <1>1, <3>1
    <2> QED
      BY <2>1, <2>2
  <1>3. ASSUME NEW r, WeaponLike(r, s), NEW tracked, NEW original, NEW t,
               t = [r EXCEPT !.tracked = tracked, !.original = original] \/ t = [r EXCEPT !.original = original]
        PROVE  WeaponLike(t, s)
    BY <1>3 DEF WeaponLike, WeaponFields
  <1>4. ASSUME NEW ok PROVE WeaponLike(Weapon!Unhanded(s, ok), s) /\ WeaponLike(Weapon!Tracked(s, ok), s)
    <2> DEFINE u == Weapon!Unhanded(s, ok)
               r == [u EXCEPT !.tracked = s.held, !.original = s.chance[s.held]]
               t == IF s.tracked = s.held THEN s ELSE r
    <2>1. WeaponLike(s, s)
      BY DEF WeaponLike
    <2>5. WeaponLike(u, s)
      BY <1>2, <2>1 DEF Weapon!Unhanded
    <2> HIDE DEF u
    <2>2. WeaponLike(r, s)
      BY <1>3, <2>5
    <2>3. Weapon!Tracked(s, ok) = IF s.chance[s.held] = 0 THEN t ELSE [t EXCEPT !.original = s.chance[s.held]]
      BY DEF Weapon!Tracked, u
    <2> HIDE DEF r
    <2>4. WeaponLike(t, s)
      BY <2>1, <2>2
    <2> HIDE DEF t
    <2> QED
      BY <1>3, <2>3, <2>4, <2>5 DEF u
  <1> QED
    BY <1>2, <1>4

LEMMA WeaponBooksStep == WeaponInv /\ WeaponBooks /\ [Weapon!Next]_all => WeaponBooks'
  <1> SUFFICES ASSUME WeaponInv, WeaponFull(state), [Weapon!Next]_all PROVE WeaponFull(state')
    BY DEF WeaponBooks
  <1>0. DOMAIN state = WeaponFields
    BY DEF WeaponInv, WeaponGood, WeaponStates, WeaponFields
  <1>1. ASSUME WeaponLike(state', state) PROVE WeaponFull(state')
    BY <1>1 DEF WeaponLike, WeaponFull
  <1>2. ASSUME NEW w, NEW n, state' = Weapon!Holding(w, n) PROVE WeaponFull(state')
    BY <1>0, <1>2 DEF Weapon!Holding, WeaponFull, WeaponFields
  <1>3. CASE Weapon!Live \/ \E w \in Weapons \cup {NoWeapon} : Weapon!Hold(w)
    BY <1>2, <1>3 DEF Weapon!Live, Weapon!Hold
  <1>4. CASE Weapon!Shoot
    <2>1. PICK jam \in BOOLEAN :
            state' = [state EXCEPT !.rounds = @ - 1, !.fired = TRUE, !.jammed = jam,
                        !.jammedOnServer = (@ \/ jam) /\ Weapon!Online]
      BY <1>4 DEF Weapon!Shoot
    <2> DEFINE there == (state.jammedOnServer \/ jam) /\ Weapon!Online
    <2>2. state' = [state EXCEPT !.rounds = @ - 1, !.fired = TRUE, !.jammed = jam, !.jammedOnServer = there]
      BY <2>1
    <2> HIDE DEF there
    <2> QED
      BY <1>0, <2>2 DEF WeaponFull, WeaponFields
  <1>5. CASE Weapon!ChangeClip
    BY <1>0, <1>1, <1>5 DEF Weapon!ChangeClip, WeaponLike, WeaponFields
  <1>6. CASE Weapon!Modify
    <2> DEFINE value == 3 - state.base[state.held]
               base == [state.base EXCEPT ![state.held] = value]
               chance == [state.chance EXCEPT ![state.held] = value]
               lost == state.lost \ {state.held}
    <2>1. state' = [state EXCEPT !.base = base, !.chance = chance, !.lost = lost]
      BY <1>0, <1>6 DEF Weapon!Modify, WeaponFields
    <2> HIDE DEF value, base, chance, lost
    <2> QED
      BY <1>0, <1>1, <2>1 DEF WeaponLike, WeaponFields
  <1>7. ASSUME NEW on \in BOOLEAN, Weapon!SetNoWeaponJamEnabled(on) \/ Weapon!SetInfiniteAmmoEnabled(on)
        PROVE  WeaponFull(state')
    BY <1>0, <1>1, <1>7 DEF Weapon!SetNoWeaponJamEnabled, Weapon!SetInfiniteAmmoEnabled, WeaponLike, WeaponFields
  <1>8. CASE Weapon!UpdateAmmo
    <2>1. state' = [state EXCEPT !.rounds = Capacity[state.held] - 1, !.fired = FALSE, !.refilled = ~state.fired]
      BY <1>8 DEF Weapon!UpdateAmmo
    <2>2. state.held \in Weapons
      BY <1>8 DEF WeaponInv, WeaponGood, WeaponStates, Weapon!UpdateAmmo
    <2>3. state.fired
      BY <1>8, <2>2, CapacityAssumption DEF Weapon!UpdateAmmo, Weapon!Due, WeaponFull
    <2>4. state'.refilled = ~state.fired /\ state'.rounds = Capacity[state.held] - 1 /\ state'.held = state.held
      BY <1>0, <2>1 DEF WeaponFields
    <2> QED
      BY <2>3, <2>4 DEF WeaponFull
  <1>9. CASE Weapon!UpdateReliability
    <2>1. \/ \E ok : state' = Weapon!Released(state, ok)
          \/ \E ok, sent :
               state' \in {Weapon!Unhanded(state, ok), Weapon!Tracked(state, ok), Weapon!Reliable(state, ok),
                          Weapon!Unjammed(Weapon!Reliable(state, ok), sent)}
      BY <1>9 DEF Weapon!UpdateReliability
    <2>2. ASSUME NEW ok PROVE WeaponLike(Weapon!Reliable(state, ok), state)
      <3> DEFINE tracked == Weapon!Tracked(state, ok)
      <3>1. WeaponLike(tracked, state)
        BY <1>0, WeaponAlike
      <3>2. Weapon!Reliable(state, ok) = [tracked EXCEPT !.chance[state.held] = 0]
        BY DEF Weapon!Reliable
      <3> HIDE DEF tracked
      <3> QED
        BY <3>1, <3>2 DEF WeaponLike, WeaponFields
    <2>4. ASSUME NEW sent, NEW on, WeaponLike(on, state) PROVE WeaponLike(Weapon!Unjammed(on, sent), state)
      <3> DEFINE there == on.jammedOnServer /\ ~sent
                 unsent == Weapon!Online /\ ~sent
                 t == [on EXCEPT !.jammed = FALSE, !.jammedOnServer = there, !.unsent = unsent]
      <3>1. Weapon!Unjammed(on, sent) = IF ~on.jammed THEN on ELSE t
        BY DEF Weapon!Unjammed
      <3> HIDE DEF there, unsent
      <3>2. WeaponLike(t, state)
        BY <2>4 DEF WeaponLike, WeaponFields
      <3> QED
        BY <2>4, <3>1, <3>2
    <2> QED
      BY <1>0, <1>1, <2>1, <2>2, <2>4, WeaponAlike
  <1>10. CASE UNCHANGED all
    BY <1>10 DEF all
  <1> QED
    BY <1>3, <1>4, <1>5, <1>6, <1>7, <1>8, <1>9, <1>10 DEF Weapon!Next

LEMMA WeaponBooksKept == WeaponBooks => Weapon!RefillsAreEarned
  BY DEF WeaponBooks, WeaponFull, Weapon!RefillsAreEarned

-----------------------------------------------------------------------------
(* Experience: a training of the player that is bound is his own. *)

ExperienceOwn(e) ==
  /\ DOMAIN e = ExperienceFields /\ e.bound \in met \cup {NoPlayer} /\ ~e.strayed
  /\ e.training /\ e.bound = player /\ player # NoPlayer => e.trainee = player

ExperienceBooks == ExperienceOwn(state)

LEMMA ExperienceBooksInit == Experience!Init => ExperienceBooks
  BY DEF Experience!Init, ExperienceBooks, ExperienceOwn, ExperienceFields

\* A round for the bound player on a server sends what is his.
LEMMA ExperienceOwnRound ==
  ASSUME NEW e, ExperienceOwn(e), e.bound = player, player # NoPlayer, NEW fails
  PROVE  \A t \in Experience!AfterRefresh(e, fails) : ExperienceOwn(t)
  <1>1. ExperienceOwn(Experience!Stopped(e)) /\ ExperienceOwn([e EXCEPT !.rested = FALSE])
    BY DEF ExperienceOwn, ExperienceFields, Experience!Stopped
  <1>2. ASSUME Experience!Online PROVE \A t \in Experience!Trained(e, fails) : ExperienceOwn(t)
    <2> DEFINE strayed == e.strayed \/ e.trainee # player \/ ~Experience!Online \/ e.seen >= e.goal
               sent == [e EXCEPT !.rested = FALSE, !.strayed = strayed]
    <2>1. CASE ~e.training
      BY <2>1 DEF Experience!Trained
    <2>2. CASE e.training /\ (e.seen >= e.goal \/ fails \/ ~e.rested)
      BY <1>1, <2>2 DEF Experience!Trained
    <2>3. CASE e.training /\ ~(e.seen >= e.goal \/ fails \/ ~e.rested)
      <3>1. ~strayed
        BY <1>2, <2>3 DEF ExperienceOwn
      <3>2. Experience!Trained(e, fails) = {[e EXCEPT !.rested = FALSE], sent}
        BY <2>3 DEF Experience!Trained
      <3> HIDE DEF strayed
      <3>3. ExperienceOwn(sent)
        BY <3>1 DEF ExperienceOwn, ExperienceFields
      <3> HIDE DEF sent
      <3> QED
        BY <1>1, <3>2, <3>3
    <2> QED
      BY <2>1, <2>2, <2>3
  <1> QED
    BY <1>1, <1>2 DEF Experience!AfterRefresh

LEMMA ExperienceBooksStep == ExperienceInv /\ ExperienceBooks /\ [Experience!Next]_all => ExperienceBooks'
  <1> SUFFICES ASSUME ExperienceInv, ExperienceOwn(state), [Experience!Next]_all PROVE ExperienceBooks'
    BY DEF ExperienceBooks
  <1>0. DOMAIN state = ExperienceFields /\ player \in met \cup {NoPlayer}
    BY DEF ExperienceOwn, ExperienceInv
  <1> DEFINE Stays == UNCHANGED <<player, met>> /\ ExperienceOwn(state')
  <1>1. Stays => ExperienceBooks'
    BY DEF ExperienceBooks, ExperienceOwn
  <1>2. CASE Experience!Live
    <2>1. /\ state' = state /\ met \subseteq met'
          /\ player' = NoPlayer \/ player' \in Players \ met
      BY <1>2 DEF Experience!Live, Experience!Play, Experience!LeaveWorld, Experience!Respawn, Experience!EnterWorld
    <2> QED
      BY <1>0, <2>1 DEF ExperienceBooks, ExperienceOwn
  <1>3. ASSUME Experience!Learn PROVE Stays
    <2> DEFINE xp == [state.xp EXCEPT ![player] = state.xp[player] + 1]
               there == [state.onServer EXCEPT ![player] = state.onServer[player] + 1]
    <2>1. state' = [state EXCEPT !.xp = xp, !.onServer = there] /\ UNCHANGED <<player, met>>
      BY <1>0, <1>3 DEF Experience!Learn, Experience!game, ExperienceFields
    <2> HIDE DEF xp, there
    <2> QED
      BY <2>1 DEF ExperienceOwn, ExperienceFields
  <1>4. ASSUME Experience!Rest PROVE Stays
    BY <1>4 DEF Experience!Rest, Experience!game, ExperienceOwn, ExperienceFields
  <1>5. ASSUME Experience!Update PROVE Stays
    <2> DEFINE known == Experience!Bound(state)
    <2>1. \A e : ExperienceOwn(e) => ExperienceOwn(Experience!Unready(e)) /\ ExperienceOwn(Experience!Stopped(e))
      BY DEF ExperienceOwn, ExperienceFields, Experience!Unready, Experience!Stopped
    <2>2. ExperienceOwn([Experience!NobodyThere(state) EXCEPT !.mode = session])
      BY DEF ExperienceOwn, ExperienceFields, Experience!NobodyThere, Experience!Stopped
    <2>3. ExperienceOwn(known) /\ known.bound = player
      <3>1. CASE state.mode = session /\ state.bound = player
        BY <3>1 DEF Experience!Bound
      <3>2. CASE ~(state.mode = session /\ state.bound = player)
        <4>1. known = [Experience!Stopped(state) EXCEPT !.mode = session, !.bound = player, !.catalog = FALSE,
                         !.seen = 0, !.ready = FALSE]
          BY <3>2 DEF Experience!Bound
        <4>2. DOMAIN Experience!Stopped(state) = ExperienceFields /\ Experience!Stopped(state).training = FALSE
              /\ ~Experience!Stopped(state).strayed
          BY DEF ExperienceOwn, ExperienceFields, Experience!Stopped
        <4> QED
          BY <1>0, <4>1, <4>2 DEF ExperienceOwn, ExperienceFields
      <3> QED
        BY <3>1, <3>2
    <2> HIDE DEF known
    <2> DEFINE fresh == Experience!Refreshed(known)
               old == [Experience!Unready(known) EXCEPT !.catalog = TRUE]
    <2>4. ExperienceOwn(fresh) /\ fresh.bound = player
      BY <2>3 DEF ExperienceOwn, ExperienceFields, Experience!Refreshed
    <2>5. ExperienceOwn(old) /\ old.bound = player
      BY <2>3 DEF ExperienceOwn, ExperienceFields, Experience!Unready
    <2>6. \/ player # NoPlayer /\ \E fails : state' \in Experience!AfterRefresh(fresh, fails)
          \/ player # NoPlayer /\ state' \in Experience!AfterRefresh(old, FALSE)
          \/ state' = [Experience!NobodyThere(state) EXCEPT !.mode = session]
          \/ state' = Experience!Unready(state) \/ state' = Experience!Unready(known)
      BY <1>5 DEF Experience!Update, known
    <2> HIDE DEF fresh, old
    <2> QED
      BY <1>5, <2>1, <2>2, <2>3, <2>4, <2>5, <2>6, ExperienceOwnRound DEF Experience!Update, Experience!game
  <1>6. ASSUME NEW n
        PROVE  LET g == Experience!Gained(state, n) IN
               ExperienceOwn(Experience!Known(g)) /\ ExperienceOwn([g EXCEPT !.unsent = @ \cup {player}])
    <2> DEFINE xp == [state.xp EXCEPT ![player] = IF state.xp[player] + n > Top THEN Top ELSE state.xp[player] + n]
               g == Experience!Gained(state, n)
    <2>1. g = [state EXCEPT !.xp = xp]
      BY <1>0 DEF Experience!Gained, ExperienceFields
    <2> HIDE DEF xp, g
    <2>2. ExperienceOwn(g)
      BY <2>1 DEF ExperienceOwn, ExperienceFields
    <2> DEFINE there == [g.onServer EXCEPT ![player] = g.xp[player]]
               unsent == g.unsent \cup {player}
    <2>3. Experience!Known(g) = [g EXCEPT !.onServer = there]
      BY <2>2 DEF Experience!Known, ExperienceOwn, ExperienceFields
    <2>4. [g EXCEPT !.unsent = @ \cup {player}] = [g EXCEPT !.unsent = unsent]
      BY <2>2 DEF ExperienceOwn, ExperienceFields
    <2> HIDE DEF there, unsent
    <2>5. ExperienceOwn([g EXCEPT !.onServer = there]) /\ ExperienceOwn([g EXCEPT !.unsent = unsent])
      BY <2>2 DEF ExperienceOwn, ExperienceFields
    <2> QED
      BY <2>3, <2>4, <2>5 DEF g
  <1>7. ASSUME Experience!Use PROVE Stays
    <2>1. PICK n \in 1 .. Top :
            \/ Experience!AddLocally(n) \/ Experience!ToggleTraining(n)
            \/ Experience!AddSkillExperienceVanilla(n)
      BY <1>7 DEF Experience!Use
    <2>2. UNCHANGED <<player, met>>
      BY <1>7 DEF Experience!Use, Experience!game
    <2>3. CASE Experience!AddLocally(n) \/ Experience!AddSkillExperienceVanilla(n)
      BY <1>6, <2>2, <2>3 DEF Experience!AddLocally, Experience!AddSkillExperienceVanilla
    <2>4. CASE Experience!ToggleTraining(n)
      <3>1. state' = Experience!Stopped(state) \/ state' = Experience!Started(state, n)
        BY <2>4 DEF Experience!ToggleTraining
      <3> QED
        BY <2>2, <3>1 DEF Experience!Stopped, Experience!Started, ExperienceOwn, ExperienceFields
    <2> QED
      BY <2>1, <2>3, <2>4
  <1>8. ASSUME UNCHANGED all PROVE Stays
    BY <1>8 DEF all, game
  <1> QED
    BY <1>1, <1>2, <1>3, <1>4, <1>5, <1>7, <1>8 DEF Experience!Next

LEMMA ExperienceBooksKept == ExperienceBooks => Experience!TrainingStaysWithItsPlayer
  BY DEF ExperienceBooks, ExperienceOwn, Experience!TrainingStaysWithItsPlayer

-----------------------------------------------------------------------------
(* Medication: an action is counted for the request that made the call. *)

MedicationFields ==
  {"blocking", "phase", "medicine", "baseline", "effect", "items", "due", "expired", "patient", "previous",
   "reply", "own", "instant", "temporary", "broken", "sent"}

\* Outside of the call, and before, in and after it.
MedicationAsked(s) ==
  /\ DOMAIN s = MedicationFields
  /\ s.patient = NoPlayer /\ ~s.reply /\ s.sent = 0 /\ s.phase \in {"idle", "item"}
MedicationCounts(s) ==
  /\ DOMAIN s = MedicationFields
  /\ s.patient = NoPlayer => ~s.reply /\ s.sent = IF s.phase = "effect" THEN 1 ELSE 0
  /\ s.patient # NoPlayer => s.sent = 0 \/ (s.reply /\ s.sent = 1)

MedicationBooks == MedicationCounts(state)

\* What the count does not read.
MedicationLike(t, s) ==
  /\ DOMAIN t = MedicationFields
  /\ t.phase = s.phase /\ t.patient = s.patient /\ t.reply = s.reply /\ t.sent = s.sent

LEMMA MedicationBooksInit == Medication!Init => MedicationBooks
  BY DEF Medication!Init, MedicationBooks, MedicationCounts, MedicationFields

LEMMA MedicationBooksStep == MedicationInv /\ MedicationBooks /\ [Medication!Next]_all => MedicationBooks'
  <1> SUFFICES ASSUME MedicationInv, MedicationCounts(state), [Medication!Next]_all PROVE MedicationCounts(state')
    BY DEF MedicationBooks
  <1>0. state \in MedicationStates /\ DOMAIN state = MedicationFields
    BY DEF MedicationInv, MedicationGood, MedicationStates, MedicationFields
  <1>1. ASSUME MedicationLike(state', state) PROVE MedicationCounts(state')
    BY <1>1 DEF MedicationLike, MedicationCounts
  <1>2. ASSUME NEW s, MedicationAsked(s) PROVE MedicationCounts(s) /\ MedicationAsked(Medication!Later(s))
    BY <1>2 DEF MedicationAsked, MedicationCounts, MedicationFields, Medication!Later
  <1>3. ASSUME NEW s, DOMAIN s = MedicationFields, s.patient = NoPlayer, ~s.reply PROVE MedicationAsked(Medication!Idle(s))
    BY <1>3 DEF MedicationAsked, MedicationFields, Medication!Idle
  <1>4. CASE Medication!Live
    <2> DEFINE effect == [m \in Medicines |-> 0]
    <2>1. state' = [state EXCEPT !.effect = effect, !.items = {}]
      BY <1>4 DEF Medication!Live
    <2> HIDE DEF effect
    <2> QED
      BY <1>0, <1>1, <2>1 DEF MedicationLike, MedicationFields
  <1>5. ASSUME NEW m \in Medicines, Medication!Receive(m) \/ Medication!Feel(m) PROVE MedicationCounts(state')
    <2> DEFINE effect == [state.effect EXCEPT ![m] = 1]
               items == state.items \cup {m}
    <2>1. state' = [state EXCEPT !.effect = effect] \/ state' = [state EXCEPT !.items = items]
      BY <1>0, <1>5 DEF Medication!Receive, Medication!Feel, MedicationFields
    <2> HIDE DEF effect, items
    <2> QED
      BY <1>0, <1>1, <2>1 DEF MedicationLike, MedicationFields
  <1>6. CASE Medication!Elapse
    <2>1. PICK expired \in BOOLEAN : state' = [state EXCEPT !.due = TRUE, !.expired = @ \/ expired]
      BY <1>6 DEF Medication!Elapse
    <2> DEFINE over == state.expired \/ expired
    <2>2. state' = [state EXCEPT !.due = TRUE, !.expired = over]
      BY <2>1
    <2> HIDE DEF over
    <2> QED
      BY <1>0, <1>1, <2>2 DEF MedicationLike, MedicationFields
  <1>7. CASE Medication!Reply
    <2>1. \/ state' = [state EXCEPT !.reply = TRUE, !.sent = @ + 1]
          \/ state' = [state EXCEPT !.reply = TRUE]
      BY <1>7 DEF Medication!Reply
    <2>2. state.patient # NoPlayer /\ ~state.reply
      BY <1>7 DEF Medication!Reply, Medication!Busy
    <2>3. state.sent = 0
      BY <2>2 DEF MedicationCounts
    <2>4. /\ DOMAIN state' = MedicationFields /\ state'.patient = state.patient /\ state'.reply = TRUE
          /\ state'.sent = state.sent \/ state'.sent = state.sent + 1
      BY <1>0, <2>1 DEF MedicationFields
    <2> QED
      BY <2>2, <2>3, <2>4 DEF MedicationCounts
  <1>8. CASE Medication!Started
    <2>1. PICK ok \in BOOLEAN :
            LET s == Medication!Restored(state, ok) IN
            state' = IF ok /\ s.sent > 0 THEN Medication!Waiting(s) ELSE Medication!Idle(s)
      BY <1>8 DEF Medication!Started
    <2> DEFINE p == state.patient
               temporary == IF ok THEN state.temporary \ {p} ELSE state.temporary
               instant == [state.instant EXCEPT ![p] = IF ok THEN state.previous ELSE state.instant[p]]
               broken == IF ok THEN state.broken ELSE state.broken \cup {p}
               s == Medication!Restored(state, ok)
    <2>2. s = [state EXCEPT !.patient = NoPlayer, !.reply = FALSE, !.temporary = temporary,
                            !.instant = instant, !.broken = broken]
      BY <1>0 DEF Medication!Restored, MedicationFields
    <2> HIDE DEF temporary, instant, broken, s
    <2>3. DOMAIN s = MedicationFields /\ s.patient = NoPlayer /\ s.reply = FALSE /\ s.sent = state.sent
      BY <1>0, <2>2 DEF MedicationFields
    <2>4. state.sent \in {0, 1}
      BY <1>8 DEF MedicationCounts, Medication!Started, Medication!Busy
    <2>5. CASE ok /\ s.sent > 0
      <3>0. state' = Medication!Waiting(s)
        BY <2>1, <2>5 DEF s
      <3>1. state' = Medication!Waiting(s) /\ s.sent = 1
        BY <2>3, <2>4, <2>5, <3>0
      <3>2. /\ DOMAIN state' = MedicationFields /\ state'.phase = "effect" /\ state'.sent = 1
            /\ state'.patient = NoPlayer /\ state'.reply = FALSE
        BY <2>3, <3>1 DEF Medication!Waiting, MedicationFields
      <3> QED
        BY <3>2 DEF MedicationCounts
    <2>6. CASE ~(ok /\ s.sent > 0)
      BY <1>2, <1>3, <2>1, <2>3, <2>6 DEF s
    <2> QED
      BY <2>5, <2>6
  <1>9. ASSUME NEW s, MedicationAsked(s), NEW missing, MedicationAsked(missing), player # NoPlayer,
               Medication!Take(s, missing)
        PROVE  MedicationCounts(state')
    <2> DEFINE instant == [s.instant EXCEPT ![player] = TRUE]
               temporary == s.temporary \cup {player}
               sending == Medication!Sending(s)
    <2>1. sending = [s EXCEPT !.baseline = s.effect[s.medicine], !.patient = player, !.previous = s.instant[player],
                       !.instant = instant, !.temporary = temporary]
      BY <1>9 DEF Medication!Sending, MedicationAsked, MedicationFields
    <2> HIDE DEF instant, temporary, sending
    <2>2. MedicationCounts(sending)
      BY <1>9, <2>1 DEF MedicationAsked, MedicationCounts, MedicationFields
    <2>3. MedicationCounts(Medication!Idle(s))
      BY <1>2, <1>3, <1>9 DEF MedicationAsked
    <2> QED
      BY <1>2, <1>9, <2>2, <2>3 DEF Medication!Take, sending
  <1>10. ASSUME NEW m \in Medicines, Medication!RequestServerTimedMedication(m) PROVE MedicationCounts(state')
    <2> DEFINE idle == Medication!Idle(state)
               asked == [idle EXCEPT !.medicine = m]
               waiting == [asked EXCEPT !.phase = "item"]
    <2>1. MedicationAsked(idle)
      BY <1>0, <1>3, <1>10 DEF Medication!RequestServerTimedMedication, Medication!Busy, MedicationCounts
    <2>2. \E missing \in {asked, waiting} : Medication!Take(asked, missing)
      BY <1>10 DEF Medication!RequestServerTimedMedication
    <2> HIDE DEF idle
    <2>3. MedicationAsked(asked)
      BY <2>1 DEF MedicationAsked, MedicationFields
    <2> HIDE DEF asked
    <2>4. MedicationAsked(waiting)
      BY <2>3 DEF MedicationAsked, MedicationFields
    <2>5. player # NoPlayer
      BY <1>10 DEF Medication!RequestServerTimedMedication
    <2> QED
      BY <1>9, <2>2, <2>3, <2>4, <2>5
  <1>11. CASE Medication!Update
    <2>1. player # NoPlayer /\ state.patient = NoPlayer /\ ~state.reply
      BY <1>11 DEF Medication!Update, Medication!Busy, MedicationCounts
    <2>2. MedicationAsked(Medication!Idle(state))
      BY <1>0, <1>3, <2>1
    <2>3. CASE Medication!LookForItem
      <3>1. MedicationAsked(state)
        BY <2>1, <2>3 DEF Medication!LookForItem, MedicationAsked, MedicationCounts
      <3> QED
        BY <1>2, <1>9, <2>1, <2>3, <3>1 DEF Medication!LookForItem
    <2>4. CASE Medication!Expire \/ Medication!LookForEffect
      <3>1. state' = Medication!Idle(state) \/ state' = Medication!Later(state)
        BY <2>4 DEF Medication!Expire, Medication!LookForEffect
      <3>2. MedicationLike(Medication!Later(state), state)
        BY <1>0 DEF MedicationLike, MedicationFields, Medication!Later
      <3> QED
        BY <1>1, <1>2, <2>2, <3>1, <3>2
    <2> QED
      BY <1>11, <2>3, <2>4 DEF Medication!Update
  <1>12. CASE UNCHANGED all
    BY <1>12 DEF all
  <1> QED
    BY <1>4, <1>5, <1>6, <1>7, <1>8, <1>10, <1>11, <1>12 DEF Medication!Next

LEMMA MedicationBooksKept == MedicationBooks => Medication!OneActionPerRequest
  BY DEF MedicationBooks, MedicationCounts, Medication!OneActionPerRequest, Medication!Busy

-----------------------------------------------------------------------------
(* Teleport: nothing is counted without the button, or the cooldown, being remembered. *)

TeleportCounts(t, there) ==
  /\ t.jumps \in {0, 1} /\ (t.jumps = 1 => t.down)
  /\ t.sends \in {0, 1} /\ (t.sends = 1 => there /\ t.cooling)

TeleportThere == player # NoPlayer /\ session = "multiplayer"
TeleportBooks == TeleportCounts(state, TeleportThere)

LEMMA TeleportBooksInit == Teleport!Init => TeleportBooks
  BY DEF Teleport!Init, TeleportBooks, TeleportCounts

\* A frame notices the button, and jumps only when it has just been pressed.
LEMMA TeleportFrame ==
  ASSUME TeleportInv, TeleportBooks, NEW down \in BOOLEAN, NEW client, TeleportThere => client
  PROVE  LET t == Teleport!Noticed(state, down, client) IN
         /\ TeleportCounts(t, TeleportThere)
         /\ Teleport!Aims(state, down) => \A s :
              /\ TeleportCounts(Teleport!Jumped(t, s), TeleportThere)
              /\ \A u \in Teleport!Stranded(t, s) : TeleportCounts(u, TeleportThere)
  <1> DEFINE t == Teleport!Noticed(state, down, client)
             jumps == IF down THEN state.jumps ELSE 0
             cooling == state.cooling /\ client
  <1>0. DOMAIN state = TeleportFields
    BY DEF TeleportInv, TeleportGood
  <1>1. t = [state EXCEPT !.down = down, !.jumps = jumps, !.cooling = cooling]
    BY DEF Teleport!Noticed
  <1> HIDE DEF jumps, cooling
  <1>2. /\ DOMAIN t = TeleportFields /\ t.down = down /\ t.jumps = jumps /\ t.cooling = cooling
        /\ t.sends = state.sends
    BY <1>0, <1>1 DEF TeleportFields
  <1> HIDE DEF t
  <1>3. TeleportCounts(t, TeleportThere)
    <2>1. jumps \in {0, 1} /\ (jumps = 1 => down)
      BY DEF TeleportCounts, TeleportBooks, jumps
    <2>2. state.sends = 1 => TeleportThere /\ cooling
      BY DEF TeleportCounts, TeleportBooks, cooling
    <2> QED
      BY <1>2, <2>1, <2>2 DEF TeleportCounts, TeleportBooks
  <1>4. ASSUME Teleport!Aims(state, down), NEW s
        PROVE  /\ TeleportCounts(Teleport!Jumped(t, s), TeleportThere)
               /\ \A u \in Teleport!Stranded(t, s) : TeleportCounts(u, TeleportThere)
    <2>1. t.jumps = 0 /\ t.down
      BY <1>2, <1>4 DEF Teleport!Aims, Teleport!ClickStarted, TeleportBooks, TeleportCounts, jumps
    <2>2. Teleport!Online => t.sends = 0 /\ TeleportThere
      BY <1>2, <1>4 DEF Teleport!Aims, TeleportBooks, TeleportCounts, TeleportThere, Teleport!Online
    <2> DEFINE m == Teleport!Moved(t, s)
    <2>3. DOMAIN m = TeleportFields /\ m.jumps = 1 /\ m.down /\ m.sends = t.sends /\ m.cooling = t.cooling
      BY <1>2, <2>1 DEF Teleport!Moved, Teleport!UpTo2, TeleportFields
    <2> HIDE DEF m
    <2>4. TeleportCounts(m, TeleportThere) /\ TeleportCounts([m EXCEPT !.unsent = TRUE], TeleportThere)
          /\ TeleportCounts([m EXCEPT !.there = s], TeleportThere)
      BY <1>3, <2>3 DEF TeleportCounts, TeleportFields
    <2>5. Teleport!Online => TeleportCounts(Teleport!Sent(m), TeleportThere)
      BY <2>2, <2>3 DEF TeleportCounts, TeleportFields, Teleport!Sent, Teleport!UpTo2
    <2>6. TeleportCounts(Teleport!Jumped(t, s), TeleportThere)
      BY <2>4, <2>5 DEF Teleport!Jumped, m
    <2> QED
      BY <1>3, <2>4, <2>6 DEF Teleport!Stranded, m
  <1> QED
    BY <1>3, <1>4 DEF t

LEMMA TeleportBooksStep == TeleportInv /\ TeleportBooks /\ [Teleport!Next]_all => TeleportBooks'
  <1> SUFFICES ASSUME TeleportInv, TeleportBooks, [Teleport!Next]_all PROVE TeleportBooks'
    OBVIOUS
  <1>0. DOMAIN state = TeleportFields
    BY DEF TeleportInv, TeleportGood
  <1>1. CASE Teleport!Live
    <2> DEFINE sends == IF player' = NoPlayer THEN 0 ELSE state.sends
    <2>1. state' = [state EXCEPT !.mapOpen = FALSE, !.there = state.here, !.unsent = FALSE, !.sends = sends]
      BY <1>1 DEF Teleport!Live
    <2> HIDE DEF sends
    <2>2. /\ state'.sends = sends /\ state'.jumps = state.jumps /\ state'.down = state.down
          /\ state'.cooling = state.cooling
      BY <1>0, <2>1 DEF TeleportFields
    <2>3. sends = 1 => (player # NoPlayer /\ session' = session /\ player' # NoPlayer /\ state.sends = 1)
      BY <1>1 DEF Teleport!Live, Teleport!Play, Teleport!LeaveWorld, Teleport!EnterWorld, Teleport!Respawn, sends,
                  TeleportBooks, TeleportCounts, TeleportThere
    <2>4. sends \in {0, 1}
      BY DEF sends, TeleportBooks, TeleportCounts
    <2> QED
      BY <2>2, <2>3, <2>4 DEF TeleportBooks, TeleportCounts, TeleportThere
  <1>2. CASE Teleport!ToggleMap
    BY <1>0, <1>2 DEF Teleport!ToggleMap, Teleport!game, TeleportFields, TeleportBooks, TeleportCounts, TeleportThere
  <1>3. CASE Teleport!CoolDown
    BY <1>0, <1>3 DEF Teleport!CoolDown, Teleport!game, TeleportFields, TeleportBooks, TeleportCounts, TeleportThere
  <1>4. CASE Teleport!Update
    <2>1. PICK down \in BOOLEAN : \E alt \in BOOLEAN :
            Teleport!Unready(down) \/ \E client \in Teleport!ClientFlags, s \in Places :
              Teleport!UpdateWith(down, alt, client, s)
      BY <1>4 DEF Teleport!Update
    <2>2. \A client \in Teleport!ClientFlags : TeleportThere => client
      BY DEF Teleport!ClientFlags, TeleportThere, Teleport!Online
    <2>3. TeleportCounts(state', TeleportThere)
      <3>1. CASE Teleport!Unready(down)
        BY <3>1, TeleportFrame DEF Teleport!Unready
      <3>2. ASSUME NEW alt \in BOOLEAN, NEW client \in Teleport!ClientFlags, NEW s \in Places,
                   Teleport!UpdateWith(down, alt, client, s)
            PROVE  TeleportCounts(state', TeleportThere)
        BY <2>2, <3>2, TeleportFrame DEF Teleport!UpdateWith
      <3> QED
        BY <2>1, <3>1, <3>2
    <2>4. TeleportThere' <=> TeleportThere
      BY <1>4 DEF Teleport!Update, Teleport!game, TeleportThere
    <2> QED
      BY <2>3, <2>4 DEF TeleportBooks, TeleportCounts
  <1>5. ASSUME NEW on \in BOOLEAN, Teleport!SetPlayerTeleportEnabled(on) PROVE TeleportBooks'
    BY <1>0, <1>5
    DEF Teleport!SetPlayerTeleportEnabled, Teleport!game, TeleportFields, TeleportBooks, TeleportCounts, TeleportThere
  <1>6. CASE UNCHANGED all
    BY <1>6 DEF all, game, TeleportBooks, TeleportCounts, TeleportThere
  <1> QED
    BY <1>1, <1>2, <1>3, <1>4, <1>5, <1>6 DEF Teleport!Next

LEMMA TeleportBooksKept == TeleportBooks => Teleport!OneJumpPerPress /\ Teleport!OneJumpPerCooldown
  BY DEF TeleportBooks, TeleportCounts, Teleport!OneJumpPerPress, Teleport!OneJumpPerCooldown

-----------------------------------------------------------------------------
(* WorldVisuals: what is alight is the lamp that is remembered, or could not be put out. *)

VisualsFields ==
  {"daylight", "vision", "dark", "reveal", "fog", "rain", "forced", "taken", "right", "broken", "square",
   "lamp", "lamps", "orphans", "masked", "ended", "obeyed"}

VisualsLamp(v) == DOMAIN v = VisualsFields /\ v.lamps \ v.orphans \subseteq {v.lamp}
VisualsHere(v) == v.lamp = IF v.dark THEN v.square ELSE NoWeapon

VisualsBooks == VisualsLamp(state) /\ (state.obeyed => VisualsHere(state))

VisualsLike(t, v) ==
  /\ DOMAIN t = VisualsFields /\ t.lamp = v.lamp /\ t.lamps = v.lamps /\ t.orphans = v.orphans
  /\ t.dark = v.dark /\ t.square = v.square

LEMMA VisualsBooksInit == Visuals!Init => VisualsBooks
  BY DEF Visuals!Init, VisualsBooks, VisualsLamp, VisualsFields

LEMMA VisualsAlike ==
  ASSUME NEW v, NEW t, VisualsLike(t, v)
  PROVE  (VisualsLamp(v) => VisualsLamp(t)) /\ (VisualsHere(v) => VisualsHere(t))
  BY DEF VisualsLike, VisualsLamp, VisualsHere

\* The climate is overridden without the light.
LEMMA VisualsWeather ==
  ASSUME NEW v, DOMAIN v = VisualsFields, NEW c
  PROVE  /\ \A wanted : VisualsLike(Visuals!Steered(v, c, wanted), v)
         /\ \A wanted : \A t \in Visuals!Failed(v, c, wanted) : VisualsLike(t, v)
  <1>1. ASSUME NEW k, VisualsLike(k, v), NEW taken, NEW right, NEW forced, NEW broken, NEW t,
               \/ t = [k EXCEPT !.taken = taken, !.right = right]
               \/ t = [k EXCEPT !.taken = taken, !.forced = forced]
               \/ t = [k EXCEPT !.forced = forced, !.broken = broken]
               \/ t = [k EXCEPT !.forced = forced]
        PROVE  VisualsLike(t, v)
    BY <1>1 DEF VisualsLike, VisualsFields
  <1>2. VisualsLike(v, v)
    BY DEF VisualsLike
  <1>3. ASSUME NEW k, VisualsLike(k, v) PROVE VisualsLike(Visuals!Restored(k, c), v)
    <2> DEFINE taken == k.taken \ {c}
               forced == IF c \in k.right THEN k.forced \ {c} ELSE k.forced \cup {c}
    <2>1. Visuals!Restored(k, c) = k \/ Visuals!Restored(k, c) = [k EXCEPT !.taken = taken, !.forced = forced]
      BY DEF Visuals!Restored
    <2> HIDE DEF taken, forced
    <2> QED
      BY <1>1, <1>3, <2>1
  <1>4. VisualsLike(Visuals!Taken(v, c), v)
    <2> DEFINE taken == v.taken \cup {c}
               right == IF c \in v.forced THEN v.right \ {c} ELSE v.right \cup {c}
    <2>1. Visuals!Taken(v, c) = v \/ Visuals!Taken(v, c) = [v EXCEPT !.taken = taken, !.right = right]
      BY DEF Visuals!Taken
    <2> HIDE DEF taken, right
    <2> QED
      BY <1>1, <1>2, <2>1
  <1>5. VisualsLike(Visuals!Forced(v, c), v)
    <2> DEFINE k == Visuals!Taken(v, c)
               forced == k.forced \cup {c}
    <2>1. Visuals!Forced(v, c) = [k EXCEPT !.forced = forced]
      BY DEF Visuals!Forced
    <2> HIDE DEF k, forced
    <2>2. VisualsLike(k, v)
      BY <1>4 DEF k
    <2> QED
      BY <1>1, <2>1, <2>2
  <1>6. ASSUME NEW wanted, NEW t \in Visuals!Failed(v, c, wanted) PROVE VisualsLike(t, v)
    <2> DEFINE k == Visuals!Restored(v, c)
               forced == v.forced \cup {c}
               broken == v.broken \cup {c}
               spoiled == k.broken \cup {c}
    <2>1. \/ t = [k EXCEPT !.forced = v.forced, !.broken = spoiled]
          \/ t = v \/ t = Visuals!Restored(Visuals!Taken(v, c), c) \/ t = Visuals!Taken(v, c)
          \/ t = [v EXCEPT !.forced = forced, !.broken = broken]
      BY DEF Visuals!Failed
    <2>2. VisualsLike(k, v) /\ VisualsLike(Visuals!Restored(Visuals!Taken(v, c), c), v)
      BY <1>2, <1>3, <1>4
    <2> HIDE DEF k, forced, broken, spoiled
    <2> QED
      BY <1>1, <1>2, <1>4, <2>1, <2>2
  <1> QED
    BY <1>2, <1>3, <1>5, <1>6 DEF Visuals!Steered

LEMMA VisualsLights ==
  ASSUME NEW v, VisualsLamp(v)
  PROVE  /\ VisualsLamp(Visuals!UpdateLocalLight(v)) /\ VisualsHere(Visuals!UpdateLocalLight(v))
         /\ VisualsLamp(Visuals!RemoveLocalLight(v))
         /\ \A t \in Visuals!LightFails(v) : VisualsLamp(t)
  <1> DEFINE out == v.lamps \ {v.lamp}
             off == Visuals!RemoveLocalLight(v)
  <1>1. off = [v EXCEPT !.lamp = NoWeapon, !.lamps = out]
    BY DEF Visuals!RemoveLocalLight
  <1> HIDE DEF off
  <1>2. /\ DOMAIN off = VisualsFields /\ off.lamp = NoWeapon /\ off.lamps = v.lamps \ {v.lamp} /\ off.orphans = v.orphans
        /\ off.dark = v.dark /\ off.square = v.square
    <2> HIDE DEF out
    <2>1. /\ DOMAIN off = VisualsFields /\ off.lamp = NoWeapon /\ off.lamps = out /\ off.orphans = v.orphans
          /\ off.dark = v.dark /\ off.square = v.square
      BY <1>1 DEF VisualsLamp, VisualsFields
    <2> QED
      BY <2>1 DEF out
  <1>3. VisualsLamp(off)
    BY <1>2 DEF VisualsLamp
  <1>4. ASSUME NEW lamps, NEW orphans, NEW s
        PROVE  LET t == [off EXCEPT !.lamp = s, !.lamps = lamps]
                   u == [off EXCEPT !.lamps = lamps, !.orphans = orphans] IN
               /\ DOMAIN t = VisualsFields /\ t.lamp = s /\ t.lamps = lamps /\ t.orphans = v.orphans
               /\ t.dark = v.dark /\ t.square = v.square
               /\ DOMAIN u = VisualsFields /\ u.lamp = NoWeapon /\ u.lamps = lamps /\ u.orphans = orphans
    BY <1>2 DEF VisualsFields
  <1>5. VisualsLamp(Visuals!UpdateLocalLight(v)) /\ VisualsHere(Visuals!UpdateLocalLight(v))
    <2>1. CASE ~v.dark
      BY <1>2, <1>3, <2>1 DEF Visuals!UpdateLocalLight, VisualsHere, off
    <2>2. CASE v.dark /\ v.lamp = v.square
      BY <2>2 DEF Visuals!UpdateLocalLight, VisualsHere
    <2>3. CASE v.dark /\ v.lamp # v.square
      <3> DEFINE lamps == off.lamps \cup {v.square}
                 t == [off EXCEPT !.lamp = v.square, !.lamps = lamps]
      <3>1. Visuals!UpdateLocalLight(v) = t
        BY <1>2, <2>3 DEF Visuals!UpdateLocalLight, off, VisualsFields
      <3> HIDE DEF lamps
      <3>2. /\ DOMAIN t = VisualsFields /\ t.lamp = v.square /\ t.lamps = lamps /\ t.orphans = v.orphans
            /\ t.dark = v.dark /\ t.square = v.square
        BY <1>4
      <3> HIDE DEF t
      <3> QED
        BY <1>2, <2>3, <3>1, <3>2 DEF VisualsLamp, VisualsHere, lamps
    <2> QED
      BY <2>1, <2>2, <2>3
  <1>6. ASSUME NEW t \in Visuals!LightFails(v) PROVE VisualsLamp(t)
    <2> DEFINE lost == v.orphans \cup ({v.lamp} \ {NoWeapon})
               lamps == off.lamps \cup {v.square}
               orphans == off.orphans \cup {v.square}
               dark == [v EXCEPT !.lamp = NoWeapon, !.orphans = lost]
               lit == [off EXCEPT !.lamps = lamps, !.orphans = orphans]
    <2>1. t = v \/ t = off \/ t = dark \/ t = lit
      <3>1. [[v EXCEPT !.lamp = NoWeapon] EXCEPT !.orphans = @ \cup ({v.lamp} \ {NoWeapon})] = dark
        BY DEF VisualsLamp, VisualsFields
      <3>2. [Visuals!RemoveLocalLight(v) EXCEPT !.lamps = @ \cup {v.square}, !.orphans = @ \cup {v.square}] = lit
        BY <1>2 DEF off, VisualsFields
      <3> QED
        BY <3>1, <3>2 DEF Visuals!LightFails, off
    <2>2. VisualsLamp(dark)
      <3> HIDE DEF lost
      <3>1. DOMAIN dark = VisualsFields /\ dark.lamp = NoWeapon /\ dark.lamps = v.lamps /\ dark.orphans = lost
        BY DEF VisualsLamp, VisualsFields
      <3> HIDE DEF dark
      <3> QED
        BY <3>1 DEF VisualsLamp, lost
    <2>3. VisualsLamp(lit)
      <3> HIDE DEF lamps, orphans
      <3>1. DOMAIN lit = VisualsFields /\ lit.lamp = NoWeapon /\ lit.lamps = lamps /\ lit.orphans = orphans
        BY <1>4
      <3> HIDE DEF lit
      <3> QED
        BY <1>2, <3>1 DEF VisualsLamp, lamps, orphans
    <2> HIDE DEF dark, lit
    <2> QED
      BY <1>3, <2>1, <2>2, <2>3
  <1> QED
    BY <1>3, <1>5, <1>6 DEF off

LEMMA VisualsBooksStep == VisualsInv /\ VisualsBooks /\ [Visuals!Next]_all => VisualsBooks'
  <1> SUFFICES ASSUME VisualsInv, VisualsBooks, [Visuals!Next]_all PROVE VisualsBooks'
    OBVIOUS
  <1>0. VisualsLamp(state) /\ DOMAIN state = VisualsFields
    BY DEF VisualsBooks, VisualsLamp
  <1>1. ASSUME VisualsLamp(state'), state'.obeyed => VisualsHere(state') PROVE VisualsBooks'
    BY <1>1 DEF VisualsBooks, VisualsLamp, VisualsHere
  <1>2. CASE Visuals!Leave
    BY <1>0, <1>1, <1>2 DEF Visuals!Leave, VisualsLamp, VisualsFields
  <1>3. CASE Visuals!Enter
    BY <1>0, <1>1, <1>3 DEF Visuals!Enter, VisualsLamp, VisualsFields
  <1>4. CASE Visuals!Die
    BY <1>1, <1>4 DEF Visuals!Die, VisualsBooks
  <1>5. ASSUME NEW s \in Places, Visuals!Walk(s) PROVE VisualsBooks'
    BY SMTT(30), <1>0, <1>1, <1>5 DEF Visuals!Walk, VisualsLamp, VisualsFields
  <1>6. CASE Visuals!Set
    <2> DEFINE masked(on) == on /\ player # NoPlayer
    <2>1. \/ \E on : \/ state' = [state EXCEPT !.daylight = on, !.obeyed = FALSE]
                     \/ state' = [state EXCEPT !.vision = on, !.obeyed = FALSE]
                     \/ state' = [state EXCEPT !.dark = on, !.obeyed = FALSE]
                     \/ state' = [state EXCEPT !.reveal = on, !.masked = masked(on), !.obeyed = FALSE]
                     \/ state' = [state EXCEPT !.fog = on, !.obeyed = FALSE]
                     \/ state' = [state EXCEPT !.rain = on, !.obeyed = FALSE]
      BY <1>6 DEF Visuals!Set, Visuals!SetRevealUnexploredEnabled
    <2> HIDE DEF masked
    <2> QED
      BY ZenonT(60), <1>0, <1>1, <2>1 DEF VisualsLamp, VisualsFields
  <1>7. CASE Visuals!UpdateWithoutWorld
    <2> DEFINE forced == (state.forced \ state.taken) \cup (state.taken \ state.right)
               clean == [state EXCEPT !.taken = {}, !.forced = forced, !.masked = FALSE, !.ended = FALSE, !.obeyed = FALSE]
    <2>1. state' = Visuals!RemoveLocalLight(clean)
      BY <1>7 DEF Visuals!UpdateWithoutWorld, Visuals!Ended
    <2> HIDE DEF forced
    <2>2. VisualsLamp(clean) /\ clean.obeyed = FALSE
      BY <1>0 DEF VisualsLamp, VisualsFields
    <2> HIDE DEF clean
    <2>3. state'.obeyed = FALSE
      <3> DEFINE out == clean.lamps \ {clean.lamp}
      <3>1. state' = [clean EXCEPT !.lamp = NoWeapon, !.lamps = out]
        BY <2>1 DEF Visuals!RemoveLocalLight
      <3> HIDE DEF out
      <3> QED
        BY <2>2, <3>1 DEF VisualsLamp, VisualsFields
    <2> QED
      BY <1>1, <2>1, <2>2, <2>3, VisualsLights
  <1>8. CASE Visuals!UpdateInWorld
    <2> DEFINE begun == [state EXCEPT !.masked = state.reveal]
               dropped == [begun EXCEPT !.obeyed = FALSE]
               Ends(v, failing) == state' = [v EXCEPT !.obeyed = failing = "nothing"]
               Rest(l, failing) == \E s \in Visuals!After(l, "vision", failing) : \E f \in Visuals!After(s, "fog", failing) :
                                     \E r \in Visuals!Rained(f, failing) : Ends(r, failing)
    <2>1. VisualsLamp(begun)
      BY <1>0 DEF VisualsLamp, VisualsFields
    <2>2. \/ state' = dropped
          \/ \E failing \in {"nothing", "light"} \cup Visuals!Climate :
               \E d \in Visuals!After(begun, "daylight", failing) : \E l \in Visuals!Lit(d, failing) : Rest(l, failing)
      BY <1>8 DEF Visuals!UpdateInWorld
    <2> HIDE DEF begun
    <2>3. ASSUME state' = dropped PROVE VisualsBooks'
      BY <1>1, <2>1, <2>3 DEF VisualsLamp, VisualsFields
    <2>4. ASSUME NEW failing \in {"nothing", "light"} \cup Visuals!Climate,
                 NEW d \in Visuals!After(begun, "daylight", failing), NEW l \in Visuals!Lit(d, failing), Rest(l, failing)
          PROVE  VisualsBooks'
      <3>1. PICK s \in Visuals!After(l, "vision", failing) : \E f \in Visuals!After(s, "fog", failing) :
              \E r \in Visuals!Rained(f, failing) : Ends(r, failing)
        BY <2>4
      <3>2. PICK f \in Visuals!After(s, "fog", failing) : \E r \in Visuals!Rained(f, failing) : Ends(r, failing)
        BY <3>1
      <3>3. PICK r \in Visuals!Rained(f, failing) : Ends(r, failing)
        BY <3>2
      <3>4. VisualsLike(d, begun)
        BY <2>1, VisualsWeather DEF Visuals!After, VisualsLamp
      <3>5. VisualsLamp(d)
        BY <2>1, <3>4, VisualsAlike
      <3>6. VisualsLamp(l) /\ (failing = "nothing" => VisualsHere(l))
        BY <3>5, VisualsLights DEF Visuals!Lit
      <3>7. VisualsLike(s, l)
        BY <3>1, <3>6, VisualsWeather DEF Visuals!After, VisualsLamp
      <3>8. VisualsLike(f, s)
        BY <3>2, <3>7, VisualsWeather DEF Visuals!After, VisualsLike
      <3>9. VisualsLike(r, f)
        <4> DEFINE p == Visuals!Steered(f, "precipitation", Visuals!Wanted(f, "precipitation"))
        <4>1. VisualsLike(p, f)
          BY <3>8, VisualsWeather DEF VisualsLike
        <4>2. \/ r \in Visuals!Failed(f, "precipitation", Visuals!Wanted(f, "precipitation"))
              \/ \E wanted : r \in Visuals!Failed(p, "snow", wanted) \/ r = Visuals!Steered(p, "snow", wanted)
          BY <3>3 DEF Visuals!Rained, Visuals!Precipitation
        <4> HIDE DEF p
        <4>3. \A wanted : \A t : t \in Visuals!Failed(p, "snow", wanted) \/ t = Visuals!Steered(p, "snow", wanted)
                => VisualsLike(t, p)
          BY <4>1, VisualsWeather DEF VisualsLike
        <4>4. \A t : VisualsLike(t, p) => VisualsLike(t, f)
          BY <4>1 DEF VisualsLike
        <4>5. \A wanted : \A t \in Visuals!Failed(f, "precipitation", wanted) : VisualsLike(t, f)
          BY <3>8, VisualsWeather DEF VisualsLike
        <4> QED
          BY <4>2, <4>3, <4>4, <4>5
      <3> DEFINE ok == failing = "nothing"
      <3>10. state' = [r EXCEPT !.obeyed = ok]
        BY <3>3
      <3> HIDE DEF ok
      <3>11. VisualsLike(state', r) /\ state'.obeyed = ok
        BY <3>9, <3>10 DEF VisualsLike, VisualsFields
      <3>12. VisualsLike(state', l)
        BY <3>7, <3>8, <3>9, <3>11 DEF VisualsLike
      <3> QED
        BY <1>1, <3>6, <3>11, <3>12, VisualsAlike DEF ok
    <2> QED
      BY <2>2, <2>3, <2>4
  <1>9. CASE UNCHANGED all
    BY <1>9 DEF all, VisualsBooks, VisualsLamp, VisualsHere
  <1> QED
    BY <1>2, <1>3, <1>4, <1>5, <1>6, <1>7, <1>8, <1>9 DEF Visuals!Next, Visuals!Update

LEMMA VisualsBooksKept == VisualsBooks => Visuals!OneLight
  BY DEF VisualsBooks, VisualsLamp, VisualsHere, Visuals!OneLight

-----------------------------------------------------------------------------
(* ExtensionCommands: the tools are up for the character they are kept up for. *)

Extension == INSTANCE ExtensionCommands WITH extension <- state, MaxRequests <- FewRequests, MaxFaults <- FewFaults

ExtensionFields ==
  {"bound", "fresh", "queued", "flag", "told", "permitted", "world", "link", "links", "access",
   "seen", "inQueue", "previous", "previousLink", "held", "pending", "done"}

ToolsGood(e) == DOMAIN e = ExtensionFields /\ e.held \subseteq {e.previous}

ToolsInv == ToolsGood(state)

LEMMA ToolsInit == Extension!Init => ToolsInv
  BY DEF Extension!Init, ToolsInv, ToolsGood, ExtensionFields

\* What differs in neither field.
ToolsLike(t, e) == DOMAIN t = ExtensionFields /\ t.held = e.held /\ t.previous = e.previous

LEMMA ToolsRun == ASSUME ToolsGood(state), Extension!Run PROVE ToolsGood(state')
  <1> DEFINE command == state.pending
             access == Extension!Allowed
             begun == [state EXCEPT !.inQueue = state.inQueue - 1, !.access = access, !.pending = Extension!NoCommand]
             settled == Extension!Settled(begun)
             after == IF command = Extension!NoCommand THEN settled ELSE Extension!Executed(settled, command)
             over(e) == [e EXCEPT !.queued = FALSE]
  <1>1. \/ state' = over(begun) \/ state' = over(settled) \/ state' = over(after)
        \/ state' = over(Extension!Maintained(after))
    BY DEF Extension!Run
  <1>2. ToolsLike(begun, state)
    BY DEF ToolsGood, ToolsLike, ExtensionFields
  <1> HIDE DEF begun, access
  <1>3. /\ ToolsGood(settled)
        /\ Extension!Ready => settled.previous = player
    <2> DEFINE who == IF Extension!Ready THEN player ELSE NoPlayer
               link == state.link
    <2>1. CASE Extension!MovedOn
      <3>1. settled = [begun EXCEPT !.held = {}, !.previous = who, !.previousLink = link]
        BY <2>1 DEF Extension!Settled
      <3> HIDE DEF link, who, settled
      <3>2. DOMAIN settled = ExtensionFields /\ settled.held = {} /\ settled.previous = who
        BY <1>2, <3>1 DEF ToolsLike, ExtensionFields
      <3> QED
        BY <3>2 DEF ToolsGood, who
    <2>2. CASE ~Extension!MovedOn
      BY <1>2, <2>2 DEF Extension!Settled, Extension!MovedOn, ToolsGood, ToolsLike
    <2> QED
      BY <2>1, <2>2
  <1> HIDE DEF settled
  <1>4. ToolsLike(after, settled)
    BY <1>3 DEF Extension!Executed, ToolsGood, ToolsLike, ExtensionFields
  <1> HIDE DEF after
  <1>5. ToolsGood(Extension!Maintained(after))
    <2> DEFINE held == IF after.told /\ "flag:256" \in Extension!Allowed THEN {player} ELSE {}
               m == Extension!Maintained(after)
    <2>1. CASE ~Extension!Ready
      BY <1>3, <1>4, <2>1 DEF Extension!Maintained, ToolsGood, ToolsLike
    <2>2. CASE Extension!Ready
      <3>1. m = [after EXCEPT !.held = held] /\ held \subseteq {player}
        BY <2>2 DEF Extension!Maintained
      <3> HIDE DEF held, m
      <3>2. DOMAIN m = ExtensionFields /\ m.held = held /\ m.previous = player
        BY <1>3, <1>4, <2>2, <3>1 DEF ToolsLike, ExtensionFields
      <3>3. ToolsGood(m)
        BY <3>1, <3>2 DEF ToolsGood
      <3> QED
        BY <3>3 DEF m
    <2> QED
      BY <2>1, <2>2
  <1>6. \A e : ToolsGood(e) => ToolsGood(over(e))
    BY DEF ToolsGood, ExtensionFields
  <1>7. ToolsGood(begun) /\ ToolsGood(settled) /\ ToolsGood(after)
    BY <1>2, <1>3, <1>4 DEF ToolsGood, ToolsLike
  <1> HIDE DEF over
  <1> QED
    BY <1>1, <1>5, <1>6, <1>7

LEMMA ToolsStep == ToolsInv /\ [Extension!Next]_all => ToolsInv'
  <1> SUFFICES ASSUME ToolsGood(state), [Extension!Next]_all PROVE ToolsGood(state')
    BY DEF ToolsInv, ToolsGood, ExtensionFields
  <1>0. ToolsLike(state, state)
    BY DEF ToolsGood, ToolsLike
  <1>1. \A e, a, b : ToolsLike(e, state) =>
          /\ ToolsLike([e EXCEPT !.link = a, !.links = b], state) /\ ToolsLike([e EXCEPT !.queued = a, !.inQueue = b], state)
          /\ ToolsLike([e EXCEPT !.seen = a, !.fresh = b], state) /\ ToolsLike([e EXCEPT !.world = a], state)
          /\ ToolsLike([e EXCEPT !.link = a], state) /\ ToolsLike([e EXCEPT !.permitted = a], state)
          /\ ToolsLike([e EXCEPT !.flag = a], state) /\ ToolsLike([e EXCEPT !.bound = a], state)
          /\ ToolsLike([e EXCEPT !.told = a], state) /\ ToolsLike([e EXCEPT !.fresh = a], state)
          /\ ToolsLike([e EXCEPT !.pending = a], state)
    BY DEF ToolsLike, ExtensionFields
  <1>2. \A t : ToolsLike(t, state) => ToolsGood(t)
    BY DEF ToolsGood, ToolsLike
  <1>3. \A e : ToolsLike(e, state) => ToolsLike(Extension!Linked(e), state)
    <2> TAKE e
    <2> DEFINE link == e.links + 1
    <2>1. Extension!Linked(e) = [e EXCEPT !.link = link, !.links = link]
      BY SMTT(30) DEF Extension!Linked
    <2> HIDE DEF link
    <2> QED
      BY <2>1 DEF ToolsLike, ExtensionFields
  <1> HIDE DEF ToolsLike
  <1>4. CASE Extension!Live
    <2> DEFINE e == IF player = NoPlayer \/ player' = NoPlayer THEN [state EXCEPT !.world = state.world + 1] ELSE state
    <2> DEFINE world == state.world + 1
               loaded == [state EXCEPT !.world = world]
    <2>1. ToolsLike(e, state)
      <3>1. e = loaded \/ e = state
        BY SMTT(30)
      <3> HIDE DEF world, e
      <3>2. ToolsLike(loaded, state)
        BY <1>0, <1>1
      <3> QED
        BY <1>0, <3>1, <3>2
    <2>2. state' \in {Extension!Linked(e), [e EXCEPT !.link = 0], e}
      BY <1>4 DEF Extension!Live
    <2> HIDE DEF e
    <2> QED
      BY <1>1, <1>2, <1>3, <2>1, <2>2
  <1>5. CASE Extension!Connection
    BY <1>0, <1>1, <1>2, <1>3, <1>5 DEF Extension!Connection
  <1>6. CASE Extension!Bind \/ Extension!Ages \/ \E on \in BOOLEAN : Extension!SetFlag(on)
    BY <1>0, <1>1, <1>2, <1>6 DEF Extension!Bind, Extension!Ages, Extension!SetFlag
  <1>7. CASE Extension!UpdateExtensionBridge
    <2>1. PICK accepted \in BOOLEAN :
            LET e == Extension!Submitted([state EXCEPT !.told = state.flag], accepted)
            IN  state' = [e EXCEPT !.seen = e.access, !.fresh = TRUE]
      BY <1>7 DEF Extension!UpdateExtensionBridge
    <2> DEFINE told == [state EXCEPT !.told = state.flag]
               e == Extension!Submitted(told, accepted)
    <2>2. ToolsLike(told, state)
      BY <1>0, <1>1
    <2> HIDE DEF told
    <2>3. ToolsLike(e, state)
      <3> DEFINE queue == told.inQueue + 1
      <3>1. e = told \/ e = [told EXCEPT !.queued = TRUE, !.inQueue = queue]
        BY DEF Extension!Submitted
      <3> HIDE DEF queue, e
      <3> QED
        BY <2>2, <3>1 DEF ToolsLike, ExtensionFields
    <2> HIDE DEF e
    <2>4. \E a : state' = [e EXCEPT !.seen = a, !.fresh = TRUE]
      BY <2>1 DEF e, told
    <2> QED
      BY <1>1, <1>2, <2>3, <2>4
  <1>8. CASE \E action \in Extension!Commands : Extension!QueueExtensionCommand(action)
    BY <1>0, <1>1, <1>2, <1>8 DEF Extension!QueueExtensionCommand
  <1>9. CASE Extension!Run
    BY <1>9, ToolsRun
  <1>10. CASE UNCHANGED all
    BY <1>10 DEF all
  <1> QED
    BY <1>4, <1>5, <1>6, <1>7, <1>8, <1>9, <1>10 DEF Extension!Next

LEMMA ToolsKept == ToolsInv => Extension!ToolsHaveTheirPlayer
  BY DEF ToolsInv, ToolsGood, Extension!ToolsHaveTheirPlayer

-----------------------------------------------------------------------------
(* ExtensionCommands: the numbers of the commands, and the one mark of the one run. *)

ExtensionMarked(e) == DOMAIN e = ExtensionFields /\ e.inQueue \in {0, 1} /\ (e.queued <=> e.inQueue = 1)

ExtensionRight(d) == d.command.given = d.ran /\ d.command.action \in d.allowed

\* Every command has a number of its own, and what waits was not carried out yet.
ExtensionHistory(done, pending, next) ==
  /\ next \in Nat /\ \E S : done \in Seq(S)
  /\ \A i \in 1 .. Len(done) : ExtensionRight(done[i]) /\ done[i].command.id \in Nat /\ done[i].command.id < next
  /\ \A i, j \in 1 .. Len(done) : done[i].command.id = done[j].command.id => i = j
  /\ pending # Extension!NoCommand =>
       /\ pending.id \in Nat /\ pending.id < next
       /\ \A i \in 1 .. Len(done) : done[i].command.id # pending.id

ExtensionBooks == ExtensionMarked(state) /\ ExtensionHistory(state.done, state.pending, requests)

\* What differs in neither.
ExtensionLike(t, e) ==
  /\ DOMAIN t = ExtensionFields /\ t.inQueue = e.inQueue /\ t.queued = e.queued
  /\ t.done = e.done /\ t.pending = e.pending

LEMMA ExtensionBooksInit == Extension!Init => ExtensionBooks
  <1> SUFFICES ASSUME Extension!Init PROVE ExtensionBooks
    OBVIOUS
  <1>1. ExtensionMarked(state) /\ state.done = <<>> /\ state.pending = Extension!NoCommand /\ requests = 0
    BY DEF Extension!Init, Extension!GameInit, ExtensionMarked, ExtensionFields
  <1>2. <<>> \in Seq({}) /\ Len(<<>>) = 0
    OBVIOUS
  <1> QED
    BY <1>1, <1>2 DEF ExtensionBooks, ExtensionHistory

LEMMA ExtensionAppended ==
  ASSUME NEW done, NEW pending, NEW next, ExtensionHistory(done, pending, next), pending # Extension!NoCommand,
         NEW d, d.command = pending, ExtensionRight(d)
  PROVE  ExtensionHistory(Append(done, d), Extension!NoCommand, next)
  <1> DEFINE more == Append(done, d)
  <1>1. PICK S : done \in Seq(S)
    BY DEF ExtensionHistory
  <1>2. done \in Seq(S \cup {d})
    BY <1>1, SeqMonotonic
  <1>3. /\ more \in Seq(S \cup {d}) /\ Len(more) = Len(done) + 1 /\ more[Len(done) + 1] = d
        /\ \A i \in 1 .. Len(done) : more[i] = done[i]
    BY <1>2, AppendProperties
  <1>4. Len(done) \in Nat
    BY <1>2, LenProperties
  <1>5. \A i \in 1 .. Len(more) : i \in 1 .. Len(done) \/ i = Len(done) + 1
    BY <1>3, <1>4
  <1> HIDE DEF more
  <1>6. \A i \in 1 .. Len(more) : ExtensionRight(more[i]) /\ more[i].command.id \in Nat /\ more[i].command.id < next
    BY <1>3, <1>5 DEF ExtensionHistory
  <1>7. ASSUME NEW i \in 1 .. Len(more), NEW j \in 1 .. Len(more), more[i].command.id = more[j].command.id
        PROVE  i = j
    <2>1. CASE i \in 1 .. Len(done) /\ j \in 1 .. Len(done)
      BY <1>3, <1>7, <2>1 DEF ExtensionHistory
    <2>2. CASE i = Len(done) + 1 \/ j = Len(done) + 1
      BY <1>3, <1>5, <1>7, <2>2 DEF ExtensionHistory
    <2> QED
      BY <1>5, <2>1, <2>2
  <1> QED
    BY <1>3, <1>6, <1>7 DEF ExtensionHistory, more

LEMMA ExtensionRun ==
  ASSUME ExtensionBooks, Extension!Run
  PROVE  ExtensionMarked(state') /\ ExtensionHistory(state'.done, state'.pending, requests)
  <1> DEFINE command == state.pending
             access == Extension!Allowed
             left == state.inQueue - 1
             d == [command |-> command, ran |-> Extension!Session, allowed |-> access]
             begun == [state EXCEPT !.inQueue = left, !.access = access, !.pending = Extension!NoCommand]
             settled == Extension!Settled(begun)
             executed == Extension!Executed(settled, command)
             after == IF command = Extension!NoCommand THEN settled ELSE executed
             refused == command # Extension!NoCommand /\ ~Extension!Admits(command)
             over(e) == [e EXCEPT !.queued = FALSE]
             Like(e) == DOMAIN e = ExtensionFields /\ e.inQueue = 0 /\ e.pending = Extension!NoCommand
  <1>0. DOMAIN state = ExtensionFields /\ left = 0
    BY DEF Extension!Run, ExtensionBooks, ExtensionMarked
  <1>1. \/ state' = over(begun) \/ state' = over(settled)
        \/ /\ ~refused
           /\ state' = over(after) \/ state' = over(Extension!Maintained(after))
    BY DEF Extension!Run
  <1>2. Like(begun) /\ begun.done = state.done
    <2> HIDE DEF left, access
    <2> QED
      BY <1>0 DEF ExtensionFields
  <1>3. /\ \A e, a, t : Like(e) /\ t = [e EXCEPT !.held = a] => Like(t) /\ t.done = e.done
        /\ \A e, a : Like(e) => \A t : t = [e EXCEPT !.done = a] => Like(t) /\ t.done = a
        /\ \A e, t : Like(e) /\ t = over(e) => Like(t) /\ t.done = e.done /\ t.queued = FALSE
    BY DEF ExtensionFields
  <1>4. Like(settled) /\ settled.done = state.done
    <2> DEFINE who == IF Extension!Ready THEN player ELSE NoPlayer
               link == state.link
               moved == [begun EXCEPT !.held = {}, !.previous = who, !.previousLink = link]
    <2>1. settled = begun \/ settled = moved
      BY DEF Extension!Settled
    <2> HIDE DEF who, link, begun
    <2>2. Like(moved) /\ moved.done = begun.done
      BY <1>2 DEF ExtensionFields
    <2> QED
      BY <1>2, <2>1, <2>2
  <1>5. Like(executed) /\ executed.done = Append(state.done, d)
    <2> DEFINE more == Append(settled.done, d)
    <2>1. executed = [settled EXCEPT !.done = more]
      BY DEF Extension!Executed
    <2> HIDE DEF settled, executed, more, Like
    <2>2. Like(executed) /\ executed.done = more
      BY <1>3, <1>4, <2>1
    <2> QED
      BY <1>4, <2>2 DEF more
  <1> HIDE DEF begun, settled, executed, d
  <1>6. Like(after) /\ (after.done = state.done \/ (command # Extension!NoCommand /\ after.done = Append(state.done, d)))
    BY <1>4, <1>5
  <1> HIDE DEF after
  <1>7. Like(Extension!Maintained(after)) /\ Extension!Maintained(after).done = after.done
    <2> DEFINE held == IF after.told /\ "flag:256" \in Extension!Allowed THEN {player} ELSE {}
    <2>1. Extension!Maintained(after) = after \/ Extension!Maintained(after) = [after EXCEPT !.held = held]
      BY DEF Extension!Maintained
    <2> HIDE DEF held, Like, over
    <2> QED
      BY <1>3, <1>6, <2>1
  <1>8. ExtensionHistory(state.done, Extension!NoCommand, requests)
    BY DEF ExtensionBooks, ExtensionHistory
  <1>9. ASSUME ~refused, command # Extension!NoCommand
        PROVE  ExtensionHistory(Append(state.done, d), Extension!NoCommand, requests)
    <2>1. ExtensionRight(d) /\ d.command = command
      BY <1>9 DEF ExtensionRight, d, Extension!Admits
    <2> QED
      BY <1>9, <2>1, ExtensionAppended DEF ExtensionBooks
  <1>10. /\ Like(state') /\ state'.queued = FALSE
         /\ \/ state'.done = state.done
            \/ ~refused /\ command # Extension!NoCommand /\ state'.done = Append(state.done, d)
    <2> HIDE DEF over, Like, refused, command
    <2>1. CASE state' = over(begun) \/ state' = over(settled)
      BY <1>2, <1>3, <1>4, <2>1
    <2>2. CASE ~refused /\ (state' = over(after) \/ state' = over(Extension!Maintained(after)))
      BY <1>3, <1>6, <1>7, <2>2
    <2> QED
      BY <1>1, <2>1, <2>2
  <1>11. ExtensionHistory(state'.done, Extension!NoCommand, requests)
    <2> HIDE DEF refused, command, Like
    <2> QED
      BY <1>8, <1>9, <1>10
  <1> QED
    BY <1>10, <1>11 DEF ExtensionMarked

LEMMA ExtensionBooksStep == ToolsInv /\ ExtensionBooks /\ [Extension!Next]_all => ExtensionBooks'
  <1> SUFFICES ASSUME ToolsInv, ExtensionBooks, [Extension!Next]_all PROVE ExtensionBooks'
    OBVIOUS
  <1>0. ExtensionLike(state, state) /\ requests \in Nat
    BY DEF ExtensionBooks, ExtensionMarked, ExtensionLike, ExtensionHistory
  <1>1. ASSUME NEW e, ExtensionLike(e, state), NEW a, NEW b, NEW t,
               \/ t = [e EXCEPT !.link = a, !.links = b] \/ t = [e EXCEPT !.seen = a, !.fresh = b]
               \/ t = [e EXCEPT !.world = a] \/ t = [e EXCEPT !.link = a] \/ t = [e EXCEPT !.permitted = a]
               \/ t = [e EXCEPT !.flag = a] \/ t = [e EXCEPT !.bound = a] \/ t = [e EXCEPT !.told = a]
               \/ t = [e EXCEPT !.fresh = a]
        PROVE  ExtensionLike(t, state)
    BY <1>1 DEF ExtensionLike, ExtensionFields
  <1>2. ASSUME NEW e, ExtensionLike(e, state) PROVE ExtensionLike(Extension!Linked(e), state)
    <2> DEFINE link == e.links + 1
    <2>1. Extension!Linked(e) = [e EXCEPT !.link = link, !.links = link]
      BY DEF Extension!Linked
    <2> HIDE DEF link
    <2> QED
      BY <1>1, <1>2, <2>1
  <1>3. ASSUME NEW next \in Nat, next >= requests
        PROVE  ExtensionHistory(state.done, state.pending, next)
    BY <1>3 DEF ExtensionBooks, ExtensionHistory
  <1>4. ASSUME ExtensionLike(state', state), requests' = requests \/ requests' = requests + 1 PROVE ExtensionBooks'
    <2>1. ExtensionHistory(state.done, state.pending, requests')
      BY <1>0, <1>3, <1>4
    <2> QED
      BY <1>4, <2>1 DEF ExtensionBooks, ExtensionLike, ExtensionMarked
  <1>5. CASE Extension!Live
    <2> DEFINE world == state.world + 1
               loaded == [state EXCEPT !.world = world]
               e == IF player = NoPlayer \/ player' = NoPlayer THEN loaded ELSE state
    <2>1. ExtensionLike(e, state)
      <3> HIDE DEF world
      <3>1. ExtensionLike(loaded, state)
        BY <1>0, <1>1
      <3> HIDE DEF loaded
      <3> QED
        BY <1>0, <3>1
    <2>2. state' \in {Extension!Linked(e), [e EXCEPT !.link = 0], e}
      BY <1>5 DEF Extension!Live
    <2> HIDE DEF e
    <2>3. ExtensionLike(state', state)
      BY <1>1, <1>2, <2>1, <2>2
    <2> QED
      BY <1>4, <1>5, <2>3 DEF Extension!Live, Extension!Play, Extension!bounds
  <1>6. CASE Extension!Connection
    <2> DEFINE permitted == ~state.permitted
    <2>1. \/ state' = [state EXCEPT !.link = 0] \/ state' = Extension!Linked(state)
          \/ state' = [state EXCEPT !.permitted = permitted]
      BY <1>6 DEF Extension!Connection
    <2> HIDE DEF permitted
    <2>2. ExtensionLike(state', state)
      BY <1>0, <1>1, <1>2, <2>1
    <2> QED
      BY <1>4, <1>6, <2>2 DEF Extension!Connection, Extension!Request
  <1>7. CASE Extension!Bind \/ Extension!Ages \/ \E on \in BOOLEAN : Extension!SetFlag(on)
    <2>1. ExtensionLike(state', state)
      BY <1>0, <1>1, <1>7 DEF Extension!Bind, Extension!Ages, Extension!SetFlag
    <2> QED
      BY <1>4, <1>7, <2>1 DEF Extension!Bind, Extension!Ages, Extension!SetFlag, Extension!Request, Extension!bounds
  <1>8. CASE Extension!UpdateExtensionBridge
    <2>1. PICK accepted \in BOOLEAN :
            LET e == Extension!Submitted([state EXCEPT !.told = state.flag], accepted)
            IN  state' = [e EXCEPT !.seen = e.access, !.fresh = TRUE]
      BY <1>8 DEF Extension!UpdateExtensionBridge
    <2> DEFINE told == [state EXCEPT !.told = state.flag]
               e == Extension!Submitted(told, accepted)
               queued == [told EXCEPT !.queued = TRUE, !.inQueue = told.inQueue + 1]
    <2>2. ExtensionLike(told, state)
      BY <1>0, <1>1
    <2>3. e = told \/ (~told.queued /\ e = queued)
      BY DEF Extension!Submitted
    <2>4. \E a : state' = [e EXCEPT !.seen = a, !.fresh = TRUE]
      BY <2>1
    <2> HIDE DEF told, e
    <2>5. ASSUME NEW t, DOMAIN t = ExtensionFields, NEW a
          PROVE  LET u == [t EXCEPT !.seen = a, !.fresh = TRUE] IN
                 /\ DOMAIN u = ExtensionFields /\ u.inQueue = t.inQueue /\ u.queued = t.queued
                 /\ u.done = t.done /\ u.pending = t.pending
      BY <2>5 DEF ExtensionFields
    <2>6. CASE e = told
      <3>1. ExtensionLike(state', state)
        BY <2>2, <2>4, <2>5, <2>6 DEF ExtensionLike
      <3> QED
        BY <1>4, <1>8, <3>1 DEF Extension!UpdateExtensionBridge
    <2>7. CASE ~told.queued /\ e = queued
      <3>1. /\ DOMAIN queued = ExtensionFields /\ queued.queued = TRUE /\ queued.inQueue = told.inQueue + 1
            /\ queued.done = state.done /\ queued.pending = state.pending
        BY <2>2 DEF ExtensionLike, ExtensionFields
      <3> HIDE DEF queued
      <3>2. told.inQueue = 0
        BY <2>2, <2>7 DEF ExtensionLike, ExtensionBooks, ExtensionMarked
      <3>3. /\ DOMAIN state' = ExtensionFields /\ state'.queued = TRUE /\ state'.inQueue = 1
            /\ state'.done = state.done /\ state'.pending = state.pending
        BY <2>4, <2>5, <2>7, <3>1, <3>2
      <3> QED
        BY <1>8, <3>3 DEF ExtensionBooks, ExtensionMarked, Extension!UpdateExtensionBridge
    <2> QED
      BY <2>3, <2>6, <2>7
  <1>9. ASSUME NEW action \in Extension!Commands, Extension!QueueExtensionCommand(action) PROVE ExtensionBooks'
    <2> DEFINE command == [action |-> action, id |-> requests, given |-> Extension!Session]
    <2>1. state' = [state EXCEPT !.pending = command] /\ requests' = requests + 1
      BY <1>9 DEF Extension!QueueExtensionCommand, Extension!Request
    <2>2. command.id = requests
      OBVIOUS
    <2> HIDE DEF command
    <2>3. /\ DOMAIN state' = ExtensionFields /\ state'.pending = command /\ state'.done = state.done
          /\ state'.queued = state.queued /\ state'.inQueue = state.inQueue
      BY <1>0, <2>1 DEF ExtensionLike, ExtensionFields
    <2>4. ExtensionHistory(state.done, command, requests + 1)
      BY <1>0, <2>2 DEF ExtensionBooks, ExtensionHistory
    <2> QED
      BY <2>1, <2>3, <2>4 DEF ExtensionBooks, ExtensionMarked
  <1>10. CASE Extension!Run
    BY <1>10, ExtensionRun DEF ExtensionBooks, Extension!Run
  <1>11. CASE UNCHANGED all
    BY <1>11 DEF all, bounds, ExtensionBooks, ExtensionMarked
  <1> QED
    BY <1>5, <1>6, <1>7, <1>8, <1>9, <1>10, <1>11 DEF Extension!Next

LEMMA ExtensionBooksKept ==
  ExtensionBooks => Extension!CommandsKeepTheirSession /\ Extension!MarkedRunsAreUnderWay
  BY DEF ExtensionBooks, ExtensionMarked, ExtensionHistory, ExtensionRight, Extension!CommandsKeepTheirSession,
         Extension!MarkedRunsAreUnderWay

-----------------------------------------------------------------------------
(* ContainerJobs: every target of a job is counted, and filled once. *)

\* A target is in the line once, and none that was filled is in it.
JobLine(targets, filled) ==
  /\ targets \in Seq(Places) /\ filled \in JobTables
  /\ \A m, n \in 1 .. Len(targets) : targets[m] = targets[n] => m = n
  /\ \A n \in 1 .. Len(targets) : filled[targets[n]] = 0

JobRefills(refills) == \A r \in refills : r.here = 0 /\ r.by = r.of /\ r.by # Job!NoLink

JobFine(j) ==
  /\ DOMAIN j = JobFields /\ j.placed \subseteq Places
  /\ j.here \in JobTables /\ j.server \in JobTables
  /\ JobLine(j.targets, j.filled) /\ j.twice = FALSE /\ JobRefills(j.refills)
  /\ j.completed \in Nat /\ j.skipped \in Nat
  /\ j.owner # NoPlayer =>
       j.connection # Job!NoLink /\ j.completed + j.skipped + Len(j.targets) = j.total

JobBooks == JobFine(state)

\* The fields that are about the job.
JobOwn(t, j) ==
  /\ t.placed = j.placed /\ t.targets = j.targets /\ t.filled = j.filled /\ t.twice = j.twice
  /\ t.refills = j.refills /\ t.completed = j.completed /\ t.skipped = j.skipped
  /\ t.owner = j.owner /\ t.connection = j.connection /\ t.total = j.total

LEMMA JobBooksInit == Job!Init => JobBooks
  <1> SUFFICES ASSUME Job!Init PROVE JobBooks
    OBVIOUS
  <1>1. /\ DOMAIN state = JobFields /\ state.placed \subseteq Places
        /\ state.here \in JobTables /\ state.server \in JobTables
        /\ state.targets = <<>> /\ state.filled = [c \in Places |-> 0] /\ state.twice = FALSE /\ state.refills = {}
        /\ state.completed = 0 /\ state.skipped = 0 /\ state.owner = NoPlayer
    BY DEF Job!Init, JobFields, JobTables
  <1>2. JobLine(state.targets, state.filled)
    BY <1>1 DEF JobLine, JobTables
  <1> QED
    BY <1>1, <1>2 DEF JobBooks, JobFine, JobRefills

\* What is in the containers counts for nothing but what is filled.
LEMMA JobHolds ==
  ASSUME NEW j, JobFine(j), NEW t, DOMAIN t = JobFields, JobOwn(t, j),
         t.here \in JobTables, t.server \in JobTables
  PROVE  JobFine(t)
  BY DEF JobFine, JobOwn

\* The first of the line leaves it.
LEMMA JobTails ==
  ASSUME NEW targets, NEW filled, JobLine(targets, filled), targets # <<>>
  PROVE  /\ JobLine(Tail(targets), filled) /\ Len(Tail(targets)) + 1 = Len(targets)
         /\ Head(targets) \in Places /\ filled[Head(targets)] = 0
         /\ \A n \in 1 .. Len(Tail(targets)) : Tail(targets)[n] # Head(targets)
  <1>1. /\ targets \in Seq(Places) /\ Tail(targets) \in Seq(Places) /\ Len(targets) \in Nat /\ Len(targets) > 0
        /\ Len(Tail(targets)) + 1 = Len(targets)
        /\ \A n \in 1 .. Len(Tail(targets)) : Tail(targets)[n] = targets[n + 1]
        /\ Head(targets) = targets[1] /\ Head(targets) \in Places
    BY DEF JobLine
  <1>2. Len(Tail(targets)) \in Nat
    BY <1>1
  <1>3. \A n \in 1 .. Len(Tail(targets)) : n + 1 \in 1 .. Len(targets)
    BY <1>1, <1>2
  <1>4. 1 \in 1 .. Len(targets)
    BY <1>1
  <1>5. \A n \in 1 .. Len(Tail(targets)) : Tail(targets)[n] # Head(targets)
    <2> SUFFICES ASSUME NEW n \in 1 .. Len(Tail(targets)), targets[n + 1] = targets[1] PROVE FALSE
      BY <1>1
    <2>1. n + 1 = 1
      BY <1>3, <1>4 DEF JobLine
    <2> QED
      BY <2>1, <1>2
  <1>6. \A m, n \in 1 .. Len(Tail(targets)) : Tail(targets)[m] = Tail(targets)[n] => m = n
    <2> SUFFICES ASSUME NEW m \in 1 .. Len(Tail(targets)), NEW n \in 1 .. Len(Tail(targets)), targets[m + 1] = targets[n + 1] PROVE m = n
      BY <1>1
    <2>1. m + 1 = n + 1
      BY <1>3 DEF JobLine
    <2> QED
      BY <2>1, <1>2
  <1>7. \A n \in 1 .. Len(Tail(targets)) : filled[Tail(targets)[n]] = 0
    BY <1>1, <1>3 DEF JobLine
  <1> QED
    BY <1>1, <1>4, <1>5, <1>6, <1>7 DEF JobLine

\* A job that is under way, on the connection it was given for.
JobRuns(j) == JobFine(j) /\ j.owner # NoPlayer /\ j.link = j.connection

LEMMA JobEnds ==
  ASSUME NEW j, JobFine(j)
  PROVE  JobFine(Job!Cancelled(j))
  <1> DEFINE t == Job!Cancelled(j)
  <1>1. /\ DOMAIN t = JobFields /\ t.placed = j.placed /\ t.targets = <<>> /\ t.filled = j.filled /\ t.twice = j.twice
        /\ t.refills = j.refills /\ t.completed = j.completed /\ t.skipped = j.skipped
        /\ t.owner = NoPlayer /\ t.here = j.here /\ t.server = j.server
    BY DEF Job!Cancelled, JobFine, JobFields
  <1>2. JobLine(t.targets, t.filled)
    BY <1>1 DEF JobLine, JobFine
  <1> QED
    BY <1>1, <1>2 DEF JobFine

\* A target is counted when it leaves the line.
LEMMA JobCounts ==
  ASSUME NEW j, JobRuns(j), j.targets # <<>>
  PROVE  JobRuns(Job!Done(j)) /\ JobRuns(Job!Skipped(j))
  <1> DEFINE r == Job!Done(j)
             s == Job!Skipped(j)
             same(t) ==
               /\ DOMAIN t = JobFields /\ t.placed = j.placed /\ t.targets = Tail(j.targets) /\ t.filled = j.filled
               /\ t.twice = j.twice /\ t.refills = j.refills /\ t.total = j.total
               /\ t.owner = j.owner /\ t.connection = j.connection /\ t.link = j.link
               /\ t.here = j.here /\ t.server = j.server
  <1>1. same(r) /\ r.completed = j.completed + 1 /\ r.skipped = j.skipped
    BY DEF Job!Done, JobRuns, JobFine, JobFields
  <1>2. same(s) /\ s.skipped = j.skipped + 1 /\ s.completed = j.completed
    BY DEF Job!Skipped, JobRuns, JobFine, JobFields
  <1>3. /\ JobLine(Tail(j.targets), j.filled) /\ Len(Tail(j.targets)) + 1 = Len(j.targets)
        /\ Len(Tail(j.targets)) \in Nat
    <2>1. JobLine(j.targets, j.filled)
      BY DEF JobRuns, JobFine
    <2>2. JobLine(Tail(j.targets), j.filled) /\ Len(Tail(j.targets)) + 1 = Len(j.targets)
      BY <2>1, JobTails
    <2>3. Len(Tail(j.targets)) \in Nat
      BY <2>2 DEF JobLine
    <2> QED
      BY <2>2, <2>3
  <1>4. j.completed \in Nat /\ j.skipped \in Nat /\ j.completed + j.skipped + Len(j.targets) = j.total
    BY DEF JobRuns, JobFine
  <1>5. ASSUME NEW t, same(t),
               \/ t.completed = j.completed + 1 /\ t.skipped = j.skipped
               \/ t.skipped = j.skipped + 1 /\ t.completed = j.completed
        PROVE  JobRuns(t)
    <2>0. t.targets = Tail(j.targets) /\ t.total = j.total
      BY <1>5
    <2> DEFINE rest == Len(Tail(j.targets))
               whole == Len(j.targets)
    <2>1. t.completed \in Nat /\ t.skipped \in Nat /\ t.completed + t.skipped + Len(t.targets) = t.total
      <3>1. rest \in Nat /\ rest + 1 = whole /\ j.completed + j.skipped + whole = j.total /\ Len(t.targets) = rest
        BY <1>3, <1>4, <2>0
      <3> HIDE DEF rest, whole, same
      <3>2. t.completed + t.skipped + rest = j.total /\ t.completed \in Nat /\ t.skipped \in Nat
        <4> DEFINE a == j.completed
                   b == j.skipped
                   d == t.completed
                   e == t.skipped
        <4>1. a \in Nat /\ b \in Nat /\ ((d = a + 1 /\ e = b) \/ (e = b + 1 /\ d = a)) /\ a + b + whole = j.total
          BY <1>4, <1>5, <3>1
        <4> HIDE DEF a, b, d, e
        <4>2. d + e + rest = j.total /\ d \in Nat /\ e \in Nat
          BY <3>1, <4>1
        <4> QED
          BY <4>2 DEF d, e
      <3> QED
        BY <2>0, <3>1, <3>2
    <2>2. JobFine(t)
      BY <1>3, <1>5, <2>1 DEF JobRuns, JobFine
    <2> QED
      BY <1>5, <2>2 DEF JobRuns
  <1> HIDE DEF r, s, same
  <1>6. JobRuns(r) /\ JobRuns(s)
    BY <1>1, <1>2, <1>5
  <1> QED
    BY <1>6 DEF r, s

\* A container that is empty is filled, and was not filled before.
LEMMA JobFills ==
  ASSUME NEW j, JobRuns(j), j.targets # <<>>, j.here[Head(j.targets)] = 0
  PROVE  JobRuns(Job!Done(Job!Refilled(j, Head(j.targets))))
  <1> DEFINE c == Head(j.targets)
             server == [j.server EXCEPT ![c] = IF j.server[c] = 0 THEN 1 ELSE j.server[c]]
             filled == [j.filled EXCEPT ![c] = j.filled[c] + 1]
             twice == j.twice \/ j.filled[c] > 0
             refill == [container |-> c, here |-> j.here[c], by |-> j.link, of |-> j.connection]
             refills == j.refills \cup {refill}
             t == Job!Done(Job!Refilled(j, c))
  <1>0. /\ DOMAIN j = JobFields /\ JobLine(j.targets, j.filled) /\ JobRefills(j.refills) /\ j.twice = FALSE
        /\ j.here \in JobTables /\ j.server \in JobTables /\ j.filled \in JobTables
        /\ j.owner # NoPlayer /\ j.connection # Job!NoLink /\ j.link = j.connection
        /\ j.completed \in Nat /\ j.skipped \in Nat /\ j.completed + j.skipped + Len(j.targets) = j.total
        /\ j.placed \subseteq Places
    BY DEF JobRuns, JobFine, JobLine
  <1>1. /\ JobLine(Tail(j.targets), j.filled) /\ Len(Tail(j.targets)) + 1 = Len(j.targets)
        /\ c \in Places /\ j.filled[c] = 0
        /\ \A n \in 1 .. Len(Tail(j.targets)) : Tail(j.targets)[n] # c
    BY <1>0, JobTails
  <1>2. t = [j EXCEPT !.server = server, !.filled = filled, !.twice = twice, !.refills = refills,
                      !.completed = j.completed + 1, !.targets = Tail(j.targets)]
    BY <1>0 DEF Job!Done, Job!Refilled, JobFields
  <1>3. server \in JobTables
    BY <1>0, <1>1 DEF JobTables
  <1>4. JobLine(Tail(j.targets), filled)
    <2>1. filled \in JobTables /\ \A d \in Places \ {c} : filled[d] = j.filled[d]
      BY <1>0, <1>1 DEF JobTables
    <2>2. \A n \in 1 .. Len(Tail(j.targets)) : Tail(j.targets)[n] \in Places
      BY <1>1 DEF JobLine
    <2> HIDE DEF filled
    <2> QED
      BY <1>1, <2>1, <2>2 DEF JobLine
  <1>5. twice = FALSE
    BY <1>0, <1>1
  <1>6. JobRefills(refills)
    <2>1. refill.here = 0 /\ refill.by = refill.of /\ refill.by # Job!NoLink
      BY <1>0
    <2> HIDE DEF refill
    <2> QED
      BY <1>0, <2>1 DEF JobRefills
  <1>7. Len(Tail(j.targets)) \in Nat
    BY <1>1 DEF JobLine
  <1>8. j.completed + 1 \in Nat /\ j.completed + 1 + j.skipped + Len(Tail(j.targets)) = j.total
    BY <1>0, <1>1, <1>7
  <1> HIDE DEF t, server, filled, twice, refills
  <1>9. /\ DOMAIN t = JobFields /\ t.placed = j.placed /\ t.here = j.here /\ t.server = server
        /\ t.targets = Tail(j.targets) /\ t.filled = filled /\ t.twice = twice /\ t.refills = refills
        /\ t.completed = j.completed + 1 /\ t.skipped = j.skipped /\ t.owner = j.owner
        /\ t.connection = j.connection /\ t.link = j.link /\ t.total = j.total
    BY <1>0, <1>2 DEF JobFields
  <1>10. JobFine(t)
    BY <1>0, <1>3, <1>4, <1>5, <1>6, <1>8, <1>9 DEF JobFine
  <1>11. JobRuns(t)
    BY <1>0, <1>9, <1>10 DEF JobRuns
  <1> QED
    BY <1>11 DEF t

\* A turn of the loop, and four of them.
LEMMA JobTurns ==
  ASSUME NEW j, JobRuns(j)
  PROVE  JobRuns(Job!Step(j))
  <1> SUFFICES ASSUME j.targets # <<>> PROVE JobRuns(Job!Handled(j))
    BY DEF Job!Step
  <1> DEFINE c == Head(j.targets)
             left == IF j.here[c] > 0 THEN Job!Emptied(j, c) ELSE j
  <1>0. DOMAIN j = JobFields /\ j.here \in JobTables /\ j.server \in JobTables /\ c \in Places
    <2>1. JobLine(j.targets, j.filled)
      BY DEF JobRuns, JobFine
    <2>2. c \in Places
      BY <2>1, JobTails
    <2> QED
      BY <2>2 DEF JobRuns, JobFine
  <1>1. JobRuns(left) /\ left.targets = j.targets
    <2>1. CASE j.here[c] > 0
      <3> DEFINE here == [j.here EXCEPT ![c] = j.here[c] - 1]
                 server == [j.server EXCEPT ![c] = IF j.server[c] > 0 THEN j.server[c] - 1 ELSE 0]
                 t == Job!Emptied(j, c)
      <3>1. t = [j EXCEPT !.server = server, !.here = here]
        BY <1>0 DEF Job!Emptied, JobFields
      <3>2. here \in JobTables /\ server \in JobTables
        BY <1>0, <2>1 DEF JobTables
      <3> HIDE DEF here, server, t
      <3>3. DOMAIN t = JobFields /\ JobOwn(t, j) /\ t.here = here /\ t.server = server /\ t.link = j.link
        BY <1>0, <3>1 DEF JobOwn, JobFields
      <3>4. JobFine(t)
        BY <3>2, <3>3, JobHolds DEF JobRuns
      <3>5. JobRuns(t) /\ t.targets = j.targets
        BY <3>3, <3>4 DEF JobRuns, JobOwn
      <3> QED
        BY <2>1, <3>5 DEF t
    <2>2. CASE ~(j.here[c] > 0)
      BY <2>2
    <2> QED
      BY <2>1, <2>2
  <1>2. Job!Handled(j) = IF c \notin j.placed THEN Job!Skipped(j)
                         ELSE IF left.here[c] > 0 THEN left
                         ELSE Job!Done(IF j.reroll THEN Job!Refilled(left, c) ELSE left)
    BY DEF Job!Handled
  <1>3. left.here[c] > 0 \/ left.here[c] = 0
    <2>1. left.here \in JobTables
      BY <1>1 DEF JobRuns, JobFine
    <2> HIDE DEF left
    <2> QED
      BY <1>0, <2>1 DEF JobTables
  <1>4. c = Head(left.targets)
    BY <1>1
  <1> HIDE DEF c, left
  <1>5. JobRuns(Job!Skipped(j))
    BY JobCounts
  <1>6. JobRuns(Job!Done(left))
    BY <1>1, JobCounts
  <1>7. left.here[c] = 0 => JobRuns(Job!Done(Job!Refilled(left, c)))
    BY <1>1, <1>4, JobFills
  <1> QED
    BY <1>1, <1>2, <1>3, <1>5, <1>6, <1>7

LEMMA JobFourTurns ==
  ASSUME NEW j, JobRuns(j)
  PROVE  JobFine(Job!Stepped(j))
  <1> DEFINE all4 == Job!Step(Job!Step(Job!Step(Job!Step(j))))
  <1>1. JobRuns(all4)
    BY JobTurns
  <1>2. Job!Stepped(j) = IF all4.targets = <<>> THEN Job!Cancelled(all4) ELSE all4
    BY DEF Job!Stepped
  <1> HIDE DEF all4
  <1> QED
    BY <1>1, <1>2, JobEnds DEF JobRuns

LEMMA JobRunBooks ==
  ASSUME JobFine(state), Job!Run
  PROVE  JobFine(state')
  <1> DEFINE moved == [Job!Cancelled(state) EXCEPT !.previous = IF Job!Ready THEN player ELSE NoPlayer,
                                                  !.previousLink = state.link]
             begun == IF Job!Moved THEN moved ELSE state
             emptied(c) == [begun EXCEPT !.server[c] = IF @ > 0 THEN @ - 1 ELSE 0]
             underWay == Job!Ready /\ begun.owner # NoPlayer
             stepped == IF ~underWay THEN begun ELSE IF Job!Stale(begun) THEN Job!Cancelled(begun) ELSE Job!Stepped(begun)
  <1>0. ASSUME NEW j, JobFine(j), NEW t,
               \/ \E rounds : t = [j EXCEPT !.rounds = rounds]
               \/ \E p, link : t = [j EXCEPT !.previous = p, !.previousLink = link]
        PROVE  JobFine(t)
    <2>1. DOMAIN t = JobFields /\ JobOwn(t, j) /\ t.here = j.here /\ t.server = j.server
      BY <1>0 DEF JobFine, JobOwn, JobFields
    <2>2. t.here \in JobTables /\ t.server \in JobTables
      BY <1>0, <2>1 DEF JobFine
    <2> QED
      BY <1>0, <2>1, <2>2, JobHolds
  <1>1. JobFine(begun)
    <2>1. JobFine(moved)
      BY <1>0, JobEnds
    <2> HIDE DEF moved
    <2> QED
      BY <2>1
  <1>2. \/ state' = [stepped EXCEPT !.rounds = IF underWay THEN @ + 1 ELSE @]
        \/ /\ begun.targets # <<>> /\ Head(begun.targets) \in begun.placed
           /\ state' = Job!Cancelled(emptied(Head(begun.targets)))
    BY DEF Job!Run
  <1>3. Job!Stale(begun) \/ begun.link = begun.connection
    BY DEF Job!Stale
  <1> HIDE DEF begun
  <1>4. ASSUME NEW c \in begun.placed
        PROVE  JobFine(Job!Cancelled(emptied(c)))
    <2> DEFINE server == [begun.server EXCEPT ![c] = IF begun.server[c] > 0 THEN begun.server[c] - 1 ELSE 0]
               t == emptied(c)
    <2>0. DOMAIN begun = JobFields /\ begun.here \in JobTables /\ begun.server \in JobTables /\ c \in Places
      BY <1>1 DEF JobFine
    <2>1. t = [begun EXCEPT !.server = server]
      BY <2>0 DEF JobFields
    <2>2. server \in JobTables
      BY <2>0 DEF JobTables
    <2> HIDE DEF server, t
    <2>3. DOMAIN t = JobFields /\ JobOwn(t, begun) /\ t.here = begun.here /\ t.server = server
      BY <2>0, <2>1 DEF JobOwn, JobFields
    <2>4. JobFine(t)
      BY <1>1, <2>0, <2>2, <2>3, JobHolds
    <2> QED
      BY <2>4, JobEnds DEF t
  <1> HIDE DEF emptied
  <1>5. JobFine(stepped)
    <2>1. JobFine(Job!Cancelled(begun))
      BY <1>1, JobEnds
    <2>2. underWay /\ ~Job!Stale(begun) => JobFine(Job!Stepped(begun))
      <3>1. underWay /\ ~Job!Stale(begun) => JobRuns(begun)
        BY <1>1, <1>3 DEF JobRuns
      <3> QED
        BY <3>1, JobFourTurns
    <2> HIDE DEF underWay
    <2> QED
      BY <1>1, <2>1, <2>2
  <1> HIDE DEF stepped, underWay
  <1>6. CASE state' = [stepped EXCEPT !.rounds = IF underWay THEN @ + 1 ELSE @]
    <2>1. \E rounds : state' = [stepped EXCEPT !.rounds = rounds]
      BY <1>6
    <2> QED
      BY <1>0, <1>5, <2>1
  <1>7. CASE Head(begun.targets) \in begun.placed /\ state' = Job!Cancelled(emptied(Head(begun.targets)))
    BY <1>4, <1>7
  <1> QED
    BY <1>2, <1>6, <1>7

LEMMA JobBooksStep == JobInv /\ JobBooks /\ [Job!Next]_all => JobBooks'
  <1> SUFFICES ASSUME JobBooks, [Job!Next]_all PROVE JobBooks'
    OBVIOUS
  <1> USE DEF JobBooks
  <1>0. DOMAIN state = JobFields /\ state.here \in JobTables /\ state.server \in JobTables /\ state.placed \subseteq Places
    BY DEF JobFine
  <1>1. ASSUME NEW link, state' = [state EXCEPT !.link = link]
        PROVE  JobFine(state')
    <2>1. DOMAIN state' = JobFields /\ JobOwn(state', state) /\ state'.here = state.here /\ state'.server = state.server
      BY <1>0, <1>1 DEF JobOwn, JobFields
    <2> QED
      BY <1>0, <2>1, JobHolds
  <1>2. ASSUME Job!Live PROVE JobFine(state')
    <2>1. \E link : state' = [state EXCEPT !.link = link]
      <3> DEFINE link == IF player' = NoPlayer THEN Job!NoLink
                         ELSE IF player = NoPlayer /\ session' = "multiplayer"
                         THEN (IF met = {} THEN 1 ELSE 2) ELSE state.link
      <3>1. state' = [state EXCEPT !.link = link]
        BY <1>0, <1>2 DEF Job!Live, JobFields
      <3> HIDE DEF link
      <3> QED
        BY <3>1
    <2> QED
      BY <2>1, <1>1
  <1>3. ASSUME Job!Reconnect PROVE JobFine(state')
    BY <1>1, <1>3 DEF Job!Reconnect
  <1>4. ASSUME NEW c \in Places, Job!Move(c) PROVE JobFine(state')
    <2>1. /\ DOMAIN state' = JobFields /\ state'.placed \subseteq Places
          /\ state'.targets = state.targets /\ state'.filled = state.filled /\ state'.twice = state.twice
          /\ state'.refills = state.refills /\ state'.completed = state.completed /\ state'.skipped = state.skipped
          /\ state'.owner = state.owner /\ state'.connection = state.connection /\ state'.total = state.total
          /\ state'.here = state.here /\ state'.server = state.server
      BY <1>0, <1>4 DEF Job!Move, JobFields
    <2> QED
      BY <2>1 DEF JobFine
  <1>5. ASSUME NEW c \in Places, NEW here \in JobTables, NEW server \in JobTables,
               state' = [state EXCEPT !.here = here, !.server = server]
        PROVE  JobFine(state')
    <2>1. DOMAIN state' = JobFields /\ JobOwn(state', state) /\ state'.here = here /\ state'.server = server
      BY <1>0, <1>5 DEF JobOwn, JobFields
    <2> QED
      BY <1>5, <2>1, JobHolds
  <1>6. ASSUME NEW c \in Places, Job!Put(c) PROVE JobFine(state')
    <2> DEFINE here == [state.here EXCEPT ![c] = state.here[c] + 1]
               server == [state.server EXCEPT ![c] = state.server[c] + 1]
    <2>1. state' = [state EXCEPT !.here = here, !.server = server]
      BY <1>0, <1>6 DEF Job!Put, JobFields
    <2>2. here \in JobTables /\ server \in JobTables
      BY <1>0 DEF JobTables
    <2> HIDE DEF here, server
    <2> QED
      BY <1>5, <2>1, <2>2
  <1>7. ASSUME NEW c \in Places, Job!Arrive(c) PROVE JobFine(state')
    <2> DEFINE here == [state.here EXCEPT ![c] = state.server[c]]
    <2>1. state' = [state EXCEPT !.here = here, !.server = state.server]
      BY <1>0, <1>7 DEF Job!Arrive, JobFields
    <2>2. here \in JobTables
      BY <1>0 DEF JobTables
    <2> HIDE DEF here
    <2> QED
      BY <1>0, <1>5, <2>1, <2>2
  <1>8. ASSUME NEW reroll \in BOOLEAN, Job!Begin(reroll) PROVE JobFine(state')
    <2> DEFINE n == Job!Cardinality(state.placed)
               filled == [c \in Places |-> 0]
    <2>1. PICK order \in Job!Bijection(1 .. n, state.placed) :
            state' = [state EXCEPT !.owner = player, !.connection = state.link, !.reroll = reroll,
                                   !.completed = 0, !.skipped = 0, !.targets = order, !.total = Len(order),
                                   !.filled = filled]
      BY <1>8 DEF Job!Begin
    <2>2. n \in Nat
      BY <1>0, PlacesAssumption, FS_Subset, FS_CardinalityType DEF Cardinality, Job!Cardinality
    <2>3. order \in [1 .. n -> state.placed] /\ \A a, b \in 1 .. n : order[a] = order[b] => a = b
      BY <2>1 DEF Job!Bijection, Job!Injection, Job!Surjection, Job!IsInjective
    <2> HIDE DEF n, filled
    <2>4. order \in Seq(Places) /\ Len(order) = n /\ Len(order) \in Nat
      BY <1>0, <2>2, <2>3, SeqDef
    <2>5. JobLine(order, filled)
      BY <2>3, <2>4 DEF JobLine, JobTables, filled
    <2>6. state.link # Job!NoLink
      BY <1>8 DEF Job!Begin, Job!Ready
    <2>7. /\ DOMAIN state' = JobFields /\ state'.placed = state.placed
          /\ state'.targets = order /\ state'.filled = filled /\ state'.twice = state.twice
          /\ state'.refills = state.refills /\ state'.completed = 0 /\ state'.skipped = 0
          /\ state'.connection = state.link /\ state'.total = Len(order)
          /\ state'.here = state.here /\ state'.server = state.server
      BY <1>0, <2>1 DEF JobFields
    <2>8. state'.completed + state'.skipped + Len(state'.targets) = state'.total
      BY <2>4, <2>7
    <2> QED
      BY <1>0, <2>5, <2>6, <2>7, <2>8 DEF JobFine
  <1>9. ASSUME Job!Run PROVE JobFine(state')
    BY <1>9, JobRunBooks
  <1>10. CASE UNCHANGED all
    BY <1>10 DEF all
  <1> QED
    BY <1>2, <1>3, <1>4, <1>6, <1>7, <1>8, <1>9, <1>10 DEF Job!Next

LEMMA JobBooksKept == JobBooks => Job!RefillsFindItEmpty /\ Job!TargetsAreCounted
  BY DEF JobBooks, JobFine, JobRefills, Job!RefillsFindItEmpty, Job!TargetsAreCounted

-----------------------------------------------------------------------------
(* VehicleGhost: the hooks stand where a step relies on them. *)

GhostFields ==
  {"static", "step", "natives", "bridge", "flag", "requested", "heard", "driven", "here", "own",
   "body", "retained", "original", "publish", "half"}

\* All of it is set up, as a step of the engine finds and leaves it.
GhostHooked(g) ==
  DOMAIN g = GhostFields /\ g.bridge /\ g.natives /\ g.static = "ready" /\ g.step = "ready"

\* None of it is in force.
GhostBare(g) ==
  DOMAIN g = GhostFields /\ ~g.bridge /\ g.static = "absent" /\ g.retained = NoWeapon

GhostHooks(g) == GhostHooked(g) \/ GhostBare(g)

GhostBooks == GhostHooks(state)

LEMMA GhostBooksInit == Ghost!Init => GhostBooks
  BY DEF Ghost!Init, GhostBooks, GhostHooks, GhostBare, GhostFields

\* A body may change, and what is remembered of it.
LEMMA GhostUntouched ==
  ASSUME NEW g, GhostHooked(g), NEW t, NEW a, NEW b, NEW c, NEW d,
         \/ t = [g EXCEPT !.body = a]
         \/ t = [g EXCEPT !.body = a, !.half = b]
         \/ t = [g EXCEPT !.original = a, !.retained = b]
         \/ t = [g EXCEPT !.body = a, !.retained = b, !.publish = c]
         \/ t = [g EXCEPT !.publish = a]
  PROVE  GhostHooked(t)
  BY DEF GhostHooked, GhostFields

LEMMA GhostBodied ==
  ASSUME NEW g, GhostHooked(g), NEW v, NEW x, NEW t,
         t = [g EXCEPT !.body[v] = x] \/ t = [g EXCEPT !.body[v].static = x]
  PROVE  GhostHooked(t)
  <1>1. DOMAIN g = GhostFields
    BY DEF GhostHooked
  <1>2. /\ [g EXCEPT !.body[v] = x] = [g EXCEPT !.body = [g.body EXCEPT ![v] = x]]
        /\ [g EXCEPT !.body[v].static = x] = [g EXCEPT !.body = [g.body EXCEPT ![v] = [g.body[v] EXCEPT !.static = x]]]
    BY <1>1 DEF GhostFields
  <1>3. ASSUME NEW body PROVE GhostHooked([g EXCEPT !.body = body])
    BY GhostUntouched
  <1> QED
    BY <1>2, <1>3

LEMMA GhostGivesBack ==
  ASSUME NEW g, GhostHooked(g)
  PROVE  /\ GhostHooked(Ghost!Released(g))
         /\ \A t \in Ghost!ReleaseFails(g) : GhostHooked(t)
  <1>1. GhostHooked(Ghost!Released(g))
    <2> DEFINE body == IF g.retained \in g.here THEN [g.body EXCEPT ![g.retained] = g.original] ELSE g.body
               t == [g EXCEPT !.body = body, !.retained = NoWeapon, !.publish = FALSE]
    <2>1. Ghost!Released(g) = IF g.retained = NoWeapon THEN g ELSE t
      BY SMTT(30) DEF Ghost!Released, GhostHooked, GhostFields
    <2> HIDE DEF body
    <2>2. GhostHooked(t)
      BY GhostUntouched
    <2> HIDE DEF t
    <2> QED
      BY <2>1, <2>2
  <1>2. ASSUME NEW t \in Ghost!Short(g, g.retained, g.original) PROVE GhostHooked(t)
    <2>1. \/ t = g \/ t = [g EXCEPT !.body[g.retained].static = g.original.static]
          \/ t = [g EXCEPT !.body[g.retained] = g.original]
      BY DEF Ghost!Short
    <2> QED
      BY <2>1, GhostBodied
  <1> QED
    BY <1>1, <1>2 DEF Ghost!ReleaseFails

LEMMA GhostTakes ==
  ASSUME NEW g, GhostHooked(g), NEW v
  PROVE  /\ GhostHooked(Ghost!Entered(g, v)) /\ GhostHooked(Ghost!Captured(g, v))
         /\ GhostHooked([Ghost!Entered(g, v) EXCEPT !.publish = TRUE])
         /\ GhostHooked([Ghost!Entered(g, v) EXCEPT !.publish = FALSE])
         /\ \A t \in Ghost!CaptureFails(g, v) : GhostHooked(t)
  <1>1. GhostHooked(Ghost!Entered(g, v))
    BY SMTT(30), GhostBodied DEF Ghost!Entered
  <1>2. GhostHooked(Ghost!Captured(g, v))
    <2> DEFINE r == Ghost!Entered(g, v)
               o == [static |-> g.body[v].static, flags |-> g.body[v].flags]
    <2> HIDE DEF r, o
    <2>1. Ghost!Captured(g, v) = [r EXCEPT !.original = o, !.retained = v]
      BY DEF Ghost!Captured, r, o
    <2>2. GhostHooked(r)
      BY SMTT(30), <1>1 DEF r
    <2> QED
      BY <2>1, <2>2, GhostUntouched
  <1>3. ASSUME NEW t \in Ghost!CaptureFails(g, v) PROVE GhostHooked(t)
    <2> DEFINE b == [static |-> TRUE, flags |-> "ghost"]
    <2>1. PICK short \in Ghost!Short(g, v, b) :
            t = [short EXCEPT !.body[v].static = g.body[v].static,
                              !.half = IF short.body[v].flags = "ghost" THEN @ \cup {v} ELSE @]
      BY DEF Ghost!CaptureFails
    <2>2. GhostHooked(short)
      <3>1. short = g \/ short = [g EXCEPT !.body[v].static = b.static] \/ short = [g EXCEPT !.body[v] = b]
        BY DEF Ghost!Short
      <3> HIDE DEF b
      <3> QED
        BY SMTT(30), <3>1, GhostBodied
    <2> DEFINE body == [short.body EXCEPT ![v] = [short.body[v] EXCEPT !.static = g.body[v].static]]
               half == IF short.body[v].flags = "ghost" THEN short.half \cup {v} ELSE short.half
    <2>3. t = [short EXCEPT !.body = body, !.half = half]
      BY <2>1, <2>2 DEF GhostHooked, GhostFields
    <2> HIDE DEF body, half
    <2> QED
      BY <2>2, <2>3, GhostUntouched
  <1> DEFINE e == Ghost!Entered(g, v)
  <1> HIDE DEF e
  <1>4. GhostHooked(e)
    BY <1>1 DEF e
  <1>5. GhostHooked([e EXCEPT !.publish = TRUE]) /\ GhostHooked([e EXCEPT !.publish = FALSE])
    BY <1>4, GhostUntouched
  <1> QED
    BY <1>1, <1>2, <1>3, <1>5 DEF e

\* Setting up does all of it, or leaves nothing in force.
LEMMA GhostSetsUp ==
  ASSUME NEW g, GhostHooks(g)
  PROVE  /\ GhostHooks(Ghost!Ensured(g))
         /\ ~g.bridge => \A t \in Ghost!EnsureFails(g) : GhostHooks(t)
  <1>1. GhostHooks(Ghost!Ensured(g))
    BY DEF Ghost!Ensured, Ghost!Installed, GhostHooks, GhostHooked, GhostBare, GhostFields
  <1>2. ASSUME ~g.bridge, NEW t \in Ghost!EnsureFails(g) PROVE GhostHooks(t)
    <2> DEFINE a == [g EXCEPT !.natives = TRUE]
               b == [a EXCEPT !.static = "ready"]
               c == [b EXCEPT !.static = "absent"]
               d == [c EXCEPT !.step = "set"]
    <2>1. t \in {g, a, c, d}
      BY DEF Ghost!EnsureFails, Ghost!Cleaned, Ghost!Installed
    <2>2. GhostBare(g)
      BY <1>2 DEF GhostHooks, GhostHooked
    <2>3. GhostBare(a)
      BY <2>2 DEF GhostBare, GhostFields
    <2>4. GhostBare(c)
      BY <2>3 DEF GhostBare, GhostFields
    <2> HIDE DEF c
    <2>5. GhostBare(d)
      BY <2>4 DEF GhostBare, GhostFields
    <2> QED
      BY <2>1, <2>2, <2>3, <2>4, <2>5 DEF GhostHooks
  <1> QED
    BY <1>1, <1>2

LEMMA GhostBooksStep == GhostInv /\ GhostBooks /\ [Ghost!Next]_all => GhostBooks'
  <1> SUFFICES ASSUME GhostHooks(state), [Ghost!Next]_all PROVE GhostHooks(state')
    BY DEF GhostBooks
  <1>1. ASSUME NEW g, GhostHooks(g), NEW t, NEW a, NEW b,
               \/ t = [g EXCEPT !.driven = a] \/ t = [g EXCEPT !.driven = a, !.here = b]
               \/ t = [g EXCEPT !.here = a, !.driven = b] \/ t = [g EXCEPT !.flag = a]
               \/ t = [g EXCEPT !.requested = a, !.heard = b] \/ t = [g EXCEPT !.heard = a]
               \/ t = [g EXCEPT !.body = a]
        PROVE  GhostHooks(t)
    BY ZenonT(60), <1>1 DEF GhostHooks, GhostHooked, GhostBare, GhostFields
  <1>2. CASE Ghost!Live
    <2>1. \E here : state' = [state EXCEPT !.driven = NoWeapon, !.here = here]
      BY <1>2 DEF Ghost!Live
    <2> QED
      BY <1>1, <2>1
  <1>3. ASSUME NEW v, Ghost!Drive(v) PROVE GhostHooks(state')
    BY <1>1, <1>3 DEF Ghost!Drive
  <1>4. ASSUME NEW v, Ghost!Remove(v) PROVE GhostHooks(state')
    <2>0. DOMAIN state = GhostFields
      BY DEF GhostHooks, GhostHooked, GhostBare
    <2>1. \E here, driven : state' = [state EXCEPT !.here = here, !.driven = driven]
      BY <1>4 DEF Ghost!Remove
    <2> QED
      BY <1>1, <2>1
  <1>5. ASSUME NEW v, Ghost!SetStatic(v) PROVE GhostHooks(state')
    <2>0. DOMAIN state = GhostFields
      BY DEF GhostHooks, GhostHooked, GhostBare
    <2>1. \E body : state' = [state EXCEPT !.body = body]
      <3> DEFINE body == [state.body EXCEPT ![v] = [state.body[v] EXCEPT !.static = state.own[v]]]
      <3>1. state' = [state EXCEPT !.body = body]
        BY <2>0, <1>5 DEF Ghost!SetStatic, GhostFields
      <3> HIDE DEF body
      <3> QED
        BY <3>1
    <2> QED
      BY <1>1, <2>1
  <1>6. ASSUME NEW on, Ghost!Switch(on) PROVE GhostHooks(state')
    BY <1>1, <1>6 DEF Ghost!Switch
  <1>7. CASE Ghost!Update
    <2>1. CASE state' = [(IF state.flag THEN Ghost!Ensured(state) ELSE state) EXCEPT !.requested = state.flag, !.heard = TRUE]
      <3>1. PICK g \in {Ghost!Ensured(state), state} : state' = [g EXCEPT !.requested = state.flag, !.heard = TRUE]
        BY <2>1
      <3>2. GhostHooks(g)
        BY GhostSetsUp
      <3> QED
        BY <1>1, <3>1, <3>2
    <2>2. CASE ~state.bridge /\ \E g \in Ghost!EnsureFails(state) : state' = [g EXCEPT !.flag = FALSE]
      <3>1. PICK g \in Ghost!EnsureFails(state) : state' = [g EXCEPT !.flag = FALSE]
        BY <2>2
      <3>2. GhostHooks(g)
        BY <2>2, GhostSetsUp
      <3> QED
        BY <1>1, <3>1, <3>2
    <2> QED
      BY SMTT(30), <1>7, <2>1, <2>2 DEF Ghost!Update
  <1>8. CASE Ghost!Silence
    BY <1>1, <1>8 DEF Ghost!Silence
  <1>9. CASE Ghost!BeforeStep
    <2> DEFINE g == [state EXCEPT !.publish = FALSE]
               changed == Ghost!Changed(g)
               steered == Ghost!Steered(changed)
               short == [steered EXCEPT !.publish = FALSE]
    <2>1. GhostHooked(state)
      BY SMTT(30), <1>9 DEF Ghost!BeforeStep, GhostHooks, GhostBare
    <2>2. GhostHooked(g)
      BY <2>1, GhostUntouched
    <2>3. \/ state' = Ghost!Released(g) \/ state' \in Ghost!ReleaseFails(g)
          \/ state' = steered \/ state' \in Ghost!CaptureFails(changed, g.driven)
          \/ state' = Ghost!Released(changed) \/ state' \in Ghost!ReleaseFails(short)
      BY <1>9 DEF Ghost!BeforeStep
    <2> HIDE DEF g
    <2>4. GhostHooked(changed)
      BY <2>2, GhostGivesBack DEF Ghost!Changed
    <2> HIDE DEF changed
    <2>5. GhostHooked(steered)
      <3> DEFINE h == IF changed.retained = NoWeapon THEN Ghost!Captured(changed, changed.driven) ELSE changed
                 v == changed.driven
      <3>1. GhostHooked(h)
        BY <2>4, GhostTakes
      <3>2. steered = [Ghost!Entered(h, v) EXCEPT !.publish = TRUE]
        BY DEF Ghost!Steered
      <3> HIDE DEF h, v, steered
      <3> QED
        BY <3>1, <3>2, GhostTakes
    <2> HIDE DEF steered
    <2>6. GhostHooked(short)
      BY <2>5, GhostUntouched
    <2> HIDE DEF short
    <2>7. GhostHooked(state')
      BY <2>2, <2>3, <2>4, <2>5, <2>6, GhostGivesBack, GhostTakes
    <2> QED
      BY <2>7 DEF GhostHooks
  <1>10. CASE Ghost!AfterStep
    <2> DEFINE r == Ghost!Released(state)
    <2>1. GhostHooked(state)
      BY <1>10 DEF Ghost!AfterStep, GhostHooks, GhostBare
    <2>2. \/ state' = [Ghost!Entered(state, state.retained) EXCEPT !.publish = FALSE]
          \/ state' = [r EXCEPT !.publish = FALSE]
      BY <1>10 DEF Ghost!AfterStep
    <2>3. GhostHooked(r)
      BY SMTT(30), <2>1, GhostGivesBack
    <2> HIDE DEF r
    <2>4. GhostHooked([r EXCEPT !.publish = FALSE])
      BY <2>3, GhostUntouched
    <2>5. GhostHooked([Ghost!Entered(state, state.retained) EXCEPT !.publish = FALSE])
      BY <2>1, GhostTakes
    <2> QED
      BY <2>2, <2>4, <2>5 DEF GhostHooks
  <1>11. CASE UNCHANGED all
    BY <1>11 DEF all
  <1> QED
    BY <1>2, <1>3, <1>4, <1>5, <1>6, <1>7, <1>8, <1>9, <1>10, <1>11 DEF Ghost!Next

LEMMA GhostBooksKept == GhostBooks => Ghost!HooksStandTogether
  BY DEF GhostBooks, GhostHooks, GhostHooked, GhostBare, Ghost!HooksStandTogether

-----------------------------------------------------------------------------
(* CreationSkills: ours stands on what was there, or beneath a function of a mod. *)

Creation == INSTANCE CreationSkills WITH creation <- state, MaxRequests <- SomeRequests, MaxFaults <- FewFaults, Descriptions <- Places, NoDescription <- NoWeapon, MaxEnvironments <- 2, MaxMods <- 1

CreationFields ==
  {"env", "desc", "open", "function", "mods", "target", "descriptor", "environment", "under",
   "callback", "level", "compiled", "ran", "asked", "effect"}

CreationEntries == [by : {"us"}, actor : Places \cup {NoWeapon}, env : Nat] \cup [by : {"mod"}, number : Nat]

CreationModOnTop(f) == f # <<>> => Head(f).by = "mod"

CreationGood(c) ==
  /\ DOMAIN c = CreationFields /\ c.env \in Nat /\ c.mods \in Nat /\ c.desc \in Places \cup {NoWeapon}
  /\ c.function \in Seq(CreationEntries) /\ c.under \in Seq(CreationEntries)
  /\ \A n \in 1 .. c.mods : \E i \in DOMAIN c.function : c.function[i] = Creation!Mod(n)
  /\ ~c.target => CreationModOnTop(c.function)
  /\ c.target => /\ CreationModOnTop(c.under) /\ c.callback \in CreationEntries /\ c.callback.by = "us"
                 /\ \/ CreationModOnTop(c.function)
                    \/ c.environment = c.env /\ c.function = <<c.callback>> \o c.under

CreationInv == CreationGood(state)

LEMMA CreationInit == Creation!Init => CreationInv
  <1> SUFFICES ASSUME Creation!Init PROVE CreationInv
    OBVIOUS
  <1>1. DOMAIN state = CreationFields /\ state.env = 1 /\ state.mods = 0 /\ state.desc = NoWeapon
    BY DEF Creation!Init, CreationFields
  <1>2. state.function = <<>> /\ state.under = <<>> /\ ~state.target
    BY DEF Creation!Init
  <1>3. <<>> \in Seq(CreationEntries)
    OBVIOUS
  <1> QED
    BY <1>1, <1>2, <1>3 DEF CreationInv, CreationGood, CreationModOnTop

LEMMA CreationEntry ==
  /\ \A n \in Nat : Creation!Mod(n) \in CreationEntries /\ Creation!Mod(n).by = "mod"
  /\ \A d \in Places \cup {NoWeapon}, e \in Nat :
       Creation!Ours(d, e) \in CreationEntries /\ Creation!Ours(d, e).by = "us"
  BY DEF Creation!Mod, Creation!Ours, CreationEntries

\* What is put on top stands there, and all else beneath it.
LEMMA CreationPut ==
  ASSUME NEW E, NEW f \in Seq(E), NEW x \in E
  PROVE  LET g == <<x>> \o f IN
         /\ g \in Seq(E) /\ g # <<>> /\ Head(g) = x /\ 1 \in DOMAIN g /\ g[1] = x
         /\ \A i \in DOMAIN f : i + 1 \in DOMAIN g /\ g[i + 1] = f[i]
         /\ \A i \in DOMAIN g : i = 1 \/ (i - 1 \in DOMAIN f /\ g[i] = f[i - 1])
  <1> DEFINE g == <<x>> \o f
  <1>1. g \in Seq(E) /\ Len(g) = Len(f) + 1 /\ Len(f) \in Nat
    OBVIOUS
  <1>2. \A i \in 1 .. Len(g) : g[i] = IF i = 1 THEN x ELSE f[i - 1]
    BY <1>1
  <1>3. DOMAIN g = 1 .. Len(g) /\ DOMAIN f = 1 .. Len(f)
    BY <1>1
  <1> HIDE DEF g
  <1>4. g # <<>> /\ Head(g) = g[1]
    BY <1>1
  <1> QED
    BY <1>1, <1>2, <1>3, <1>4 DEF g

\* What leaves the functions alone.
CreationLike(t, c) ==
  /\ DOMAIN t = CreationFields /\ t.env = c.env /\ t.mods = c.mods
  /\ t.desc \in Places \cup {NoWeapon}
  /\ t.function = c.function /\ t.under = c.under /\ t.target = c.target
  /\ t.callback = c.callback /\ t.environment = c.environment

LEMMA CreationSame ==
  ASSUME NEW c, NEW t, CreationGood(c), CreationLike(t, c)
  PROVE  CreationGood(t)
  BY DEF CreationGood, CreationLike

LEMMA CreationCompiled ==
  ASSUME NEW c, CreationGood(c)
  PROVE  CreationGood(Creation!Compiled(c))
  <1> DEFINE ran == <<c.env, c.env>>
             t == [c EXCEPT !.compiled = c.env, !.ran = ran]
  <1>1. Creation!Compiled(c) = t
    BY DEF Creation!Compiled
  <1> HIDE DEF ran
  <1>2. CreationLike(t, c)
    BY DEF CreationLike, CreationGood, CreationFields
  <1> QED
    BY <1>1, <1>2, CreationSame

\* Ours is taken away where it stands outermost: the functions of mods remain, and when it
\* is over one of theirs is outermost, if any.
LEMMA CreationCleared ==
  ASSUME NEW c, CreationGood(c)
  PROVE  /\ CreationGood(Creation!Cleared(c)) /\ ~Creation!Cleared(c).target
         /\ Creation!Cleared(c).env = c.env
         /\ Creation!Cleared(c).desc = c.desc
  <1> DEFINE back == c.target /\ c.env = c.environment /\ c.function # <<>> /\ Head(c.function) = c.callback
             function == IF back THEN c.under ELSE c.function
             t == [c EXCEPT !.function = function, !.target = FALSE, !.descriptor = NoWeapon, !.environment = 0,
                            !.under = <<>>, !.callback = Creation!NoFunction, !.level = 0]
  <1>1. Creation!Cleared(c) = t
    BY DEF Creation!Cleared
  <1>2. /\ function \in Seq(CreationEntries)
        /\ \A n \in 1 .. c.mods : \E i \in DOMAIN function : function[i] = Creation!Mod(n)
        /\ CreationModOnTop(function)
    <2>1. CASE back
      <3>1. ~CreationModOnTop(c.function)
        BY <2>1 DEF CreationGood, CreationModOnTop
      <3>2. c.function = <<c.callback>> \o c.under /\ CreationModOnTop(c.under)
        BY <2>1, <3>1 DEF CreationGood
      <3>3. c.under \in Seq(CreationEntries) /\ c.callback \in CreationEntries /\ c.callback.by = "us"
        BY <2>1 DEF CreationGood
      <3>4. ASSUME NEW n \in 1 .. c.mods PROVE \E i \in DOMAIN c.under : c.under[i] = Creation!Mod(n)
        <4>1. PICK i \in DOMAIN c.function : c.function[i] = Creation!Mod(n)
          BY DEF CreationGood
        <4>2. c.function[1] # Creation!Mod(n)
          <5>1. c.function[1] = c.callback
            BY <3>2, <3>3, CreationPut
          <5>2. n \in Nat
            BY DEF CreationGood
          <5> QED
            BY <3>3, <5>1, <5>2, CreationEntry
        <4>3. i - 1 \in DOMAIN c.under /\ c.function[i] = c.under[i - 1]
          BY <3>2, <3>3, <4>1, <4>2, CreationPut
        <4> QED
          BY <4>1, <4>3
      <3> QED
        BY <2>1, <3>2, <3>3, <3>4
    <2>2. CASE ~back
      <3>1. CreationModOnTop(c.function)
        <4>1. CASE ~c.target
          BY <4>1 DEF CreationGood
        <4>2. CASE c.target /\ c.environment # c.env
          BY <4>2 DEF CreationGood
        <4>3. CASE c.function = <<>>
          BY <4>3 DEF CreationModOnTop
        <4>4. CASE c.target /\ Head(c.function) # c.callback
          <5>1. ~(c.function = <<c.callback>> \o c.under)
            BY <4>4, CreationPut DEF CreationGood
          <5> QED
            BY <4>4, <5>1 DEF CreationGood
        <4> QED
          BY <2>2, <4>1, <4>2, <4>3, <4>4
      <3> QED
        BY <2>2, <3>1 DEF CreationGood
    <2> QED
      BY <2>1, <2>2
  <1> HIDE DEF function
  <1>3. /\ DOMAIN t = CreationFields /\ t.env = c.env /\ t.mods = c.mods /\ t.desc = c.desc
        /\ t.function = function /\ t.under = <<>> /\ ~t.target
    BY DEF CreationGood, CreationFields
  <1> HIDE DEF t
  <1>4. <<>> \in Seq(CreationEntries)
    OBVIOUS
  <1>5. CreationGood(t)
    BY <1>2, <1>3, <1>4 DEF CreationGood
  <1> QED
    BY <1>1, <1>3, <1>5

LEMMA CreationMaintained ==
  ASSUME NEW c, CreationGood(c)
  PROVE  CreationGood(Creation!Maintained(c))
  BY CreationCleared DEF Creation!Maintained

LEMMA CreationSet ==
  ASSUME NEW c, CreationGood(c), NEW level
  PROVE  CreationGood(Creation!Set(c, level))
  <1> DEFINE own == IF c.target /\ c.descriptor # c.desc THEN Creation!Cleared(c) ELSE c
             ours == Creation!Ours(c.desc, c.env)
             function == <<ours>> \o own.function
             new == [own EXCEPT !.target = TRUE, !.descriptor = c.desc, !.environment = c.env,
                                !.under = own.function, !.callback = ours, !.function = function]
             put == IF own.target THEN own ELSE new
             asked == [put.asked EXCEPT ![c.desc] = level]
             effect == <<c.desc, c.env>>
             t == [put EXCEPT !.level = level, !.asked = asked, !.effect = effect]
  <1>1. Creation!Set(c, level) = t
    BY DEF Creation!Set
  <1>2. CreationGood(own) /\ own.env = c.env /\ own.desc = c.desc
    BY CreationCleared
  <1>3. ours \in CreationEntries /\ ours.by = "us"
    BY CreationEntry DEF CreationGood
  <1> HIDE DEF own, ours
  <1>4. ASSUME ~own.target PROVE CreationGood(new)
    <2>1. /\ own.function \in Seq(CreationEntries) /\ CreationModOnTop(own.function) /\ own.mods \in Nat
          /\ \A n \in 1 .. own.mods : \E i \in DOMAIN own.function : own.function[i] = Creation!Mod(n)
          /\ DOMAIN own = CreationFields
      BY <1>2, <1>4 DEF CreationGood
    <2>2. /\ function \in Seq(CreationEntries)
          /\ \A n \in 1 .. own.mods : \E i \in DOMAIN function : function[i] = Creation!Mod(n)
      <3>1. function \in Seq(CreationEntries)
        BY <1>3, <2>1, CreationPut
      <3>2. \A i \in DOMAIN own.function : i + 1 \in DOMAIN function /\ function[i + 1] = own.function[i]
        BY <1>3, <2>1, CreationPut
      <3> HIDE DEF function
      <3> QED
        BY <2>1, <3>1, <3>2
    <2>3. function = <<ours>> \o own.function
      OBVIOUS
    <2> HIDE DEF function
    <2>4. /\ DOMAIN new = CreationFields /\ new.env = own.env /\ new.mods = own.mods /\ new.desc = own.desc
          /\ new.function = function /\ new.under = own.function /\ new.target
          /\ new.callback = ours /\ new.environment = c.env
      BY <2>1 DEF CreationFields
    <2> HIDE DEF new
    <2> QED
      BY <1>2, <1>3, <2>1, <2>2, <2>3, <2>4 DEF CreationGood
  <1>5. CreationGood(put)
    BY <1>2, <1>4
  <1> HIDE DEF put, asked, effect
  <1>6. CreationLike(t, put)
    BY <1>5 DEF CreationLike, CreationGood, CreationFields
  <1> QED
    BY <1>1, <1>5, <1>6, CreationSame

LEMMA CreationStep == CreationInv /\ [Creation!Next]_all => CreationInv'
  <1> SUFFICES ASSUME CreationInv, [Creation!Next]_all PROVE CreationInv'
    OBVIOUS
  <1> DEFINE c == state
  <1>0. CreationGood(c) /\ DOMAIN c = CreationFields
    BY DEF CreationInv, CreationGood
  <1>1. CASE Creation!Live
    <2>1. CreationLike(state', c)
      BY <1>0, <1>1 DEF Creation!Live, CreationLike, CreationGood, CreationFields
    <2> QED
      BY <1>0, <2>1, CreationSame DEF CreationInv
  <1>2. CASE Creation!Reload
    <2>1. /\ DOMAIN state' = CreationFields /\ state'.env = c.env + 1 /\ state'.mods = 0 /\ state'.desc = NoWeapon
          /\ state'.function = <<>> /\ state'.under = c.under /\ state'.target = c.target
          /\ state'.callback = c.callback
      BY <1>0, <1>2 DEF Creation!Reload, CreationFields
    <2>2. <<>> \in Seq(CreationEntries) /\ CreationModOnTop(<<>>)
      BY DEF CreationModOnTop
    <2> QED
      BY <1>0, <2>1, <2>2 DEF CreationGood, CreationInv
  <1>3. ASSUME NEW d \in Places, Creation!Open(d) PROVE CreationInv'
    <2>1. CreationLike(state', c)
      BY <1>0, <1>3 DEF Creation!Open, CreationLike, CreationFields
    <2> QED
      BY <1>0, <2>1, CreationSame DEF CreationInv
  <1>4. CASE Creation!Close
    <2>1. CreationLike(state', c)
      BY <1>0, <1>4 DEF Creation!Close, CreationLike, CreationGood, CreationFields
    <2> QED
      BY <1>0, <2>1, CreationSame DEF CreationInv
  <1>5. CASE Creation!Wrap
    <2> DEFINE x == Creation!Mod(c.mods + 1)
               g == <<x>> \o c.function
               t == [c EXCEPT !.function = g, !.mods = c.mods + 1]
    <2>1. state' = t
      BY <1>5 DEF Creation!Wrap
    <2>2. c.mods \in Nat /\ c.function \in Seq(CreationEntries)
      BY <1>0 DEF CreationGood
    <2>3. x \in CreationEntries /\ x.by = "mod"
      BY <2>2, CreationEntry
    <2>4. /\ g \in Seq(CreationEntries) /\ Head(g) = x /\ 1 \in DOMAIN g /\ g[1] = x
          /\ \A i \in DOMAIN c.function : i + 1 \in DOMAIN g /\ g[i + 1] = c.function[i]
      BY <2>2, <2>3, CreationPut
    <2>5. x = Creation!Mod(c.mods + 1)
      OBVIOUS
    <2> HIDE DEF x, g
    <2>6. \A n \in 1 .. c.mods + 1 : \E i \in DOMAIN g : g[i] = Creation!Mod(n)
      <3> TAKE n \in 1 .. c.mods + 1
      <3>1. CASE n = c.mods + 1
        BY <2>4, <2>5, <3>1
      <3>2. CASE n # c.mods + 1
        <4>1. n \in 1 .. c.mods
          BY <2>2, <3>2
        <4>2. PICK i \in DOMAIN c.function : c.function[i] = Creation!Mod(n)
          BY <1>0, <4>1 DEF CreationGood
        <4> QED
          BY <2>4, <4>2
      <3> QED
        BY <3>1, <3>2
    <2>7. /\ DOMAIN t = CreationFields /\ t.env = c.env /\ t.mods = c.mods + 1 /\ t.desc = c.desc
          /\ t.function = g /\ t.under = c.under /\ t.target = c.target
          /\ t.callback = c.callback /\ t.environment = c.environment
      BY <1>0 DEF CreationFields
    <2> HIDE DEF t
    <2>8. CreationModOnTop(g)
      BY <2>3, <2>4 DEF CreationModOnTop
    <2> QED
      BY <1>0, <2>1, <2>2, <2>4, <2>6, <2>7, <2>8 DEF CreationGood, CreationInv
  <1>6. CASE Creation!Run
    BY <1>0, <1>6, CreationMaintained DEF Creation!Run, CreationInv
  <1>7. ASSUME NEW level \in 1 .. 2, Creation!Skill(level) PROVE CreationInv'
    <2> DEFINE m == Creation!Maintained(c)
               f == [m EXCEPT !.compiled = c.env]
    <2>1. CreationGood(m)
      BY <1>0, CreationMaintained
    <2>2. state' \in {Creation!Set(Creation!Compiled(m), level), Creation!Compiled(m), m, f}
      BY <1>7 DEF Creation!Skill
    <2> HIDE DEF m
    <2>3. CreationGood(f)
      <3>1. CreationLike(f, m)
        BY <2>1 DEF CreationLike, CreationGood, CreationFields
      <3> QED
        BY <2>1, <3>1, CreationSame
    <2> HIDE DEF f
    <2>4. CreationGood(Creation!Compiled(m)) /\ CreationGood(Creation!Set(Creation!Compiled(m), level))
      BY <2>1, CreationCompiled, CreationSet
    <2> QED
      BY <2>1, <2>2, <2>3, <2>4 DEF CreationInv
  <1>8. CASE Creation!Clear
    <2> DEFINE m == Creation!Compiled(Creation!Maintained(c))
               l == Creation!Cleared(m)
               asked == [l.asked EXCEPT ![c.desc] = 0]
               effect == Creation!NoEffect
               t == [l EXCEPT !.asked = asked, !.effect = effect]
    <2>1. CreationGood(l)
      BY <1>0, CreationMaintained, CreationCompiled, CreationCleared
    <2>2. state' = t
      BY <1>8 DEF Creation!Clear
    <2> HIDE DEF l, asked, effect
    <2>3. CreationLike(t, l)
      BY <2>1 DEF CreationLike, CreationGood, CreationFields
    <2> QED
      BY <2>1, <2>2, <2>3, CreationSame DEF CreationInv
  <1>9. CASE UNCHANGED all
    BY <1>0, <1>9 DEF all, CreationInv
  <1> QED
    BY <1>1, <1>2, <1>3, <1>4, <1>5, <1>6, <1>7, <1>8, <1>9 DEF Creation!Next

LEMMA CreationKept == CreationInv => Creation!ModsStay
  BY DEF CreationInv, CreationGood, CreationModOnTop, Creation!ModsStay

-----------------------------------------------------------------------------
(* CreationSkills: what ours adds is what was asked for its description. *)

\* What is asked is kept for a description of the screen, and ours stands in the functions
\* of the environment that it was put in; both are of the menu.
CreationFit(c, p) ==
  /\ DOMAIN c = CreationFields /\ c.env \in Nat \ {0} /\ c.ran[1] = c.ran[2] /\ c.asked \in [Places -> Nat]
  /\ c.level # 0 => c.target /\ c.level = c.asked[c.descriptor]
  /\ c.target => c.descriptor \in Places /\ c.environment \in Nat /\ c.environment <= c.env
  /\ c.target /\ c.environment = c.env =>
       \E i \in DOMAIN c.function : c.function[i] = Creation!Ours(c.descriptor, c.env)
  /\ c.open => p = NoPlayer /\ c.desc \in Places
  /\ c.effect # Creation!NoEffect =>
       p = NoPlayer /\ c.target /\ c.descriptor = c.desc /\ c.environment = c.env

CreationBooks == CreationFit(state, player)

LEMMA CreationBooksInit == Creation!Init => CreationBooks
  <1> SUFFICES ASSUME Creation!Init PROVE CreationFit(state, player)
    BY DEF CreationBooks
  <1>1. /\ DOMAIN state = CreationFields /\ state.env = 1 /\ state.level = 0 /\ state.target = FALSE
        /\ state.open = FALSE /\ state.effect = Creation!NoEffect /\ state.ran = <<0, 0>>
        /\ state.asked = [d \in Places |-> 0]
    BY DEF Creation!Init, CreationFields
  <1> QED
    BY <1>1 DEF CreationFit

LEMMA CreationClears ==
  ASSUME NEW c, DOMAIN c = CreationFields
  PROVE  LET t == Creation!Cleared(c) IN
         /\ DOMAIN t = CreationFields /\ t.target = FALSE /\ t.level = 0 /\ t.env = c.env /\ t.desc = c.desc
         /\ t.open = c.open /\ t.asked = c.asked /\ t.ran = c.ran /\ t.effect = c.effect
  <1> DEFINE function == IF c.target /\ c.env = c.environment /\ c.function # <<>> /\ Head(c.function) = c.callback
                         THEN c.under ELSE c.function
             none == Creation!NoFunction
             t == [c EXCEPT !.function = function, !.target = FALSE, !.descriptor = NoWeapon, !.environment = 0,
                            !.under = <<>>, !.callback = none, !.level = 0]
  <1>1. Creation!Cleared(c) = t
    BY DEF Creation!Cleared, CreationFields
  <1> HIDE DEF function, none
  <1>2. /\ DOMAIN t = CreationFields /\ t.target = FALSE /\ t.level = 0 /\ t.env = c.env /\ t.desc = c.desc
        /\ t.open = c.open /\ t.asked = c.asked /\ t.ran = c.ran /\ t.effect = c.effect
    BY DEF CreationFields
  <1> HIDE DEF t
  <1> QED
    BY <1>1, <1>2

\* What ends does so where nothing has to be added.
LEMMA CreationUpkept ==
  ASSUME NEW c, CreationFit(c, player)
  PROVE  LET t == Creation!Maintained(c) IN
         /\ CreationFit(t, player) /\ t.open = c.open /\ t.desc = c.desc /\ t.env = c.env
         /\ t.target => t.environment = t.env /\ t.desc = t.descriptor
  <1> DEFINE t == Creation!Maintained(c)
             ends == c.target /\ (player # NoPlayer \/ c.environment # c.env \/ c.desc # c.descriptor)
  <1>1. CASE ends
    <2>1. t = Creation!Cleared(c)
      BY <1>1 DEF Creation!Maintained
    <2> HIDE DEF t
    <2>2. /\ DOMAIN t = CreationFields /\ t.target = FALSE /\ t.level = 0 /\ t.env = c.env /\ t.desc = c.desc
          /\ t.open = c.open /\ t.asked = c.asked /\ t.ran = c.ran /\ t.effect = c.effect
      BY <2>1, CreationClears DEF CreationFit
    <2>3. c.effect = Creation!NoEffect
      BY <1>1 DEF CreationFit
    <2>4. CreationFit(t, player)
      BY <2>2, <2>3 DEF CreationFit
    <2> QED
      BY <2>2, <2>4 DEF t
  <1>2. CASE ~ends
    <2>1. t = c
      BY <1>2 DEF Creation!Maintained
    <2> QED
      BY <1>2, <2>1
  <1> QED
    BY <1>1, <1>2

LEMMA CreationCompiles ==
  ASSUME NEW c, NEW p, CreationFit(c, p)
  PROVE  LET t == Creation!Compiled(c) IN
         /\ CreationFit(t, p) /\ t.target = c.target /\ t.environment = c.environment /\ t.env = c.env
         /\ t.desc = c.desc /\ t.descriptor = c.descriptor /\ t.open = c.open /\ t.function = c.function
  <1> DEFINE ran == <<c.env, c.env>>
             t == [c EXCEPT !.compiled = c.env, !.ran = ran]
  <1>1. Creation!Compiled(c) = t
    BY DEF Creation!Compiled
  <1>2. ran[1] = ran[2]
    OBVIOUS
  <1> HIDE DEF ran
  <1>3. /\ DOMAIN t = CreationFields /\ t.env = c.env /\ t.ran = ran /\ t.asked = c.asked /\ t.level = c.level
        /\ t.target = c.target /\ t.descriptor = c.descriptor /\ t.environment = c.environment
        /\ t.function = c.function /\ t.open = c.open /\ t.desc = c.desc /\ t.effect = c.effect
    BY DEF CreationFit, CreationFields
  <1> HIDE DEF t
  <1>4. CreationFit(t, p)
    BY <1>2, <1>3 DEF CreationFit
  <1> QED
    BY <1>1, <1>3, <1>4

\* What is asked is what ours adds, which is put there if it does not stand there yet.
LEMMA CreationAsks ==
  ASSUME NEW c, CreationFit(c, NoPlayer), c.desc \in Places, c.function \in Seq(CreationEntries), NEW level \in Nat,
         c.target => c.environment = c.env /\ c.desc = c.descriptor
  PROVE  CreationFit(Creation!Set(c, level), NoPlayer)
  <1> DEFINE ours == Creation!Ours(c.desc, c.env)
             function == <<ours>> \o c.function
             new == [c EXCEPT !.target = TRUE, !.descriptor = c.desc, !.environment = c.env,
                              !.under = c.function, !.callback = ours, !.function = function]
             put == IF c.target THEN c ELSE new
             asked == [put.asked EXCEPT ![c.desc] = level]
             effect == <<c.desc, c.env>>
             t == [put EXCEPT !.level = level, !.asked = asked, !.effect = effect]
  <1>0. DOMAIN c = CreationFields /\ c.env \in Nat \ {0} /\ c.ran[1] = c.ran[2] /\ c.asked \in [Places -> Nat]
    BY DEF CreationFit
  <1>1. Creation!Set(c, level) = t
    BY DEF Creation!Set
  <1>2. \E i \in DOMAIN function : function[i] = ours
    <2>1. ours \in CreationEntries
      BY <1>0, CreationEntry
    <2> QED
      BY <2>1, CreationPut
  <1>3. /\ DOMAIN put = CreationFields /\ put.env = c.env /\ put.ran = c.ran /\ put.asked = c.asked
        /\ put.open = c.open /\ put.desc = c.desc /\ put.target /\ put.descriptor = c.desc /\ put.environment = c.env
        /\ \E i \in DOMAIN put.function : put.function[i] = ours
    <2>1. CASE c.target
      <3>1. \E i \in DOMAIN c.function : c.function[i] = ours
        BY <2>1 DEF CreationFit
      <3> HIDE DEF ours
      <3> QED
        BY <1>0, <2>1, <3>1
    <2>2. CASE ~c.target
      <3>1. put = new
        BY <2>2
      <3> HIDE DEF function, ours, put
      <3>2. /\ DOMAIN new = CreationFields /\ new.env = c.env /\ new.ran = c.ran /\ new.asked = c.asked
            /\ new.open = c.open /\ new.desc = c.desc /\ new.target /\ new.descriptor = c.desc
            /\ new.environment = c.env /\ new.function = function
        BY <1>0 DEF CreationFields
      <3> HIDE DEF new
      <3> QED
        BY <1>2, <3>1, <3>2
    <2> QED
      BY <2>1, <2>2
  <1> HIDE DEF put
  <1>4. asked \in [Places -> Nat] /\ asked[c.desc] = level
    BY <1>0, <1>3
  <1> HIDE DEF asked, effect
  <1>5. /\ DOMAIN t = CreationFields /\ t.env = c.env /\ t.ran = c.ran /\ t.asked = asked /\ t.level = level
        /\ t.open = c.open /\ t.desc = c.desc /\ t.target = put.target /\ t.descriptor = c.desc
        /\ t.environment = c.env /\ t.function = put.function
    BY <1>3 DEF CreationFields
  <1> HIDE DEF t
  <1>6. t.target /\ \E i \in DOMAIN t.function : t.function[i] = Creation!Ours(t.descriptor, t.env)
    BY <1>3, <1>5
  <1>7. CreationFit(t, NoPlayer)
    BY <1>0, <1>4, <1>5, <1>6 DEF CreationFit
  <1> QED
    BY <1>1, <1>7

LEMMA CreationBooksStep == CreationInv /\ CreationBooks /\ [Creation!Next]_all => CreationBooks'
  <1> SUFFICES ASSUME CreationInv, CreationBooks, [Creation!Next]_all PROVE CreationFit(state', player')
    BY DEF CreationBooks
  <1> DEFINE c == Creation!Maintained(state)
             function == <<Creation!Mod(state.mods + 1)>> \o state.function
  <1>0. /\ CreationFit(state, player) /\ DOMAIN state = CreationFields /\ state.env \in Nat \ {0}
        /\ state.asked \in [Places -> Nat] /\ state.function \in Seq(CreationEntries) /\ state.mods \in Nat
    BY DEF CreationBooks, CreationFit, CreationInv, CreationGood
  <1>1. /\ CreationFit(c, player) /\ c.open = state.open /\ c.desc = state.desc /\ c.env = state.env
        /\ c.target => c.environment = c.env /\ c.desc = c.descriptor
        /\ CreationGood(c)
    BY <1>0, CreationUpkept, CreationMaintained DEF CreationInv
  <1>2. CASE Creation!Live
    <2>1. /\ DOMAIN state' = CreationFields /\ state'.env = state.env /\ state'.ran = state.ran /\ state'.asked = state.asked
          /\ state'.level = state.level /\ state'.target = state.target /\ state'.descriptor = state.descriptor
          /\ state'.environment = state.environment /\ state'.function = state.function
          /\ state'.open = FALSE /\ state'.effect = Creation!NoEffect
      BY <1>0, <1>2 DEF Creation!Live, CreationFields
    <2> QED
      BY <1>0, <2>1 DEF CreationFit
  <1>3. CASE Creation!Reload
    <2>1. /\ DOMAIN state' = CreationFields /\ state'.env = state.env + 1 /\ state'.ran = state.ran /\ state'.asked = state.asked
          /\ state'.level = state.level /\ state'.target = state.target /\ state'.descriptor = state.descriptor
          /\ state'.environment = state.environment
          /\ state'.open = FALSE /\ state'.effect = Creation!NoEffect
      BY <1>0, <1>3 DEF Creation!Reload, CreationFields
    <2>2. state'.env \in Nat \ {0} /\ (state.target => state.environment <= state'.env /\ state.environment # state'.env)
      BY <1>0, <2>1 DEF CreationFit
    <2> QED
      BY <1>0, <2>1, <2>2 DEF CreationFit
  <1>4. ASSUME NEW d \in Places, Creation!Open(d) PROVE CreationFit(state', player')
    <2>1. /\ DOMAIN state' = CreationFields /\ state'.env = state.env /\ state'.ran = state.ran /\ state'.asked = state.asked
          /\ state'.level = state.level /\ state'.target = state.target /\ state'.descriptor = state.descriptor
          /\ state'.environment = state.environment /\ state'.function = state.function
          /\ state'.desc = d /\ state'.effect = Creation!NoEffect /\ player' = NoPlayer
      BY <1>0, <1>4 DEF Creation!Open, CreationFields, Creation!game
    <2> QED
      BY <1>0, <2>1 DEF CreationFit
  <1>5. CASE Creation!Close
    <2>1. /\ DOMAIN state' = CreationFields /\ state'.env = state.env /\ state'.ran = state.ran /\ state'.asked = state.asked
          /\ state'.level = state.level /\ state'.target = state.target /\ state'.descriptor = state.descriptor
          /\ state'.environment = state.environment /\ state'.function = state.function
          /\ state'.desc = state.desc /\ state'.effect = state.effect /\ state'.open = FALSE /\ player' = player
      BY <1>0, <1>5 DEF Creation!Close, CreationFields, Creation!game
    <2> QED
      BY <1>0, <2>1 DEF CreationFit
  <1>6. CASE Creation!Wrap
    <2>1. \A i \in DOMAIN state.function : i + 1 \in DOMAIN function /\ function[i + 1] = state.function[i]
      <3>1. Creation!Mod(state.mods + 1) \in CreationEntries
        BY <1>0, CreationEntry
      <3> QED
        BY <1>0, <3>1, CreationPut
    <2>2. state' = [state EXCEPT !.function = function, !.mods = state.mods + 1] /\ player' = player
      BY <1>0, <1>6 DEF Creation!Wrap, CreationFields, Creation!game
    <2> HIDE DEF function
    <2>3. /\ DOMAIN state' = CreationFields /\ state'.env = state.env /\ state'.ran = state.ran /\ state'.asked = state.asked
          /\ state'.level = state.level /\ state'.target = state.target /\ state'.descriptor = state.descriptor
          /\ state'.environment = state.environment /\ state'.function = function
          /\ state'.desc = state.desc /\ state'.effect = state.effect /\ state'.open = state.open
      BY <1>0, <2>2 DEF CreationFields
    <2> QED
      BY <1>0, <2>1, <2>2, <2>3 DEF CreationFit
  <1>7. CASE Creation!Run
    BY <1>1, <1>7 DEF Creation!Run, Creation!game
  <1>8. ASSUME NEW level \in 1 .. 2, Creation!Skill(level) PROVE CreationFit(state', player')
    <2>0. player' = player
      BY <1>8 DEF Creation!Skill, Creation!game
    <2>1. \/ state.open /\ state' = Creation!Set(Creation!Compiled(c), level)
          \/ state' = Creation!Compiled(c)
          \/ state' \in {c, [c EXCEPT !.compiled = state.env]}
      BY <1>8 DEF Creation!Skill
    <2> HIDE DEF c
    <2>2. CreationFit(Creation!Compiled(c), player)
      BY <1>1, CreationCompiles
    <2>3. CreationFit([c EXCEPT !.compiled = state.env], player)
      <3> DEFINE t == [c EXCEPT !.compiled = state.env]
      <3>1. /\ DOMAIN t = CreationFields /\ t.env = c.env /\ t.ran = c.ran /\ t.asked = c.asked /\ t.level = c.level
            /\ t.target = c.target /\ t.descriptor = c.descriptor /\ t.environment = c.environment
            /\ t.function = c.function /\ t.open = c.open /\ t.desc = c.desc /\ t.effect = c.effect
        BY <1>1 DEF CreationFit, CreationFields
      <3> HIDE DEF t
      <3>2. CreationFit(t, player)
        BY <1>1, <3>1 DEF CreationFit
      <3> QED
        BY <3>2 DEF t
    <2>4. ASSUME state.open PROVE CreationFit(Creation!Set(Creation!Compiled(c), level), player)
      <3> DEFINE d == Creation!Compiled(c)
      <3>1. /\ d.target => d.environment = d.env /\ d.desc = d.descriptor
            /\ d.function = c.function /\ d.desc = state.desc
        BY <1>1, CreationCompiles
      <3>2. c.function \in Seq(CreationEntries)
        BY <1>1 DEF CreationGood
      <3>3. player = NoPlayer /\ state.desc \in Places
        BY <1>0, <2>4 DEF CreationFit
      <3>4. CreationFit(d, NoPlayer)
        BY <2>2, <3>3
      <3> HIDE DEF d
      <3>5. CreationFit(Creation!Set(d, level), NoPlayer)
        BY <3>1, <3>2, <3>3, <3>4, CreationAsks
      <3> QED
        BY <3>3, <3>5 DEF d
    <2> QED
      BY <1>1, <2>0, <2>1, <2>2, <2>3, <2>4
  <1>9. CASE Creation!Clear
    <2> DEFINE d == Creation!Compiled(c)
               e == Creation!Cleared(d)
               asked == [e.asked EXCEPT ![state.desc] = 0]
    <2>0. player' = player /\ state' = [e EXCEPT !.asked = asked, !.effect = Creation!NoEffect] /\ state.open
      BY <1>9 DEF Creation!Clear, Creation!game
    <2> HIDE DEF c
    <2>1. CreationFit(d, player) /\ d.open = state.open /\ d.desc = state.desc
      BY <1>1, CreationCompiles
    <2> HIDE DEF d
    <2>2. /\ DOMAIN e = CreationFields /\ e.target = FALSE /\ e.level = 0 /\ e.env = d.env /\ e.desc = d.desc
          /\ e.open = d.open /\ e.asked = d.asked /\ e.ran = d.ran
      BY <2>1, CreationClears DEF CreationFit
    <2> HIDE DEF e
    <2>3. asked \in [Places -> Nat]
      BY <2>1, <2>2 DEF CreationFit
    <2> HIDE DEF asked
    <2>4. /\ DOMAIN state' = CreationFields /\ state'.target = FALSE /\ state'.level = 0 /\ state'.env = d.env
          /\ state'.desc = d.desc /\ state'.open = d.open /\ state'.asked = asked /\ state'.ran = d.ran
          /\ state'.effect = Creation!NoEffect
      BY <2>0, <2>2 DEF CreationFields
    <2> QED
      BY <2>0, <2>1, <2>3, <2>4 DEF CreationFit
  <1>10. CASE UNCHANGED all
    BY <1>0, <1>10 DEF all, game
  <1> QED
    BY <1>2, <1>3, <1>4, <1>5, <1>6, <1>7, <1>8, <1>9, <1>10 DEF Creation!Next

LEMMA CreationBooksKept == CreationBooks => Creation!SkillsAreTheCharacters /\ Creation!ScriptIsOfTheEnvironment
  <1> SUFFICES ASSUME CreationFit(state, player) PROVE Creation!SkillsAreTheCharacters /\ Creation!ScriptIsOfTheEnvironment
    BY DEF CreationBooks
  <1> DEFINE adding == {f \in Creation!Range(state.function) : Creation!Adds(state, f)}
  <1>1. ASSUME NEW f \in adding, state.level # 0 PROVE state.level = state.asked[f.actor]
    BY <1>1 DEF CreationFit, Creation!Adds
  <1>2. ASSUME state.effect # Creation!NoEffect PROVE \E f \in adding : f.actor = state.desc
    <2>1. /\ state.target /\ state.descriptor = state.desc /\ state.environment = state.env
      BY <1>2 DEF CreationFit
    <2>2. PICK i \in DOMAIN state.function : state.function[i] = Creation!Ours(state.descriptor, state.env)
      BY <2>1 DEF CreationFit
    <2> DEFINE f == Creation!Ours(state.descriptor, state.env)
    <2>3. f \in Creation!Range(state.function)
      BY <2>2 DEF Creation!Range
    <2>4. f.by = "us" /\ f.actor = state.descriptor
      BY DEF Creation!Ours
    <2> HIDE DEF f
    <2> QED
      BY <2>1, <2>3, <2>4 DEF Creation!Adds
  <1>3. state.ran[1] = state.ran[2]
    BY DEF CreationFit
  <1> QED
    BY <1>1, <1>2, <1>3 DEF Creation!SkillsAreTheCharacters, Creation!ScriptIsOfTheEnvironment

-----------------------------------------------------------------------------
(* AimOverrides: a second shot is due only after a first one. *)

AimShots(z) ==
  /\ DOMAIN z = AimFields
  /\ z.pending \in BOOLEAN /\ z.followed \in BOOLEAN /\ z.extra = FALSE
  /\ z.pending = TRUE => z.followed = TRUE

AimBooks == AimShots(state)

LEMMA AimBooksInit == Aim!Init => AimBooks
  BY DEF Aim!Init, AimBooks, AimShots, AimFields

LEMMA AimBooksKept == AimBooks => Aim!OneSecondShot
  BY DEF AimBooks, AimShots, Aim!OneSecondShot

\* What is about neither of the two shots.
LEMMA AimShotsFramed ==
  ASSUME NEW z, AimShots(z), NEW f, NEW o
  PROVE  AimShots([z EXCEPT !.frame = f]) /\ AimShots([z EXCEPT !.forced = o])
         /\ AimShots([z EXCEPT !.published = o])
  BY DEF AimShots, AimFields

LEMMA AimShotsForgotten ==
  ASSUME NEW z, AimShots(z), NEW call PROVE AimShots(Aim!Forgotten(z, call))
  <1> DEFINE a == [z.calls EXCEPT ![call] = "none"]
             b == IF z.calls[call] = "queued" /\ call # "attack" THEN z.strays \cup {call} ELSE z.strays
             t == [z EXCEPT !.calls = a, !.strays = b]
  <1>1. Aim!Forgotten(z, call) = t
    BY DEF Aim!Forgotten
  <1> HIDE DEF a, b
  <1>2. AimShots(t)
    BY DEF AimShots, AimFields
  <1> QED
    BY <1>1, <1>2

LEMMA AimShotsPolled ==
  ASSUME NEW z, AimShots(z), NEW call, NEW bad PROVE AimShots(Aim!Polled(z, call, bad))
  BY AimShotsForgotten DEF Aim!Polled

LEMMA AimShotsQueued ==
  ASSUME NEW z, AimShots(z), NEW call, NEW bad PROVE AimShots(Aim!Queued(z, call, bad))
  <1> DEFINE a == [z.calls EXCEPT ![call] = IF bad = "queue" THEN @ ELSE "queued"]
             b == z.unsent \/ (bad = "queue" /\ call = "release")
             t == [z EXCEPT !.calls = a, !.unsent = b]
  <1>1. Aim!Queued(z, call, bad) = t
    BY DEF Aim!Queued
  <1> HIDE DEF a, b
  <1>2. AimShots(t)
    BY DEF AimShots, AimFields
  <1> QED
    BY <1>1, <1>2

LEMMA AimShotsRelease ==
  ASSUME NEW z, AimShots(z), NEW bad PROVE AimShots(Aim!Release(z, bad))
  BY AimShotsPolled, AimShotsQueued DEF Aim!Release

LEMMA AimShotsReleaseForced ==
  ASSUME NEW z, AimShots(z), NEW busy, NEW bad PROVE AimShots(Aim!ReleaseForced(z, busy, bad))
  BY AimShotsRelease, AimShotsFramed DEF Aim!ReleaseForced

LEMMA AimShotsCleared ==
  ASSUME NEW z, AimShots(z), NEW bad PROVE AimShots(Aim!Cleared(z, bad))
  <1> DEFINE t == [z EXCEPT !.requested = Aim!NoRequest, !.prepared = Aim!NoRequest]
  <1>1. AimShots(t)
    BY DEF AimShots, AimFields
  <1> HIDE DEF t
  <1> QED
    BY <1>1, AimShotsRelease DEF Aim!Cleared, t

LEMMA AimShotsUnpublished == ASSUME NEW z, AimShots(z) PROVE AimShots(Aim!Unpublished(z))
  BY AimShotsFramed DEF Aim!Unpublished

LEMMA AimShotsNoSecond == ASSUME NEW z, AimShots(z) PROVE AimShots(Aim!NoSecond(z))
  BY DEF Aim!NoSecond, AimShots, AimFields

LEMMA AimShotsRestoreWeapon ==
  ASSUME NEW z, AimShots(z), NEW bad PROVE AimShots(Aim!RestoreWeapon(z, bad))
  <1> DEFINE x == z.weapon
             values == [z.values EXCEPT ![x] = IF bad = "restore" THEN @ ELSE z.weaponHad]
             spoilt == IF bad = "restore" THEN z.spoiltWeapons \cup {x} ELSE z.spoiltWeapons
             t == [z EXCEPT !.values = values, !.spoiltWeapons = spoilt, !.weapon = NoWeapon]
  <1>1. Aim!RestoreWeapon(z, bad) = z \/ Aim!RestoreWeapon(z, bad) = t
    BY DEF Aim!RestoreWeapon
  <1> HIDE DEF values, spoilt
  <1>2. AimShots(t)
    BY DEF AimShots, AimFields
  <1> HIDE DEF t
  <1> QED
    BY <1>1, <1>2

LEMMA AimShotsRestoreMovement ==
  ASSUME NEW z, AimShots(z), NEW bad PROVE AimShots(Aim!RestoreMovement(z, bad))
  <1> DEFINE x == z.walker
             moves == [z.moves EXCEPT ![x] = IF bad = "restore" THEN @ ELSE z.walkerHad]
             spoilt == IF bad = "restore" THEN z.spoiltPlayers \cup {x} ELSE z.spoiltPlayers
             t == [z EXCEPT !.moves = moves, !.spoiltPlayers = spoilt, !.walker = NoPlayer]
  <1>1. Aim!RestoreMovement(z, bad) = z \/ Aim!RestoreMovement(z, bad) = t
    BY DEF Aim!RestoreMovement
  <1> HIDE DEF moves, spoilt
  <1>2. AimShots(t)
    BY DEF AimShots, AimFields
  <1> HIDE DEF t
  <1> QED
    BY <1>1, <1>2

LEMMA AimShotsApplied ==
  ASSUME NEW z, AimShots(z), NEW w, NEW bad PROVE AimShots(Aim!Applied(z, w, bad))
  <1> DEFINE before == IF z.weapon = w THEN z ELSE Aim!RestoreWeapon(z, bad)
             m == Aim!Remembered(before, w)
             other == [before.values EXCEPT ![w] = "other"]
             ours == [m.values EXCEPT ![w] = "ours"]
             t == [before EXCEPT !.values = other, !.spoiltWeapons = @ \cup {w}]
             u == [m EXCEPT !.values = ours]
  <1>1. AimShots(before)
    BY AimShotsRestoreWeapon
  <1>2. Aim!Applied(z, w, bad) = t \/ Aim!Applied(z, w, bad) = u
    BY DEF Aim!Applied
  <1> HIDE DEF before
  <1>3. AimShots(m)
    BY <1>1 DEF Aim!Remembered, AimShots, AimFields
  <1> HIDE DEF m, other, ours
  <1>4. AimShots(t) /\ AimShots(u)
    BY <1>1, <1>3 DEF AimShots, AimFields
  <1> HIDE DEF t, u
  <1> QED
    BY <1>2, <1>4

LEMMA AimShotsStopped ==
  ASSUME NEW z, AimShots(z), NEW bad PROVE AimShots(Aim!Stopped(z, bad))
  <1> DEFINE before == IF z.walker = player THEN z ELSE Aim!RestoreMovement(z, bad)
             other == [before.moves EXCEPT ![player] = "other"]
             ours == [before.moves EXCEPT ![player] = "ours"]
             spoilt == before.spoiltPlayers \cup {player}
             had == IF z.walker = player THEN before.walkerHad ELSE before.moves[player]
             t == [before EXCEPT !.moves = other, !.spoiltPlayers = spoilt]
             u == [before EXCEPT !.walker = player, !.moves = ours, !.walkerHad = had]
  <1>1. AimShots(before)
    BY AimShotsRestoreMovement
  <1>2. Aim!Stopped(z, bad) = t \/ Aim!Stopped(z, bad) = u
    BY DEF Aim!Stopped
  <1> HIDE DEF before, other, ours, spoilt, had
  <1>3. AimShots(t) /\ AimShots(u)
    BY <1>1 DEF AimShots, AimFields
  <1> HIDE DEF t, u
  <1> QED
    BY <1>2, <1>3

LEMMA AimShotsRequested ==
  ASSUME NEW z, AimShots(z), NEW bad PROVE AimShots(Aim!Requested(z, bad))
  <1> DEFINE asked == [who |-> player, automatic |-> "automatic" \in z.options, fresh |-> TRUE]
             said == [z EXCEPT !.requested = asked]
             polled == Aim!Polled(said, "prepare", bad)
             queued == Aim!Queued(polled, "prepare", bad)
  <1>1. \/ Aim!Requested(z, bad) = z \/ Aim!Requested(z, bad) = polled
        \/ Aim!Requested(z, bad) = queued
    BY DEF Aim!Requested
  <1> HIDE DEF asked
  <1>2. AimShots(said)
    BY DEF AimShots, AimFields
  <1> HIDE DEF said
  <1>3. AimShots(polled)
    BY <1>2, AimShotsPolled
  <1> HIDE DEF polled
  <1>4. AimShots(queued)
    BY <1>3, AimShotsQueued
  <1> HIDE DEF queued
  <1> QED
    BY <1>1, <1>3, <1>4

LEMMA AimShotsAimed ==
  ASSUME NEW z, AimShots(z), NEW near, NEW bad PROVE AimShots(Aim!Aimed(z, near, bad))
  <1> DEFINE a == IF z.hooks # "none" \/ bad = "library" THEN z.hooks
                  ELSE IF bad = "hooks" THEN "failed" ELSE "ready"
             hooked == [z EXCEPT !.hooks = a]
             b == hooked.published \/ hooked.hooks = "ready"
             t == [hooked EXCEPT !.published = b]
  <1>1. Aim!Hooked(z, bad) = hooked
    BY DEF Aim!Hooked
  <1>2. \/ Aim!Aimed(z, near, bad) = z \/ Aim!Aimed(z, near, bad) = Aim!Unpublished(z)
        \/ Aim!Aimed(z, near, bad) = t
    BY <1>1 DEF Aim!Aimed
  <1> HIDE DEF a
  <1>3. AimShots(hooked)
    BY DEF AimShots, AimFields
  <1> HIDE DEF hooked, b
  <1>4. AimShots(t)
    BY <1>3, AimShotsFramed
  <1> HIDE DEF t
  <1> QED
    BY <1>2, <1>4, AimShotsUnpublished

\* The second shot is made only when it is due, and is not due any more then; what is due
\* after a first one follows it.
LEMMA AimShotsFired ==
  ASSUME NEW z, AimShots(z), NEW due, NEW bad PROVE AimShots(Aim!Fired(z, due, bad))
  <1> DEFINE q == Aim!Queued(z, "attack", bad)
             double == "double" \in z.options /\ due = "two"
             t == [q EXCEPT !.pending = FALSE, !.extra = @ \/ ~z.followed, !.followed = FALSE]
             u == [q EXCEPT !.pending = double, !.followed = double]
  <1>1. AimShots(q)
    BY AimShotsQueued
  <1>2. \/ Aim!Fired(z, due, bad) = z \/ Aim!Fired(z, due, bad) = q
        \/ z.pending = TRUE /\ Aim!Fired(z, due, bad) = t
        \/ Aim!Fired(z, due, bad) = u
    BY DEF Aim!Fired, Aim!Second, Aim!First, AimShots
  <1>3. double \in BOOLEAN
    OBVIOUS
  <1> HIDE DEF q, double
  <1>4. z.pending = TRUE => AimShots(t)
    BY <1>1 DEF AimShots, AimFields
  <1>5. AimShots(u)
    BY <1>1, <1>3 DEF AimShots, AimFields
  <1> HIDE DEF t, u
  <1> QED
    BY <1>1, <1>2, <1>4, <1>5

LEMMA AimShotsReset ==
  ASSUME NEW z, AimShots(z), NEW busy, NEW bad PROVE AimShots(Aim!Reset(z, busy, bad))
  <1> DEFINE r == Aim!ReleaseForced(Aim!Cleared(Aim!Unpublished(z), bad), busy, bad)
             f == IF player = NoPlayer THEN [r EXCEPT !.forced = FALSE] ELSE r
             a == Aim!RestoreMovement(f, bad)
             b == Aim!RestoreWeapon(a, bad)
             c == Aim!Forgotten(b, "attack")
             d == [c EXCEPT !.frame = "settled"]
  <1>1. AimShots(r)
    BY AimShotsUnpublished, AimShotsCleared, AimShotsReleaseForced
  <1> HIDE DEF r
  <1>2. AimShots(f)
    BY <1>1, AimShotsFramed
  <1> HIDE DEF f
  <1>3. AimShots(c)
    BY <1>2, AimShotsRestoreMovement, AimShotsRestoreWeapon, AimShotsForgotten
  <1> HIDE DEF c
  <1>4. AimShots(Aim!NoSecond(d))
    BY <1>3, AimShotsFramed, AimShotsNoSecond
  <1> QED
    BY <1>4 DEF Aim!Reset, c, f, r

LEMMA AimShotsUnarmed ==
  ASSUME NEW z, AimShots(z), NEW busy, NEW bad PROVE AimShots(Aim!Unarmed(z, busy, bad))
  BY AimShotsUnpublished, AimShotsRestoreWeapon, AimShotsRestoreMovement, AimShotsReleaseForced,
     AimShotsFramed DEF Aim!Unarmed

LEMMA AimShotsPaused ==
  ASSUME NEW z, AimShots(z), NEW busy, NEW bad PROVE AimShots(Aim!Paused(z, busy, bad))
  <1> DEFINE r == Aim!ReleaseForced(Aim!Cleared(Aim!Unpublished(z), bad), busy, bad)
             b == Aim!RestoreWeapon(Aim!RestoreMovement(r, bad), bad)
             d == [b EXCEPT !.frame = "settled"]
  <1>1. AimShots(r)
    BY AimShotsUnpublished, AimShotsCleared, AimShotsReleaseForced
  <1> HIDE DEF r
  <1>2. AimShots(b)
    BY <1>1, AimShotsRestoreMovement, AimShotsRestoreWeapon
  <1> HIDE DEF b
  <1>3. AimShots(Aim!NoSecond(d))
    BY <1>2, AimShotsFramed, AimShotsNoSecond
  <1> QED
    BY <1>3 DEF Aim!Paused, b, r

LEMMA AimShotsTargeted ==
  ASSUME NEW z, AimShots(z), NEW s, NEW bad PROVE AimShots(Aim!Targeted(z, s, bad))
  <1> DEFINE moved == IF "stop" \in z.options THEN Aim!Stopped(z, bad) ELSE Aim!RestoreMovement(z, bad)
             o == moved.forced \/ s.view = "aimed"
             entered == IF "automatic" \in z.options THEN [moved EXCEPT !.forced = o]
                        ELSE Aim!ReleaseForced(moved, s.busy, bad)
             aimed == IF s.view = "aimed" THEN Aim!Aimed(entered, s.near, bad) ELSE Aim!Unpublished(entered)
             back == Aim!RestoreMovement(moved, bad)
             fired == IF s.view = "aimed" THEN Aim!Fired(aimed, s.due, bad) ELSE aimed
  <1>0. \/ Aim!Targeted(z, s, bad) = [back EXCEPT !.frame = "idle"]
        \/ Aim!Targeted(z, s, bad) = [fired EXCEPT !.frame = "aiming"]
    BY DEF Aim!Targeted
  <1>1. AimShots(moved)
    BY AimShotsStopped, AimShotsRestoreMovement
  <1> HIDE DEF moved, o
  <1>2. AimShots(back)
    BY <1>1, AimShotsRestoreMovement
  <1> HIDE DEF back
  <1>3. AimShots(entered)
    BY <1>1, AimShotsFramed, AimShotsReleaseForced
  <1> HIDE DEF entered
  <1>4. AimShots(aimed)
    BY <1>3, AimShotsAimed, AimShotsUnpublished
  <1> HIDE DEF aimed
  <1>5. AimShots(fired)
    BY <1>4, AimShotsFired
  <1> HIDE DEF fired
  <1>6. AimShots([back EXCEPT !.frame = "idle"]) /\ AimShots([fired EXCEPT !.frame = "aiming"])
    BY <1>2, <1>5, AimShotsFramed
  <1> QED
    BY <1>0, <1>6

LEMMA AimShotsUntargeted ==
  ASSUME NEW z, AimShots(z), NEW s, NEW bad PROVE AimShots(Aim!Untargeted(z, s, bad))
  BY AimShotsRestoreMovement, AimShotsReleaseForced, AimShotsUnpublished, AimShotsCleared,
     AimShotsFramed, AimShotsNoSecond DEF Aim!Untargeted

LEMMA AimShotsArmed ==
  ASSUME NEW z, AimShots(z), NEW s, NEW bad PROVE AimShots(Aim!Armed(z, s, bad))
  <1> DEFINE due == IF "double" \notin z.options \/ s.expired THEN Aim!NoSecond(z) ELSE z
             sees == s.view # "nothing" \/ due.pending
             stopped == IF sees /\ "stop" \in z.options THEN Aim!Stopped(due, bad) ELSE due
             asked == IF sees THEN Aim!Requested(stopped, bad) ELSE stopped
             applied == Aim!Applied(asked, z.hand, bad)
             missed == [Aim!Unpublished(asked) EXCEPT !.frame = "aiming"]
             unread == [Aim!RestoreMovement(Aim!Unpublished(applied), bad) EXCEPT !.frame = "idle"]
             r == Aim!Armed(z, s, bad)
  <1>0. \/ r = missed \/ r = Aim!Reset(applied, s.busy, bad) \/ r = unread
        \/ r = Aim!Targeted(applied, s, bad) \/ r = Aim!Untargeted(applied, s, bad)
    BY DEF Aim!Armed
  <1>1. AimShots(due)
    BY AimShotsNoSecond
  <1> HIDE DEF due, r
  <1>2. AimShots(stopped)
    BY <1>1, AimShotsStopped
  <1> HIDE DEF stopped
  <1>3. AimShots(asked)
    BY <1>2, AimShotsRequested
  <1> HIDE DEF asked
  <1>4. AimShots(applied) /\ AimShots(missed)
    BY <1>3, AimShotsApplied, AimShotsUnpublished, AimShotsFramed
  <1> HIDE DEF applied, missed
  <1>5. AimShots(unread)
    BY <1>4, AimShotsUnpublished, AimShotsRestoreMovement, AimShotsFramed
  <1> HIDE DEF unread
  <1>6. /\ AimShots(Aim!Reset(applied, s.busy, bad)) /\ AimShots(Aim!Targeted(applied, s, bad))
        /\ AimShots(Aim!Untargeted(applied, s, bad))
    BY <1>4, AimShotsReset, AimShotsTargeted, AimShotsUntargeted
  <1>7. AimShots(r)
    BY <1>0, <1>4, <1>5, <1>6
  <1> QED
    BY <1>7 DEF r

LEMMA AimShotsUpdated ==
  ASSUME NEW z, AimShots(z), NEW s, NEW bad PROVE AimShots(Aim!Updated(z, s, bad))
  <1> DEFINE p == Aim!Polled(z, "attack", bad)
             r == Aim!Updated(z, s, bad)
  <1>1. AimShots(p)
    BY AimShotsPolled
  <1>2. \/ r = Aim!Reset(p, s.busy, bad) \/ r = Aim!Unarmed(p, s.busy, bad)
        \/ r = Aim!Paused(p, s.busy, bad) \/ r = Aim!Armed(p, s, bad)
    BY DEF Aim!Updated
  <1> HIDE DEF p, r
  <1>3. AimShots(r)
    BY <1>1, <1>2, AimShotsReset, AimShotsUnarmed, AimShotsPaused, AimShotsArmed
  <1> QED
    BY <1>3 DEF r

\* The calls that the game's thread makes are not shots.
LEMMA AimShotsDone ==
  ASSUME NEW z, AimShots(z), NEW call, Aim!Done(z, call) PROVE AimShots(state')
  <1> DEFINE a == [z.calls EXCEPT ![call] = "done"]
             b == z.strays \ {call}
  <1>1. state' = [z EXCEPT !.calls = a] \/ state' = [z EXCEPT !.strays = b]
    BY DEF Aim!Done
  <1> HIDE DEF a, b
  <1> QED
    BY <1>1 DEF AimShots, AimFields

LEMMA AimShotsReleaseAim ==
  ASSUME NEW z, AimShots(z) PROVE AimShots(Aim!ReleaseAim(z))
  <1> DEFINE a == IF z.actor # NoPlayer /\ z.actor = player
                  THEN [z.force EXCEPT ![player] = z.previous] ELSE z.force
             t == [z EXCEPT !.actor = NoPlayer, !.force = a]
  <1>1. Aim!ReleaseAim(z) = t
    BY DEF Aim!ReleaseAim
  <1> HIDE DEF a
  <1>2. AimShots(t)
    BY DEF AimShots, AimFields
  <1> QED
    BY <1>1, <1>2

LEMMA AimShotsForceAim ==
  ASSUME NEW z, AimShots(z), NEW who PROVE AimShots(Aim!ForceAim(z, who))
  <1> DEFINE a == IF z.actor = NoPlayer THEN who ELSE z.actor
             b == IF z.actor = NoPlayer THEN z.force[who] ELSE z.previous
             f == [z.force EXCEPT ![who] = "ours"]
             t == [z EXCEPT !.actor = a, !.previous = b, !.force = f]
  <1>1. Aim!ForceAim(z, who) = t
    BY DEF Aim!ForceAim
  <1> HIDE DEF a, b, f
  <1>2. AimShots(t)
    BY DEF AimShots, AimFields
  <1> QED
    BY <1>1, <1>2

LEMMA AimShotsThread == ASSUME AimShots(state), Aim!GameThread PROVE AimShots(state')
  <1>1. CASE Aim!Begin
    <2>1. CASE state' = [state EXCEPT !.making = state.requested]
      BY <2>1 DEF AimShots, AimFields
    <2>2. CASE Aim!Done([state EXCEPT !.prepared = Aim!NoRequest], "prepare")
      <3>1. AimShots([state EXCEPT !.prepared = Aim!NoRequest])
        BY DEF AimShots, AimFields
      <3> QED
        BY <2>2, <3>1, AimShotsDone
    <2> QED
      BY <1>1, <2>1, <2>2 DEF Aim!Begin
  <1>2. CASE Aim!Done(Aim!ReleaseAim(state), "release") \/ Aim!Done(state, "attack")
    BY <1>2, AimShotsDone, AimShotsReleaseAim
  <1>3. ASSUME NEW found \in BOOLEAN, Aim!Prepare(found) PROVE AimShots(state')
    <2> DEFINE want == state.making
               forced == IF want.automatic THEN Aim!ForceAim(state, want.who) ELSE Aim!ReleaseAim(state)
               ready == found /\ Aim!Same(want, state.requested)
               to == IF ready THEN want ELSE Aim!NoRequest
               t == [forced EXCEPT !.making = Aim!NoRequest, !.prepared = to]
    <2>1. AimShots(forced)
      BY AimShotsForceAim, AimShotsReleaseAim
    <2>2. Aim!Done(t, "prepare")
      BY <1>3 DEF Aim!Prepare
    <2> HIDE DEF forced, to
    <2>3. AimShots(t)
      BY <2>1 DEF AimShots, AimFields
    <2> HIDE DEF t
    <2> QED
      BY <2>2, <2>3, AimShotsDone
  <1> QED
    BY <1>1, <1>2, <1>3 DEF Aim!GameThread

LEMMA AimBooksStep == AimBooks /\ [Aim!Next]_all => AimBooks'
  <1> SUFFICES ASSUME AimShots(state), [Aim!Next]_all PROVE AimShots(state')
    BY DEF AimBooks
  <1>1. CASE Aim!Live
    BY <1>1 DEF Aim!Live, AimShots, AimFields
  <1>2. CASE Aim!Take
    <2>1. PICK w : state' = [state EXCEPT !.hand = w]
      BY <1>2 DEF Aim!Take
    <2> QED
      BY <2>1 DEF AimShots, AimFields
  <1>3. CASE Aim!Set
    <2>1. PICK o : state' = [state EXCEPT !.options = o]
      BY <1>3 DEF Aim!Set
    <2> QED
      BY <2>1 DEF AimShots, AimFields
  <1>4. CASE Aim!Expire
    <2> DEFINE q == [state.requested EXCEPT !.fresh = FALSE]
    <2>1. state' = [state EXCEPT !.requested = q] \/ state' = [state EXCEPT !.prepared = Aim!NoRequest]
      BY <1>4 DEF Aim!Expire
    <2> HIDE DEF q
    <2> QED
      BY <2>1 DEF AimShots, AimFields
  <1>5. CASE Aim!GameThread
    BY <1>5, AimShotsThread
  <1>6. CASE Aim!Frame
    <2>1. PICK s, bad, x : state' = [Aim!Updated(state, s, bad) EXCEPT !.caught = x]
      BY <1>6 DEF Aim!Frame
    <2> DEFINE u == Aim!Updated(state, s, bad)
    <2>2. AimShots(u)
      BY AimShotsUpdated
    <2> HIDE DEF u
    <2>3. state' = [u EXCEPT !.caught = x]
      BY <2>1 DEF u
    <2> QED
      BY <2>2, <2>3 DEF AimShots, AimFields
  <1>7. CASE UNCHANGED all
    BY <1>7 DEF all, AimShots
  <1> QED
    BY <1>1, <1>2, <1>3, <1>4, <1>5, <1>6, <1>7 DEF Aim!Next

-----------------------------------------------------------------------------
(* ModelScreens: what a pass sets of OpenGL it gives back, but for factors that the game has
   of its own for alpha. *)

Screen == INSTANCE ModelScreens WITH screen <- state, MaxRequests <- FewRequests, MaxFaults <- FewFaults, Players <- Persons, Ids <- Things, Sizes <- {1, 2}, Natives <- {"fill"}

ScreenFields ==
  {"mod", "on", "separate", "own", "world", "shown", "size", "detected", "ready", "active",
   "valid", "helper", "published", "coloured", "fresh", "last", "missed", "late", "targets",
   "gl", "stray", "misfit", "spoilt", "wrong"}

ScreenGood(c) ==
  /\ DOMAIN c = ScreenFields /\ DOMAIN c.gl = Screen!Groups
  /\ \A g \in Screen!Groups : c.gl[g] = "game" \/ (g = "alpha factors" /\ c.separate)

ScreenInv == ScreenGood(state)

LEMMA ScreenInit == Screen!Init => ScreenInv
  <1> SUFFICES ASSUME Screen!Init PROVE ScreenInv
    OBVIOUS
  <1>1. DOMAIN state = ScreenFields /\ state.gl = Screen!AllGame
    BY DEF Screen!Init, ScreenFields
  <1> QED
    BY <1>1 DEF ScreenInv, ScreenGood, Screen!AllGame

\* What leaves OpenGL alone.
ScreenLike(t, c) == DOMAIN t = ScreenFields /\ t.gl = c.gl /\ t.separate = c.separate

LEMMA ScreenSame ==
  ASSUME NEW c, NEW t, ScreenGood(c), ScreenLike(t, c)
  PROVE  ScreenGood(t)
  BY DEF ScreenGood, ScreenLike

LEMMA ScreenFrame ==
  ASSUME NEW c, DOMAIN c = ScreenFields
  PROVE  /\ \A works, camera : ScreenLike(Screen!Refreshed(c, works, camera), c)
         /\ \A read : ScreenLike(Screen!Aimed(c, read), c)
         /\ ScreenLike(Screen!Settled(c), c)
         /\ \A helper, works : ScreenLike(Screen!Published(c, helper, works), c)
  <1>1. \A works : ScreenLike(Screen!Found(c, works), c)
    <2> TAKE works
    <2> DEFINE ready == c.mod = "whole"
               f == [c EXCEPT !.detected = TRUE, !.ready = ready]
    <2>1. Screen!Found(c, works) \in {c, f}
      BY DEF Screen!Found
    <2> HIDE DEF ready
    <2>2. ScreenLike(f, c) /\ ScreenLike(c, c)
      BY DEF ScreenLike, ScreenFields
    <2> QED
      BY <2>1, <2>2
  <1>2. ASSUME NEW works, NEW camera PROVE ScreenLike(Screen!Refreshed(c, works, camera), c)
    <2> DEFINE found == Screen!Found(c, works # "none")
               blank == [found EXCEPT !.active = FALSE, !.valid = FALSE]
               valid == c.on /\ camera /\ works = "all"
               seen == [blank EXCEPT !.active = c.on, !.valid = valid]
    <2>1. Screen!Refreshed(c, works, camera) \in {blank, seen}
      BY DEF Screen!Refreshed
    <2>2. ScreenLike(found, c)
      BY <1>1
    <2> HIDE DEF found, valid
    <2>3. ScreenLike(blank, c)
      BY <2>2 DEF ScreenLike, ScreenFields
    <2> HIDE DEF blank
    <2>4. ScreenLike(seen, c)
      BY <2>3 DEF ScreenLike, ScreenFields
    <2> QED
      BY <2>1, <2>3, <2>4
  <1>3. ASSUME NEW read PROVE ScreenLike(Screen!Aimed(c, read), c)
    <2> DEFINE late == c.late \/ (Screen!CanUseViewpoint3D(c) /\ ~read)
    <2>1. Screen!Aimed(c, read) = [c EXCEPT !.late = late, !.last = {}, !.missed = FALSE]
      BY DEF Screen!Aimed
    <2> HIDE DEF late
    <2> QED
      BY <2>1 DEF ScreenLike, ScreenFields
  <1>4. ScreenLike(Screen!Settled(c), c)
    <2> DEFINE published == IF c.helper = "none" THEN c.published ELSE {}
               fresh == IF c.helper = "none" THEN c.fresh ELSE FALSE
               cleared == [c EXCEPT !.published = published, !.fresh = fresh]
    <2>1. Screen!Settled(c) \in {c, cleared}
      BY DEF Screen!Settled, Screen!Cleared
    <2> HIDE DEF published, fresh
    <2>2. ScreenLike(cleared, c) /\ ScreenLike(c, c)
      BY DEF ScreenLike, ScreenFields
    <2> QED
      BY <2>1, <2>2
  <1>5. ASSUME NEW helper, NEW works PROVE ScreenLike(Screen!Published(c, helper, works), c)
    <2> DEFINE h == IF c.helper = "ready" \/ helper = "none" THEN c.helper ELSE helper
               hooked == [c EXCEPT !.helper = h]
               wanted == {o \in c.world : o[2] \in c.shown}
               told == [hooked EXCEPT !.published = c.world, !.coloured = c.shown, !.fresh = TRUE, !.last = wanted]
               missed == [hooked EXCEPT !.last = wanted, !.missed = TRUE]
    <2>1. Screen!Published(c, helper, works) \in {told, missed}
      BY DEF Screen!Published, Screen!Hooked
    <2> HIDE DEF h, wanted
    <2>2. ScreenLike(told, c) /\ ScreenLike(missed, c)
      BY DEF ScreenLike, ScreenFields
    <2> QED
      BY <2>1, <2>2
  <1> QED
    BY <1>2, <1>3, <1>4, <1>5

\* During a replay: the target, and what its passes alone set, are the game's between them.
ScreenBetween(t, c) ==
  /\ DOMAIN t = ScreenFields /\ DOMAIN t.gl = Screen!Groups /\ t.separate = c.separate
  /\ t.gl["target"] = "game" /\ t.gl["clear"] = "game" /\ t.gl["mask"] = "game"

LEMMA ScreenPassed ==
  ASSUME NEW c, NEW t, ScreenBetween(t, c), NEW p, NEW works
  PROVE  ScreenBetween(Screen!Passed(t, p, works), c)
  <1> DEFINE begun == Screen!Begun(t, p, works)
  <1>1. /\ DOMAIN begun = ScreenFields /\ begun.separate = t.separate
        /\ begun.gl["target"] # "pass" => begun.gl = t.gl
    <2> DEFINE target == t.targets[p]
               sized == Screen!Resized([target EXCEPT !.program = "built"], t.size, works # "size")
               failed == [t EXCEPT !.targets[p].program = "failed"]
               spoilt == [t EXCEPT !.targets[p] = sized, !.spoilt = TRUE]
               gl == Screen!SetBy(t.gl, Screen!Held, "pass")
               open == [t EXCEPT !.targets[p] = sized, !.gl = gl]
    <2>1. begun \in {failed, spoilt, open}
      BY DEF Screen!Begun
    <2>2. gl["target"] = "pass"
      BY DEF Screen!SetBy, Screen!Held, Screen!Groups
    <2> HIDE DEF begun, target, sized, gl
    <2>3. /\ DOMAIN failed = ScreenFields /\ failed.gl = t.gl /\ failed.separate = t.separate
          /\ DOMAIN spoilt = ScreenFields /\ spoilt.gl = t.gl /\ spoilt.separate = t.separate
          /\ DOMAIN open = ScreenFields /\ open.gl = gl /\ open.separate = t.separate
      BY DEF ScreenBetween, ScreenFields
    <2> QED
      BY <2>1, <2>2, <2>3
  <1> DEFINE stray == begun.stray \/ begun.gl["target"] # "pass"
             painted == Screen!SetBy(begun.gl, {"program", "vertices", "unit", "textures"}, "replay")
             drawn == Screen!Drawn(begun, "replay")
             back == Screen!Back(drawn.gl, Screen!Held, t.gl)
             ended == Screen!Ended(drawn, t.gl)
             done == Screen!Composited(ended, p)
  <1>2. drawn = [begun EXCEPT !.stray = stray, !.gl = painted]
    BY DEF Screen!Drawn
  <1>3. /\ DOMAIN back = Screen!Groups
        /\ back["target"] = t.gl["target"] /\ back["clear"] = t.gl["clear"] /\ back["mask"] = t.gl["mask"]
    BY DEF Screen!Back, Screen!Held, Screen!Groups
  <1>4. ended = [drawn EXCEPT !.gl = back]
    BY DEF Screen!Ended
  <1>5. Screen!Passed(t, p, works) = IF begun.gl["target"] # "pass" THEN begun ELSE done
    BY DEF Screen!Passed
  <1> HIDE DEF begun, stray, painted, drawn
  <1>6. DOMAIN drawn = ScreenFields /\ drawn.separate = t.separate
    BY <1>1, <1>2 DEF ScreenFields
  <1> HIDE DEF back, ended
  <1>7. DOMAIN ended = ScreenFields /\ ended.gl = back /\ ended.separate = t.separate
    BY <1>4, <1>6 DEF ScreenFields
  <1>8. DOMAIN done = ScreenFields /\ done.gl = back /\ done.separate = t.separate
    <2> DEFINE misfit == ended.misfit \/ ended.targets[p].real # ended.size
    <2>1. done = ended \/ done = [ended EXCEPT !.misfit = misfit]
      BY DEF Screen!Composited
    <2> HIDE DEF misfit, done
    <2> QED
      BY <1>7, <2>1 DEF ScreenFields
  <1> HIDE DEF done
  <1> QED
    BY <1>1, <1>3, <1>5, <1>8 DEF ScreenBetween

LEMMA ScreenReplayed ==
  ASSUME NEW c, ScreenGood(c), NEW passes, NEW bad, NEW how
  PROVE  ScreenGood(Screen!Replayed(c, passes, bad, how))
  <1> DEFINE own == {"tests", "blend", "factors", "alpha factors", "depth", "cull", "scissor"}
             gl == Screen!SetBy(Screen!AllGame, own, "replay")
             set == [c EXCEPT !.gl = gl]
             pass(d, p) == IF p \in passes THEN Screen!Passed(d, p, IF p \in bad THEN how ELSE "all") ELSE d
             last == pass(pass(pass(set, "self"), "fill"), "edge")
             kept == {"target", "clear", "mask"} \cup (IF last.separate THEN {"alpha factors"} ELSE {})
             back == Screen!Back(last.gl, Screen!Groups \ kept, Screen!AllGame)
             given == Screen!GivenBack(last)
  <1>1. Screen!Replayed(c, passes, bad, how) = given
    BY DEF Screen!Replayed
  <1>2. ScreenBetween(set, c)
    <2>1. DOMAIN gl = Screen!Groups /\ gl["target"] = "game" /\ gl["clear"] = "game" /\ gl["mask"] = "game"
      BY DEF Screen!SetBy, Screen!AllGame, Screen!Groups
    <2> HIDE DEF gl
    <2>2. DOMAIN set = ScreenFields /\ set.gl = gl /\ set.separate = c.separate
      BY DEF ScreenGood, ScreenFields
    <2> QED
      BY <2>1, <2>2 DEF ScreenBetween
  <1>3. \A d, p : ScreenBetween(d, c) => ScreenBetween(pass(d, p), c)
    BY ScreenPassed
  <1> HIDE DEF set, pass
  <1>4. ScreenBetween(last, c)
    BY <1>2, <1>3
  <1> HIDE DEF last
  <1>5. given = [last EXCEPT !.gl = back]
    BY DEF Screen!GivenBack
  <1>6. DOMAIN back = Screen!Groups /\ \A g \in Screen!Groups : back[g] = "game" \/ (g = "alpha factors" /\ last.separate)
    BY <1>4 DEF Screen!Back, Screen!AllGame, ScreenBetween
  <1> HIDE DEF back, given
  <1>7. DOMAIN given = ScreenFields /\ given.gl = back /\ given.separate = last.separate
    BY <1>4, <1>5 DEF ScreenBetween, ScreenFields
  <1> QED
    BY <1>1, <1>6, <1>7 DEF ScreenGood

\* The mod's frame gives all back, or has not touched anything.
LEMMA ScreenRendered ==
  ASSUME NEW c, ScreenGood(c), NEW works
  PROVE  ScreenGood(Screen!Rendered(c, works))
  <1> DEFINE touched == [c EXCEPT !.gl = Screen!SetBy(Screen!AllGame, {"unit", "tests"}, "pass")]
             open == Screen!Opened(touched, works)
             done == Screen!Composited(Screen!Drawn(open, "pass"), "viewpoint")
             wrong == done.wrong \/ \E o \in Screen!Selected(c) : ~Screen!Right(c, o)
             over == [done EXCEPT !.wrong = wrong]
  <1>1. DOMAIN touched = ScreenFields
    BY DEF ScreenGood, ScreenFields
  <1>2. DOMAIN open = ScreenFields
    <2> HIDE DEF touched
    <2> QED
      BY <1>1 DEF Screen!Opened, ScreenFields
  <1>3. \A t : DOMAIN t = ScreenFields => ScreenGood(Screen!Restored(t, works))
    BY DEF Screen!Restored, Screen!AllGame, ScreenGood, ScreenFields
  <1>4. Screen!Rendered(c, works) \in {c, Screen!Restored(open, works), Screen!Restored(over, works)}
    BY DEF Screen!Rendered
  <1> HIDE DEF open
  <1>5. DOMAIN done = ScreenFields
    BY <1>2 DEF Screen!Drawn, Screen!Composited, ScreenFields
  <1> HIDE DEF done, wrong
  <1>6. DOMAIN over = ScreenFields
    BY <1>5 DEF ScreenFields
  <1> QED
    BY <1>2, <1>3, <1>4, <1>6

LEMMA ScreenStep == ScreenInv /\ [Screen!Next]_all => ScreenInv'
  <1> SUFFICES ASSUME ScreenGood(state), [Screen!Next]_all PROVE ScreenGood(state')
    BY DEF ScreenInv, ScreenGood, ScreenFields, Screen!Groups
  <1>0. DOMAIN state = ScreenFields
    BY DEF ScreenGood
  <1>1. CASE Screen!Live \/ Screen!View \/ Screen!Resize \/ Screen!Switch \/ Screen!Expire
             \/ (\E o \in Screen!Objects : Screen!Become(o))
             \/ (\E mod \in {"partial", "whole"} : Screen!Load(mod))
    <2>1. \E v : \/ state' = [state EXCEPT !.world = v] \/ state' = [state EXCEPT !.on = v]
                 \/ state' = [state EXCEPT !.size = v] \/ state' = [state EXCEPT !.shown = v]
                 \/ state' = [state EXCEPT !.fresh = v] \/ state' = [state EXCEPT !.mod = v]
      BY <1>1 DEF Screen!Live, Screen!View, Screen!Resize, Screen!Switch, Screen!Expire, Screen!Become, Screen!Load
    <2>2. ScreenLike(state', state)
      BY <1>0, <2>1 DEF ScreenLike, ScreenFields
    <2> QED
      BY <2>2, ScreenSame
  <1>2. CASE Screen!Frame
    <2>1. PICK works \in {"none", "on", "all"}, camera \in BOOLEAN :
            LET read == works = "all" /\ state.on /\ camera
                seen == Screen!Settled(Screen!Aimed(Screen!Refreshed(state, works, camera), read)) IN
            \/ \E helper \in Screen!Helpers, says \in BOOLEAN : state' = Screen!Published(seen, helper, says)
            \/ \E passes, how, bad : state' = Screen!Replayed(seen, passes, bad, how)
            \/ state' = seen
      BY <1>2 DEF Screen!Frame
    <2> DEFINE read == works = "all" /\ state.on /\ camera
               refreshed == Screen!Refreshed(state, works, camera)
               aimed == Screen!Aimed(refreshed, read)
               seen == Screen!Settled(aimed)
    <2>2. ScreenLike(refreshed, state)
      BY <1>0, ScreenFrame
    <2> HIDE DEF refreshed
    <2>3. ScreenLike(aimed, refreshed)
      BY <2>2, ScreenFrame DEF ScreenLike
    <2> HIDE DEF aimed
    <2>4. ScreenLike(seen, aimed)
      BY <2>3, ScreenFrame DEF ScreenLike
    <2>5. ScreenLike(seen, state)
      BY <2>2, <2>3, <2>4 DEF ScreenLike
    <2>6. \/ \E helper, says : state' = Screen!Published(seen, helper, says)
          \/ \E passes, how, bad : state' = Screen!Replayed(seen, passes, bad, how)
          \/ state' = seen
      BY <2>1 DEF aimed, refreshed
    <2> HIDE DEF seen
    <2>7. ScreenGood(seen) /\ DOMAIN seen = ScreenFields
      BY <2>5, ScreenSame DEF ScreenLike
    <2> QED
      BY <2>6, <2>7, ScreenFrame, ScreenReplayed, ScreenSame
  <1>3. CASE Screen!ViewpointFrame
    BY <1>3, ScreenRendered DEF Screen!ViewpointFrame
  <1>4. CASE UNCHANGED all
    BY <1>4 DEF all
  <1> QED
    BY <1>1, <1>2, <1>3, <1>4 DEF Screen!Next

LEMMA ScreenKept == ScreenInv => Screen!GameStateIsBack
  BY DEF ScreenInv, ScreenGood, Screen!GameStateIsBack

-----------------------------------------------------------------------------
(* ModelScreens: models are drawn into targets of the right size, and those that were listed. *)

\* A target has the size it is believed to have, unless one could not be made.
ScreenSized(t, spoilt) == DOMAIN t = {"program", "size", "real"} /\ (t.real = t.size \/ spoilt)

ScreenDraws(c) ==
  /\ DOMAIN c = ScreenFields
  /\ c.stray = FALSE /\ c.misfit \in BOOLEAN /\ c.spoilt \in BOOLEAN /\ (c.misfit => c.spoilt)
  /\ DOMAIN c.targets = Screen!Passes
  /\ \A p \in Screen!Passes : ScreenSized(c.targets[p], c.spoilt)

\* What is published was listed in the last frame, as long as it is fresh.
ScreenLists(c) ==
  /\ DOMAIN c = ScreenFields
  /\ c.late = FALSE /\ c.wrong = FALSE
  /\ c.shown \subseteq Screen!Kinds /\ c.coloured \subseteq Screen!Kinds
  /\ c.helper = "none" => ~c.fresh
  /\ c.fresh => c.missed \/ \A o \in c.published : o[2] \in c.coloured => o \in c.last

ScreenBooks == ScreenDraws(state) /\ ScreenLists(state)

\* What leaves the targets alone, and what the lists.
ScreenAside(t, c) ==
  /\ DOMAIN t = ScreenFields /\ t.stray = c.stray /\ t.misfit = c.misfit /\ t.spoilt = c.spoilt
  /\ t.targets = c.targets

ScreenUnlisted(t, c) ==
  /\ DOMAIN t = ScreenFields /\ t.late = c.late /\ t.wrong = c.wrong /\ t.shown = c.shown
  /\ t.coloured = c.coloured /\ t.helper = c.helper /\ t.fresh = c.fresh /\ t.missed = c.missed
  /\ t.published = c.published /\ t.last = c.last

LEMMA ScreenBooksInit == Screen!Init => ScreenBooks
  <1> SUFFICES ASSUME Screen!Init PROVE ScreenBooks
    OBVIOUS
  <1>1. /\ DOMAIN state = ScreenFields /\ state.stray = FALSE /\ state.misfit = FALSE /\ state.spoilt = FALSE
        /\ state.late = FALSE /\ state.wrong = FALSE /\ state.fresh = FALSE
        /\ state.shown = Screen!Kinds /\ state.coloured = {}
        /\ state.targets = [p \in Screen!Passes |-> Screen!NoTarget]
    BY DEF Screen!Init, ScreenFields
  <1>2. ScreenSized(Screen!NoTarget, FALSE)
    BY DEF ScreenSized, Screen!NoTarget
  <1> QED
    BY <1>1, <1>2 DEF ScreenBooks, ScreenDraws, ScreenLists

LEMMA ScreenStays ==
  ASSUME NEW c, NEW t
  PROVE  /\ ScreenDraws(c) /\ ScreenAside(t, c) => ScreenDraws(t)
         /\ ScreenLists(c) /\ ScreenUnlisted(t, c) => ScreenLists(t)
  BY DEF ScreenDraws, ScreenAside, ScreenLists, ScreenUnlisted

-----------------------------------------------------------------------------
(* The targets. *)

\* A target is of the size of the window when it is used.
LEMMA ScreenResizes ==
  ASSUME NEW t, NEW spoilt \in BOOLEAN, ScreenSized(t, spoilt), NEW size, NEW whole,
         NEW r, r = Screen!Resized([t EXCEPT !.program = "built"], size, whole)
  PROVE  /\ DOMAIN r = {"program", "size", "real"}
         /\ r.size = size => r.real = size \/ spoilt
  BY DEF ScreenSized, Screen!Resized

LEMMA ScreenPut ==
  ASSUME NEW c, ScreenDraws(c), NEW p \in Screen!Passes, NEW r, NEW t, DOMAIN t = ScreenFields,
         t.targets = [c.targets EXCEPT ![p] = r], t.stray = c.stray, t.misfit = c.misfit,
         t.spoilt \in BOOLEAN, c.spoilt => t.spoilt, ScreenSized(r, t.spoilt)
  PROVE  ScreenDraws(t) /\ t.targets[p] = r
  <1>1. DOMAIN c.targets = Screen!Passes
    BY DEF ScreenDraws
  <1>2. DOMAIN t.targets = Screen!Passes /\ t.targets[p] = r /\ \A q \in Screen!Passes \ {p} : t.targets[q] = c.targets[q]
    BY <1>1
  <1>3. \A q \in Screen!Passes : ScreenSized(t.targets[q], t.spoilt)
    BY <1>2 DEF ScreenDraws, ScreenSized
  <1> QED
    BY <1>2, <1>3 DEF ScreenDraws

\* What is drawn is drawn into a target, which is put onto the picture if it has its size.
LEMMA ScreenPaints ==
  ASSUME NEW c, ScreenDraws(c), c.gl["target"] = "pass", NEW p \in Screen!Passes, c.targets[p].real = c.size \/ c.spoilt,
         NEW who, NEW saved
  PROVE  /\ ScreenDraws(Screen!Composited(Screen!Ended(Screen!Drawn(c, who), saved), p))
         /\ ScreenDraws(Screen!Composited(Screen!Drawn(c, who), p))
         /\ Screen!Composited(Screen!Ended(Screen!Drawn(c, who), saved), p).gl["target"] = saved["target"]
         /\ Screen!Composited(Screen!Ended(Screen!Drawn(c, who), saved), p).size = c.size
  <1> DEFINE d == Screen!Drawn(c, who)
             e == Screen!Ended(d, saved)
  <1>1. /\ DOMAIN d = ScreenFields /\ d.stray = FALSE /\ d.misfit = c.misfit /\ d.spoilt = c.spoilt
        /\ d.targets = c.targets /\ d.size = c.size
    <2> DEFINE stray == c.stray \/ c.gl["target"] # "pass"
               gl == Screen!SetBy(c.gl, {"program", "vertices", "unit", "textures"}, who)
    <2>1. d = [c EXCEPT !.stray = stray, !.gl = gl]
      BY DEF Screen!Drawn, ScreenDraws, ScreenFields
    <2>2. stray = FALSE
      BY DEF ScreenDraws
    <2> HIDE DEF stray, gl, d
    <2> QED
      BY <2>1, <2>2 DEF ScreenDraws, ScreenFields
  <1> HIDE DEF d
  <1>2. /\ DOMAIN e = ScreenFields /\ e.stray = FALSE /\ e.misfit = c.misfit /\ e.spoilt = c.spoilt
        /\ e.targets = c.targets /\ e.size = c.size /\ e.gl["target"] = saved["target"]
    <2> DEFINE gl == Screen!Back(d.gl, Screen!Held, saved)
    <2>1. e = [d EXCEPT !.gl = gl]
      BY <1>1 DEF Screen!Ended, ScreenFields
    <2>2. gl["target"] = saved["target"]
      BY DEF Screen!Back, Screen!Held, Screen!Groups
    <2> HIDE DEF gl, e
    <2> QED
      BY <1>1, <2>1, <2>2 DEF ScreenFields
  <1> HIDE DEF e
  <1>3. ASSUME NEW r, DOMAIN r = ScreenFields, r.stray = FALSE, r.misfit = c.misfit, r.spoilt = c.spoilt,
               r.targets = c.targets, r.size = c.size
        PROVE  /\ ScreenDraws(Screen!Composited(r, p)) /\ Screen!Composited(r, p).gl = r.gl
               /\ Screen!Composited(r, p).size = r.size
    <2> DEFINE misfit == r.misfit \/ r.targets[p].real # r.size
               t == [r EXCEPT !.misfit = misfit]
    <2>1. Screen!Composited(r, p) \in {r, t}
      BY <1>3 DEF Screen!Composited, ScreenFields
    <2>2. misfit \in BOOLEAN /\ (misfit => c.spoilt)
      BY <1>3 DEF ScreenDraws
    <2> HIDE DEF misfit
    <2>3. /\ DOMAIN t = ScreenFields /\ t.stray = FALSE /\ t.misfit = misfit /\ t.spoilt = c.spoilt
          /\ t.targets = c.targets /\ t.size = r.size /\ t.gl = r.gl
      BY <1>3 DEF ScreenFields
    <2> HIDE DEF t
    <2>4. ScreenDraws(t)
      BY <2>2, <2>3 DEF ScreenDraws
    <2>5. ScreenDraws(r)
      BY <1>3 DEF ScreenDraws
    <2> QED
      BY <2>1, <2>3, <2>4, <2>5
  <1>4. ScreenDraws(Screen!Composited(d, p))
    BY <1>1, <1>3
  <1>5. /\ ScreenDraws(Screen!Composited(e, p)) /\ Screen!Composited(e, p).gl = e.gl
        /\ Screen!Composited(e, p).size = e.size
    BY <1>2, <1>3
  <1> QED
    BY <1>2, <1>4, <1>5 DEF d, e

LEMMA ScreenBegins ==
  ASSUME NEW c, ScreenDraws(c), c.gl["target"] # "pass", NEW p \in Screen!Passes, NEW works,
         NEW t, t = Screen!Begun(c, p, works)
  PROVE  /\ ScreenDraws(t) /\ t.size = c.size
         /\ t.gl["target"] = "pass" => t.targets[p].real = t.size \/ t.spoilt
  <1> DEFINE o == c.targets[p]
             r == Screen!Resized([o EXCEPT !.program = "built"], c.size, works # "size")
             gl == Screen!SetBy(c.gl, Screen!Held, "pass")
             f == [o EXCEPT !.program = "failed"]
             t1 == [c EXCEPT !.targets[p] = f]
             t2 == [c EXCEPT !.targets[p] = r, !.spoilt = TRUE]
             t3 == [c EXCEPT !.targets[p] = r, !.gl = gl]
  <1>0. DOMAIN c = ScreenFields /\ DOMAIN c.targets = Screen!Passes /\ ScreenSized(o, c.spoilt) /\ c.spoilt \in BOOLEAN
    BY DEF ScreenDraws
  <1>1. \/ t = t1
        \/ t = t2
        \/ t = t3 /\ r.size = c.size
    BY <1>0 DEF Screen!Begun, ScreenFields
  <1>2. DOMAIN r = {"program", "size", "real"} /\ (r.size = c.size => r.real = c.size \/ c.spoilt)
    BY <1>0, ScreenResizes
  <1>3. ScreenSized(f, c.spoilt)
    BY <1>0 DEF ScreenSized
  <1> HIDE DEF o, r, gl, f
  <1>4. ScreenDraws(t1) /\ t1.size = c.size /\ t1.gl = c.gl
    <2>1. /\ DOMAIN t1 = ScreenFields /\ t1.targets = [c.targets EXCEPT ![p] = f] /\ t1.stray = c.stray
          /\ t1.misfit = c.misfit /\ t1.spoilt = c.spoilt /\ t1.size = c.size /\ t1.gl = c.gl
      BY <1>0 DEF ScreenFields
    <2> HIDE DEF t1
    <2> QED
      BY <1>0, <1>3, <2>1, ScreenPut
  <1>5. ScreenDraws(t2) /\ t2.size = c.size /\ t2.gl = c.gl
    <2>1. ScreenSized(r, TRUE)
      BY <1>2 DEF ScreenSized
    <2>2. /\ DOMAIN t2 = ScreenFields /\ t2.targets = [c.targets EXCEPT ![p] = r] /\ t2.stray = c.stray
          /\ t2.misfit = c.misfit /\ t2.spoilt = TRUE /\ t2.size = c.size /\ t2.gl = c.gl
      BY <1>0 DEF ScreenFields
    <2> HIDE DEF t2
    <2> QED
      BY <1>0, <2>1, <2>2, ScreenPut
  <1>6. ASSUME r.size = c.size
        PROVE  ScreenDraws(t3) /\ t3.size = c.size /\ (t3.targets[p].real = t3.size \/ t3.spoilt)
    <2>1. ScreenSized(r, c.spoilt)
      BY <1>2, <1>6 DEF ScreenSized
    <2>2. /\ DOMAIN t3 = ScreenFields /\ t3.targets = [c.targets EXCEPT ![p] = r] /\ t3.stray = c.stray
          /\ t3.misfit = c.misfit /\ t3.spoilt = c.spoilt /\ t3.size = c.size
      BY <1>0 DEF ScreenFields
    <2> HIDE DEF t3
    <2>3. ScreenDraws(t3) /\ t3.targets[p] = r
      BY <1>0, <2>1, <2>2, ScreenPut
    <2> QED
      BY <1>2, <1>6, <2>2, <2>3
  <1> HIDE DEF t1, t2, t3
  <1> QED
    BY <1>1, <1>4, <1>5, <1>6

LEMMA ScreenPasses ==
  ASSUME NEW c, ScreenDraws(c), c.gl["target"] # "pass", NEW p \in Screen!Passes, NEW works,
         NEW t, t = Screen!Passed(c, p, works)
  PROVE  ScreenDraws(t) /\ t.gl["target"] # "pass"
  <1> DEFINE b == Screen!Begun(c, p, works)
             e == Screen!Composited(Screen!Ended(Screen!Drawn(b, "replay"), c.gl), p)
  <1>1. t = IF b.gl["target"] # "pass" THEN b ELSE e
    BY DEF Screen!Passed
  <1>2. ScreenDraws(b) /\ (b.gl["target"] = "pass" => b.targets[p].real = b.size \/ b.spoilt)
    BY ScreenBegins
  <1> HIDE DEF b
  <1>3. b.gl["target"] = "pass" => ScreenDraws(e) /\ e.gl["target"] = c.gl["target"]
    BY <1>2, ScreenPaints
  <1> HIDE DEF e
  <1> QED
    BY <1>1, <1>2, <1>3

LEMMA ScreenReplays ==
  ASSUME NEW c, ScreenDraws(c), NEW passes \in SUBSET {"fill"}, NEW bad, NEW how
  PROVE  ScreenDraws(Screen!Replayed(c, passes, bad, how))
  <1> DEFINE own == {"tests", "blend", "factors", "alpha factors", "depth", "cull", "scissor"}
             gl == Screen!SetBy(Screen!AllGame, own, "replay")
             set == [c EXCEPT !.gl = gl]
             pass(d, p) == IF p \in passes THEN Screen!Passed(d, p, IF p \in bad THEN how ELSE "all") ELSE d
  <1>1. gl["target"] = "game"
    BY DEF Screen!SetBy, Screen!AllGame, Screen!Groups
  <1>2. ScreenDraws(set) /\ set.gl["target"] # "pass"
    <2> HIDE DEF gl
    <2>1. ScreenAside(set, c) /\ set.gl = gl
      BY DEF ScreenAside, ScreenDraws, ScreenFields
    <2> QED
      BY <1>1, <2>1, ScreenStays
  <1>3. ASSUME NEW d, ScreenDraws(d), d.gl["target"] # "pass", NEW p
        PROVE  ScreenDraws(pass(d, p)) /\ pass(d, p).gl["target"] # "pass"
    <2>1. p \in passes => p \in Screen!Passes
      BY DEF Screen!Passes
    <2> QED
      BY <1>3, <2>1, ScreenPasses
  <1>4. Screen!Replayed(c, passes, bad, how) = Screen!GivenBack(pass(pass(pass(set, "self"), "fill"), "edge"))
    BY DEF Screen!Replayed
  <1> HIDE DEF pass, set
  <1> DEFINE r == pass(pass(pass(set, "self"), "fill"), "edge")
  <1>5. ScreenDraws(r)
    BY <1>2, <1>3
  <1> HIDE DEF r
  <1>6. ScreenDraws(Screen!GivenBack(r))
    <2> DEFINE kept == {"target", "clear", "mask"} \cup (IF r.separate THEN {"alpha factors"} ELSE {})
               back == Screen!Back(r.gl, Screen!Groups \ kept, Screen!AllGame)
    <2>1. Screen!GivenBack(r) = [r EXCEPT !.gl = back]
      BY <1>5 DEF Screen!GivenBack, ScreenDraws, ScreenFields
    <2> HIDE DEF back
    <2>2. ScreenAside([r EXCEPT !.gl = back], r)
      BY <1>5 DEF ScreenAside, ScreenDraws, ScreenFields
    <2> QED
      BY <1>5, <2>1, <2>2, ScreenStays
  <1> QED
    BY <1>4, <1>6 DEF r

LEMMA ScreenShows ==
  ASSUME NEW c, ScreenDraws(c), NEW works
  PROVE  ScreenDraws(Screen!Rendered(c, works))
  <1> DEFINE gl == Screen!SetBy(Screen!AllGame, {"unit", "tests"}, "pass")
             touched == [c EXCEPT !.gl = gl]
             p == "viewpoint"
             o == touched.targets[p]
             r == Screen!Resized([o EXCEPT !.program = "built"], touched.size, works # "size")
             part == Screen!SetBy(touched.gl, {"textures", "target"}, "pass")
             whole == Screen!SetBy(touched.gl, Screen!Groups, "pass")
             t2 == [touched EXCEPT !.targets[p] = r, !.spoilt = TRUE, !.gl = part]
             t3 == [touched EXCEPT !.targets[p] = r, !.gl = whole]
             open == Screen!Opened(touched, works)
             done == Screen!Composited(Screen!Drawn(open, "pass"), p)
             wrong == done.wrong \/ \E x \in Screen!Selected(c) : ~Screen!Right(c, x)
             opened == open.gl["program"] = "pass"
             shown == [done EXCEPT !.wrong = wrong]
  <1>0. DOMAIN c = ScreenFields /\ p \in Screen!Passes
    BY DEF ScreenDraws, Screen!Passes
  <1>1. Screen!Rendered(c, works) =
          IF ~c.fresh \/ Screen!Selected(c) = {} \/ works = "read" THEN c
          ELSE IF ~opened THEN Screen!Restored(open, works)
          ELSE Screen!Restored([done EXCEPT !.wrong = @ \/ \E x \in Screen!Selected(c) : ~Screen!Right(c, x)], works)
    BY DEF Screen!Rendered
  <1>2. gl["program"] = "game" /\ part["program"] = touched.gl["program"] /\ whole["target"] = "pass"
    BY DEF Screen!SetBy, Screen!AllGame, Screen!Groups
  <1> HIDE DEF gl, part, whole
  <1>3. ScreenDraws(touched) /\ touched.gl = gl
    <2>1. ScreenAside(touched, c) /\ touched.gl = gl
      BY <1>0 DEF ScreenAside, ScreenFields
    <2> QED
      BY <2>1, ScreenStays
  <1>4. DOMAIN touched = ScreenFields /\ DOMAIN touched.targets = Screen!Passes /\ ScreenSized(o, touched.spoilt)
        /\ touched.spoilt \in BOOLEAN
    BY <1>0, <1>3 DEF ScreenDraws
  <1>5. open = touched \/ open = t2 \/ (open = t3 /\ r.size = touched.size)
    BY <1>4 DEF Screen!Opened, ScreenFields, part, whole
  <1>6. DOMAIN r = {"program", "size", "real"} /\ (r.size = touched.size => r.real = touched.size \/ touched.spoilt)
    BY <1>4, ScreenResizes
  <1> HIDE DEF touched, o, r, p
  <1>7. ScreenDraws(t2) /\ t2.gl = part
    <2>1. ScreenSized(r, TRUE)
      BY <1>6 DEF ScreenSized
    <2>2. /\ DOMAIN t2 = ScreenFields /\ t2.targets = [touched.targets EXCEPT ![p] = r] /\ t2.stray = touched.stray
          /\ t2.misfit = touched.misfit /\ t2.spoilt = TRUE /\ t2.gl = part
      BY <1>4 DEF ScreenFields
    <2> HIDE DEF t2
    <2> QED
      BY <1>0, <1>3, <2>1, <2>2, ScreenPut DEF p
  <1>8. ASSUME r.size = touched.size
        PROVE  ScreenDraws(t3) /\ t3.gl = whole /\ (t3.targets[p].real = t3.size \/ t3.spoilt)
    <2>1. ScreenSized(r, touched.spoilt)
      BY <1>6, <1>8 DEF ScreenSized
    <2>2. /\ DOMAIN t3 = ScreenFields /\ t3.targets = [touched.targets EXCEPT ![p] = r] /\ t3.stray = touched.stray
          /\ t3.misfit = touched.misfit /\ t3.spoilt = touched.spoilt /\ t3.size = touched.size /\ t3.gl = whole
      BY <1>4 DEF ScreenFields
    <2> HIDE DEF t3
    <2>3. ScreenDraws(t3) /\ t3.targets[p] = r
      BY <1>0, <1>3, <1>4, <2>1, <2>2, ScreenPut
    <2> QED
      BY <1>6, <1>8, <2>2, <2>3
  <1> HIDE DEF t2, t3, open
  <1>9. ScreenDraws(open)
    BY <1>3, <1>5, <1>7, <1>8
  <1>10. opened => ScreenDraws(done)
    <2>1. opened => open.gl["target"] = "pass" /\ (open.targets[p].real = open.size \/ open.spoilt)
      BY <1>2, <1>3, <1>5, <1>7, <1>8
    <2> QED
      BY <1>0, <1>9, <2>1, ScreenPaints
  <1> HIDE DEF done, opened
  <1>11. ASSUME NEW d, ScreenDraws(d) PROVE ScreenDraws(Screen!Restored(d, works))
    <2> DEFINE game1 == Screen!AllGame
    <2>1. Screen!Restored(d, works) = [d EXCEPT !.gl = game1]
      BY DEF Screen!Restored
    <2> HIDE DEF game1
    <2>2. ScreenAside([d EXCEPT !.gl = game1], d)
      BY <1>11 DEF ScreenAside, ScreenDraws, ScreenFields
    <2> QED
      BY <1>11, <2>1, <2>2, ScreenStays
  <1>12. ASSUME NEW d, ScreenDraws(d), NEW w, NEW t, t = [d EXCEPT !.wrong = w] PROVE ScreenDraws(t)
    <2>1. ScreenAside(t, d)
      BY <1>12 DEF ScreenAside, ScreenDraws, ScreenFields
    <2> QED
      BY <1>12, <2>1, ScreenStays
  <1>13. opened => ScreenDraws(Screen!Restored([done EXCEPT !.wrong = @ \/ \E x \in Screen!Selected(c) : ~Screen!Right(c, x)], works))
    <2> DEFINE w == done.wrong \/ \E x \in Screen!Selected(c) : ~Screen!Right(c, x)
               t == [done EXCEPT !.wrong = @ \/ \E x \in Screen!Selected(c) : ~Screen!Right(c, x)]
    <2>1. opened => t = [done EXCEPT !.wrong = w]
      BY <1>10 DEF ScreenDraws, ScreenFields
    <2> HIDE DEF w, t
    <2>2. opened => ScreenDraws(t)
      BY <1>10, <1>12, <2>1
    <2>3. opened => ScreenDraws(Screen!Restored(t, works))
      BY <1>11, <2>2
    <2> QED
      BY <2>3 DEF t
  <1> QED
    BY <1>1, <1>9, <1>11, <1>13

-----------------------------------------------------------------------------
(* The lists. *)

\* A pass leaves the lists alone.
LEMMA ScreenUnlistedStays ==
  ASSUME NEW c, DOMAIN c = ScreenFields, NEW d, ScreenUnlisted(d, c), NEW a, NEW b, NEW e, NEW f, NEW t,
         \/ t = [d EXCEPT !.targets = a] \/ t = [d EXCEPT !.targets = a, !.gl = b]
         \/ t = [d EXCEPT !.targets = a, !.spoilt = b] \/ t = [d EXCEPT !.targets = a, !.spoilt = b, !.gl = e]
         \/ t = [d EXCEPT !.stray = a, !.gl = b] \/ t = [d EXCEPT !.misfit = a] \/ t = [d EXCEPT !.gl = a]
  PROVE  ScreenUnlisted(t, c)
  BY ZenonT(60) DEF ScreenUnlisted, ScreenFields

LEMMA ScreenPassUnlisted ==
  ASSUME NEW c, DOMAIN c = ScreenFields, NEW d, ScreenUnlisted(d, c)
  PROVE  /\ \A p, works : ScreenUnlisted(Screen!Begun(d, p, works), c)
         /\ \A p, works : ScreenUnlisted(Screen!Passed(d, p, works), c)
         /\ \A works : ScreenUnlisted(Screen!Opened(d, works), c)
         /\ \A who : ScreenUnlisted(Screen!Drawn(d, who), c)
         /\ \A p : ScreenUnlisted(Screen!Composited(d, p), c)
         /\ \A works : ScreenUnlisted(Screen!Restored(d, works), c)
  <1>0. ASSUME NEW r, ScreenUnlisted(r, c) PROVE DOMAIN r = ScreenFields
    BY <1>0 DEF ScreenUnlisted
  <1>1. ASSUME NEW p, NEW works, NEW t, t = Screen!Begun(d, p, works) PROVE ScreenUnlisted(t, c)
    <2> DEFINE o == d.targets[p]
               r == Screen!Resized([o EXCEPT !.program = "built"], d.size, works # "size")
               gl == Screen!SetBy(d.gl, Screen!Held, "pass")
               a == [d.targets EXCEPT ![p] = [o EXCEPT !.program = "failed"]]
               b == [d.targets EXCEPT ![p] = r]
    <2>1. \/ t = [d EXCEPT !.targets = a]
          \/ t = [d EXCEPT !.targets = b, !.spoilt = TRUE]
          \/ t = [d EXCEPT !.targets = b, !.gl = gl]
      BY SMTT(30), <1>0, <1>1 DEF Screen!Begun, ScreenFields
    <2> HIDE DEF a, b, gl
    <2> QED
      BY <2>1, ScreenUnlistedStays
  <1>2. ASSUME NEW r, ScreenUnlisted(r, c), NEW who, NEW t, t = Screen!Drawn(r, who) PROVE ScreenUnlisted(t, c)
    <2> DEFINE stray == r.stray \/ r.gl["target"] # "pass"
               gl == Screen!SetBy(r.gl, {"program", "vertices", "unit", "textures"}, who)
    <2>1. t = [r EXCEPT !.stray = stray, !.gl = gl]
      BY SMTT(30), <1>0, <1>2 DEF Screen!Drawn, ScreenFields
    <2> HIDE DEF stray, gl
    <2> QED
      BY <1>2, <2>1, ScreenUnlistedStays
  <1>3. ASSUME NEW r, ScreenUnlisted(r, c), NEW saved, NEW t, t = Screen!Ended(r, saved) PROVE ScreenUnlisted(t, c)
    <2> DEFINE gl == Screen!Back(r.gl, Screen!Held, saved)
    <2>1. t = [r EXCEPT !.gl = gl]
      BY SMTT(30), <1>0, <1>3 DEF Screen!Ended, ScreenFields
    <2> HIDE DEF gl
    <2> QED
      BY <1>3, <2>1, ScreenUnlistedStays
  <1>4. ASSUME NEW r, ScreenUnlisted(r, c), NEW p, NEW t, t = Screen!Composited(r, p) PROVE ScreenUnlisted(t, c)
    <2> DEFINE misfit == r.misfit \/ r.targets[p].real # r.size
    <2>1. t = r \/ t = [r EXCEPT !.misfit = misfit]
      BY <1>0, <1>4 DEF Screen!Composited, ScreenFields
    <2> HIDE DEF misfit
    <2> QED
      BY <1>4, <2>1, ScreenUnlistedStays
  <1>5. ASSUME NEW p, NEW works, NEW t, t = Screen!Passed(d, p, works) PROVE ScreenUnlisted(t, c)
    <2> DEFINE b == Screen!Begun(d, p, works)
               x == Screen!Drawn(b, "replay")
               y == Screen!Ended(x, d.gl)
    <2>1. t = b \/ t = Screen!Composited(y, p)
      BY <1>5 DEF Screen!Passed
    <2>2. ScreenUnlisted(b, c)
      BY <1>1
    <2> HIDE DEF b
    <2>3. ScreenUnlisted(x, c)
      BY <1>2, <2>2
    <2> HIDE DEF x
    <2>4. ScreenUnlisted(y, c)
      BY SMTT(30), <1>3, <2>3
    <2> HIDE DEF y
    <2> QED
      BY <1>4, <2>1, <2>2, <2>4
  <1>6. ASSUME NEW works, NEW t, t = Screen!Opened(d, works) PROVE ScreenUnlisted(t, c)
    <2> DEFINE o == d.targets["viewpoint"]
               r == Screen!Resized([o EXCEPT !.program = "built"], d.size, works # "size")
               part == Screen!SetBy(d.gl, {"textures", "target"}, "pass")
               whole == Screen!SetBy(d.gl, Screen!Groups, "pass")
               b == [d.targets EXCEPT !["viewpoint"] = r]
    <2>1. \/ t = d
          \/ t = [d EXCEPT !.targets = b, !.spoilt = TRUE, !.gl = part]
          \/ t = [d EXCEPT !.targets = b, !.gl = whole]
      BY SMTT(30), <1>0, <1>6 DEF Screen!Opened, ScreenFields
    <2> HIDE DEF b, part, whole
    <2> QED
      BY <2>1, ScreenUnlistedStays
  <1>7. ASSUME NEW works, NEW t, t = Screen!Restored(d, works) PROVE ScreenUnlisted(t, c)
    <2> DEFINE gl == Screen!AllGame
    <2>1. t = [d EXCEPT !.gl = gl]
      BY <1>7 DEF Screen!Restored
    <2> HIDE DEF gl
    <2> QED
      BY <2>1, ScreenUnlistedStays
  <1> QED
    BY <1>1, <1>2, <1>4, <1>5, <1>6, <1>7

LEMMA ScreenReplayUnlisted ==
  ASSUME NEW c, DOMAIN c = ScreenFields, NEW passes, NEW bad, NEW how
  PROVE  ScreenUnlisted(Screen!Replayed(c, passes, bad, how), c)
  <1> DEFINE own == {"tests", "blend", "factors", "alpha factors", "depth", "cull", "scissor"}
             gl == Screen!SetBy(Screen!AllGame, own, "replay")
             set == [c EXCEPT !.gl = gl]
             pass(d, p) == IF p \in passes THEN Screen!Passed(d, p, IF p \in bad THEN how ELSE "all") ELSE d
             r == pass(pass(pass(set, "self"), "fill"), "edge")
  <1>1. ScreenUnlisted(c, c)
    BY SMTT(30) DEF ScreenUnlisted
  <1>2. ScreenUnlisted(set, c)
    <2> HIDE DEF gl
    <2> QED
      BY <1>1, ScreenUnlistedStays
  <1>3. ASSUME NEW d, ScreenUnlisted(d, c), NEW p PROVE ScreenUnlisted(pass(d, p), c)
    BY <1>3, ScreenPassUnlisted
  <1>4. Screen!Replayed(c, passes, bad, how) = Screen!GivenBack(r)
    BY DEF Screen!Replayed
  <1> HIDE DEF pass, set
  <1>5. ScreenUnlisted(r, c)
    BY SMTT(30), <1>2, <1>3
  <1> HIDE DEF r
  <1>6. ScreenUnlisted(Screen!GivenBack(r), c)
    <2> DEFINE kept == {"target", "clear", "mask"} \cup (IF r.separate THEN {"alpha factors"} ELSE {})
               back == Screen!Back(r.gl, Screen!Groups \ kept, Screen!AllGame)
    <2>1. Screen!GivenBack(r) = [r EXCEPT !.gl = back]
      BY <1>5 DEF Screen!GivenBack, ScreenUnlisted, ScreenFields
    <2> HIDE DEF back
    <2> QED
      BY <1>5, <2>1, ScreenUnlistedStays
  <1> QED
    BY <1>4, <1>6

\* What is selected has the colour of the one kind that was listed for it.
LEMMA ScreenSelects ==
  ASSUME NEW c, ScreenLists(c), c.fresh
  PROVE  \A x \in Screen!Selected(c) : Screen!Right(c, x)
  <1> SUFFICES ASSUME NEW x \in Screen!Selected(c) PROVE Screen!Right(c, x)
    OBVIOUS
  <1> DEFINE kinds == {k \in Screen!Kinds : <<x[1], k>> \in c.published}
             colour == Screen!Colour(c, x)
  <1>1. colour \in c.coloured /\ c.coloured \subseteq Screen!Kinds
    BY DEF Screen!Selected, ScreenLists
  <1>2. Screen!Cardinality(kinds) = 1 /\ colour = CHOOSE k \in kinds : TRUE
    BY <1>1 DEF Screen!Colour, Screen!Kinds
  <1>3. IsFiniteSet(kinds)
    <2>1. IsFiniteSet({"player"})
      BY FS_Singleton
    <2>2. IsFiniteSet({"vehicle"})
      BY FS_Singleton
    <2>3. IsFiniteSet({"player"} \cup {"vehicle"})
      BY <2>1, <2>2, FS_Union
    <2>4. kinds \subseteq {"player"} \cup {"vehicle"}
      BY DEF Screen!Kinds
    <2> QED
      BY <2>3, <2>4, FS_Subset
  <1>4. PICK k : kinds = {k}
    <2>1. Cardinality(kinds) = Screen!Cardinality(kinds)
      BY DEF Cardinality, Screen!Cardinality
    <2> HIDE DEF kinds
    <2>2. Cardinality(kinds) = 1
      BY <1>2, <2>1
    <2> QED
      BY <1>3, <2>2, FS_Singleton
  <1>5. kinds = {colour} /\ <<x[1], colour>> \in c.published
    BY <1>2, <1>4
  <1>6. <<x[1], colour>>[2] = colour
    OBVIOUS
  <1>7. <<x[1], colour>> \in c.last \/ c.missed
    BY <1>1, <1>5, <1>6 DEF ScreenLists
  <1> QED
    BY <1>5, <1>7 DEF Screen!Right

LEMMA ScreenShowsListed ==
  ASSUME NEW c, ScreenLists(c), NEW works
  PROVE  ScreenLists(Screen!Rendered(c, works))
  <1> DEFINE gl == Screen!SetBy(Screen!AllGame, {"unit", "tests"}, "pass")
             touched == [c EXCEPT !.gl = gl]
             open == Screen!Opened(touched, works)
             drawn == Screen!Drawn(open, "pass")
             done == Screen!Composited(drawn, "viewpoint")
             wrong == done.wrong \/ \E x \in Screen!Selected(c) : ~Screen!Right(c, x)
             opened == open.gl["program"] = "pass"
             shown == [done EXCEPT !.wrong = wrong]
  <1>0. DOMAIN c = ScreenFields
    BY DEF ScreenLists
  <1>1. Screen!Rendered(c, works) =
          IF ~c.fresh \/ Screen!Selected(c) = {} \/ works = "read" THEN c
          ELSE IF ~opened THEN Screen!Restored(open, works)
          ELSE Screen!Restored([done EXCEPT !.wrong = @ \/ \E x \in Screen!Selected(c) : ~Screen!Right(c, x)], works)
    BY SMTT(30) DEF Screen!Rendered
  <1>2. ScreenUnlisted(touched, c)
    <2> HIDE DEF gl
    <2>1. ScreenUnlisted(c, c)
      BY <1>0 DEF ScreenUnlisted
    <2> QED
      BY <1>0, <2>1, ScreenUnlistedStays
  <1> HIDE DEF touched
  <1>3. ScreenUnlisted(open, c)
    BY <1>0, <1>2, ScreenPassUnlisted
  <1> HIDE DEF open
  <1>4. ScreenUnlisted(drawn, c)
    BY <1>0, <1>3, ScreenPassUnlisted
  <1> HIDE DEF drawn
  <1>5. ScreenUnlisted(done, c)
    BY <1>0, <1>4, ScreenPassUnlisted
  <1> HIDE DEF done
  <1>6. ASSUME c.fresh PROVE [done EXCEPT !.wrong = @ \/ \E x \in Screen!Selected(c) : ~Screen!Right(c, x)] = shown /\ ScreenUnlisted(shown, c)
    <2>0. DOMAIN done = ScreenFields /\ done.wrong = FALSE
      BY <1>5 DEF ScreenUnlisted, ScreenLists
    <2>1. [done EXCEPT !.wrong = @ \/ \E x \in Screen!Selected(c) : ~Screen!Right(c, x)] = shown
      BY <2>0 DEF ScreenFields
    <2>2. wrong = FALSE
      BY <1>6, <2>0, ScreenSelects
    <2> HIDE DEF wrong
    <2>3. ScreenUnlisted(shown, c)
      BY <1>0, <1>5, <2>0, <2>2 DEF ScreenUnlisted, ScreenFields
    <2> QED
      BY <2>1, <2>3
  <1> HIDE DEF shown, opened
  <1>7. ScreenUnlisted(Screen!Restored(open, works), c)
    BY <1>0, <1>3, ScreenPassUnlisted
  <1>8. c.fresh => ScreenUnlisted(Screen!Restored(shown, works), c)
    BY <1>0, <1>6, ScreenPassUnlisted
  <1>9. Screen!Rendered(c, works) = c \/ ScreenUnlisted(Screen!Rendered(c, works), c)
    BY <1>1, <1>6, <1>7, <1>8
  <1> QED
    BY <1>9, ScreenStays

-----------------------------------------------------------------------------
(* A frame of the trainer. *)

LEMMA ScreenReads ==
  ASSUME NEW c, DOMAIN c = ScreenFields, NEW works, NEW camera, NEW t, t = Screen!Refreshed(c, works, camera)
  PROVE  /\ ScreenAside(t, c) /\ ScreenUnlisted(t, c)
         /\ Screen!CanUseViewpoint3D(t) => works = "all" /\ c.on /\ camera
  <1> DEFINE found == Screen!Found(c, works # "none")
             blank == [found EXCEPT !.active = FALSE, !.valid = FALSE]
             valid == c.on /\ camera /\ works = "all"
             seen == [blank EXCEPT !.active = c.on, !.valid = valid]
             ready == c.mod = "whole"
  <1>1. t \in {blank, seen}
    BY DEF Screen!Refreshed
  <1>2. found = c \/ found = [c EXCEPT !.detected = TRUE, !.ready = ready]
    BY DEF Screen!Found
  <1> HIDE DEF found, valid, ready
  <1>3. ScreenAside(found, c) /\ ScreenUnlisted(found, c) /\ DOMAIN found = ScreenFields
    BY <1>2 DEF ScreenAside, ScreenUnlisted, ScreenFields
  <1>4. ScreenAside(blank, c) /\ ScreenUnlisted(blank, c) /\ DOMAIN blank = ScreenFields /\ blank.valid = FALSE
    BY <1>3 DEF ScreenAside, ScreenUnlisted, ScreenFields
  <1> HIDE DEF blank
  <1>5. ScreenAside(seen, c) /\ ScreenUnlisted(seen, c) /\ seen.valid = valid
    BY <1>4 DEF ScreenAside, ScreenUnlisted, ScreenFields
  <1> HIDE DEF seen
  <1> QED
    BY <1>1, <1>4, <1>5 DEF Screen!CanUseViewpoint3D, valid

\* Before the lists are made: nothing is fresh unless it will be listed anew.
LEMMA ScreenSettles ==
  ASSUME NEW c, ScreenDraws(c), ScreenLists(c), NEW works, NEW camera, NEW t,
         t = Screen!Settled(Screen!Aimed(Screen!Refreshed(c, works, camera), works = "all" /\ c.on /\ camera))
  PROVE  /\ ScreenDraws(t) /\ DOMAIN t = ScreenFields /\ t.late = FALSE /\ t.wrong = FALSE
         /\ t.shown \subseteq Screen!Kinds /\ t.coloured \subseteq Screen!Kinds
         /\ t.helper = "none" => ~t.fresh
         /\ (Screen!CanUseViewpoint3D(t) /\ player # NoPlayer) \/ ScreenLists(t)
  <1> DEFINE r == Screen!Refreshed(c, works, camera)
             read == works = "all" /\ c.on /\ camera
             late == r.late \/ (Screen!CanUseViewpoint3D(r) /\ ~read)
             a == Screen!Aimed(r, read)
             published == IF a.helper = "none" THEN a.published ELSE {}
             fresh == IF a.helper = "none" THEN a.fresh ELSE FALSE
  <1>1. ScreenAside(r, c) /\ ScreenUnlisted(r, c) /\ (Screen!CanUseViewpoint3D(r) => read)
    BY ScreenReads DEF ScreenLists
  <1> HIDE DEF r
  <1>2. /\ ScreenAside(a, c) /\ DOMAIN a = ScreenFields /\ a.late = FALSE /\ a.wrong = FALSE /\ a.shown = c.shown
        /\ a.coloured = c.coloured /\ a.helper = c.helper /\ a.fresh = c.fresh
    <2>1. a = [r EXCEPT !.late = late, !.last = {}, !.missed = FALSE]
      BY <1>1 DEF Screen!Aimed, ScreenAside, ScreenFields
    <2>2. late = FALSE
      BY <1>1 DEF ScreenUnlisted, ScreenLists
    <2> HIDE DEF late, a
    <2> QED
      BY <1>1, <2>1, <2>2 DEF ScreenAside, ScreenUnlisted, ScreenLists, ScreenFields
  <1>3. t = Screen!Settled(a)
    BY DEF r
  <1> HIDE DEF a
  <1>4. CASE Screen!CanUseViewpoint3D(a) /\ player # NoPlayer
    <2>1. t = a
      BY <1>3, <1>4 DEF Screen!Settled
    <2> QED
      BY <1>2, <1>4, <2>1, ScreenStays DEF ScreenLists
  <1>5. CASE ~(Screen!CanUseViewpoint3D(a) /\ player # NoPlayer)
    <2>1. t = [a EXCEPT !.published = published, !.fresh = fresh]
      BY <1>2, <1>3, <1>5 DEF Screen!Settled, Screen!Cleared, ScreenFields
    <2>2. fresh = FALSE
      BY <1>2 DEF ScreenLists, ScreenFields
    <2> HIDE DEF published, fresh
    <2>3. /\ ScreenAside(t, c) /\ DOMAIN t = ScreenFields /\ t.late = FALSE /\ t.wrong = FALSE /\ t.shown = c.shown
          /\ t.coloured = c.coloured /\ t.helper = c.helper /\ t.fresh = FALSE
      BY <1>2, <2>1, <2>2 DEF ScreenAside, ScreenFields
    <2>4. ScreenLists(t)
      BY <2>3 DEF ScreenLists
    <2> QED
      BY <2>3, <2>4, ScreenStays DEF ScreenLists
  <1> QED
    BY <1>4, <1>5

LEMMA ScreenPublishes ==
  ASSUME NEW c, ScreenDraws(c), DOMAIN c = ScreenFields, c.late = FALSE, c.wrong = FALSE,
         c.shown \subseteq Screen!Kinds, c.coloured \subseteq Screen!Kinds, c.helper = "none" => ~c.fresh,
         NEW helper, NEW works, NEW t, t = Screen!Published(c, helper, works)
  PROVE  ScreenDraws(t) /\ ScreenLists(t)
  <1> DEFINE bound == IF c.helper = "ready" \/ helper = "none" THEN c.helper ELSE helper
             hooked == Screen!Hooked(c, helper)
             wanted == {o \in c.world : o[2] \in c.shown}
             t1 == [hooked EXCEPT !.published = c.world, !.coloured = c.shown, !.fresh = TRUE, !.last = wanted]
             t2 == [hooked EXCEPT !.last = wanted, !.missed = TRUE]
  <1>1. (hooked.helper = "ready" /\ t = t1) \/ t = t2
    BY DEF Screen!Published
  <1>2. hooked = [c EXCEPT !.helper = bound]
    BY DEF Screen!Hooked, ScreenFields
  <1>3. bound = "none" => c.helper = "none"
    OBVIOUS
  <1>4. \A o \in c.world : o[2] \in c.shown => o \in wanted
    OBVIOUS
  <1> HIDE DEF bound, hooked, wanted
  <1>5. /\ ScreenAside(hooked, c) /\ DOMAIN hooked = ScreenFields /\ hooked.helper = bound
        /\ hooked.late = FALSE /\ hooked.wrong = FALSE /\ hooked.shown = c.shown /\ hooked.coloured = c.coloured
        /\ hooked.fresh = c.fresh
    BY <1>2 DEF ScreenAside, ScreenFields
  <1>6. ASSUME hooked.helper = "ready" PROVE ScreenAside(t1, c) /\ ScreenLists(t1)
    <2>1. /\ ScreenAside(t1, c) /\ DOMAIN t1 = ScreenFields /\ t1.late = FALSE /\ t1.wrong = FALSE /\ t1.shown = c.shown
          /\ t1.coloured = c.shown /\ t1.published = c.world /\ t1.last = wanted /\ t1.helper = "ready"
      BY <1>5, <1>6 DEF ScreenAside, ScreenFields
    <2> HIDE DEF t1
    <2> QED
      BY <1>4, <2>1 DEF ScreenLists
  <1>7. ScreenAside(t2, c) /\ ScreenLists(t2)
    <2>1. /\ ScreenAside(t2, c) /\ DOMAIN t2 = ScreenFields /\ t2.late = FALSE /\ t2.wrong = FALSE /\ t2.shown = c.shown
          /\ t2.coloured = c.coloured /\ t2.helper = bound /\ t2.missed = TRUE /\ t2.fresh = c.fresh
      BY <1>5 DEF ScreenAside, ScreenFields
    <2> HIDE DEF t2
    <2> QED
      BY <1>3, <2>1 DEF ScreenLists
  <1> QED
    BY <1>1, <1>6, <1>7, ScreenStays

LEMMA ScreenBooksStep == ScreenInv /\ ScreenBooks /\ [Screen!Next]_all => ScreenBooks'
  <1> SUFFICES ASSUME ScreenBooks, [Screen!Next]_all PROVE ScreenDraws(state') /\ ScreenLists(state')
    BY DEF ScreenBooks
  <1>0. ScreenDraws(state) /\ ScreenLists(state) /\ DOMAIN state = ScreenFields
    BY DEF ScreenBooks, ScreenDraws
  <1>1. ASSUME NEW a,
               \/ state' = [state EXCEPT !.world = a] \/ state' = [state EXCEPT !.mod = a]
               \/ state' = [state EXCEPT !.on = a] \/ state' = [state EXCEPT !.size = a]
        PROVE  ScreenDraws(state') /\ ScreenLists(state')
    <2>1. ScreenAside(state', state) /\ ScreenUnlisted(state', state)
      BY <1>0, <1>1 DEF ScreenAside, ScreenUnlisted, ScreenFields
    <2> QED
      BY <1>0, <2>1, ScreenStays
  <1>2. CASE Screen!Live \/ Screen!Resize
    <2>1. (\E a : state' = [state EXCEPT !.world = a]) \/ (\E a : state' = [state EXCEPT !.size = a])
      BY <1>2 DEF Screen!Live, Screen!Resize
    <2> QED
      BY <1>1, <2>1
  <1>3. CASE Screen!View
    <2>1. state' = [state EXCEPT !.on = ~state.on]
      BY <1>0, <1>3 DEF Screen!View, ScreenFields
    <2> DEFINE a == ~state.on
    <2>2. state' = [state EXCEPT !.on = a]
      BY <2>1
    <2> HIDE DEF a
    <2> QED
      BY <1>1, <2>2
  <1>4. CASE Screen!Switch
    <2>1. state' = [state EXCEPT !.shown = Screen!Kinds \ state.shown]
      BY <1>0, <1>4 DEF Screen!Switch, ScreenFields
    <2>2. /\ ScreenAside(state', state) /\ state'.shown = Screen!Kinds \ state.shown
          /\ DOMAIN state' = ScreenFields /\ state'.late = state.late /\ state'.wrong = state.wrong
          /\ state'.coloured = state.coloured /\ state'.helper = state.helper /\ state'.fresh = state.fresh
          /\ state'.missed = state.missed /\ state'.published = state.published /\ state'.last = state.last
      BY <1>0, <2>1 DEF ScreenAside, ScreenFields
    <2>3. ScreenLists(state')
      BY <1>0, <2>2 DEF ScreenLists
    <2> QED
      BY <1>0, <2>2, <2>3, ScreenStays
  <1>5. CASE Screen!Expire
    <2>1. state' = [state EXCEPT !.fresh = FALSE]
      BY <1>5 DEF Screen!Expire
    <2>2. /\ ScreenAside(state', state) /\ state'.fresh = FALSE
          /\ DOMAIN state' = ScreenFields /\ state'.late = state.late /\ state'.wrong = state.wrong
          /\ state'.shown = state.shown /\ state'.coloured = state.coloured
      BY <1>0, <2>1 DEF ScreenAside, ScreenFields
    <2>3. ScreenLists(state')
      BY <1>0, <2>2 DEF ScreenLists
    <2> QED
      BY <1>0, <2>2, <2>3, ScreenStays
  <1>6. CASE Screen!Frame
    <2>1. PICK works \in {"none", "on", "all"}, camera \in BOOLEAN :
            LET read == works = "all" /\ state.on /\ camera
                seen == Screen!Settled(Screen!Aimed(Screen!Refreshed(state, works, camera), read)) IN
            IF Screen!CanUseViewpoint3D(seen) /\ player # NoPlayer
            THEN \E helper \in Screen!Helpers, says \in BOOLEAN : state' = Screen!Published(seen, helper, says)
            ELSE \/ \E passes \in SUBSET {"fill"}, how \in {"program", "size"} : \E bad \in SUBSET passes :
                      state' = Screen!Replayed(seen, passes, bad, how)
                 \/ state' = seen
      BY <1>6 DEF Screen!Frame
    <2> DEFINE seen == Screen!Settled(Screen!Aimed(Screen!Refreshed(state, works, camera), works = "all" /\ state.on /\ camera))
    <2>2. /\ ScreenDraws(seen) /\ DOMAIN seen = ScreenFields /\ seen.late = FALSE /\ seen.wrong = FALSE
          /\ seen.shown \subseteq Screen!Kinds /\ seen.coloured \subseteq Screen!Kinds
          /\ seen.helper = "none" => ~seen.fresh
          /\ (Screen!CanUseViewpoint3D(seen) /\ player # NoPlayer) \/ ScreenLists(seen)
      BY <1>0, ScreenSettles
    <2>3. IF Screen!CanUseViewpoint3D(seen) /\ player # NoPlayer
          THEN \E helper \in Screen!Helpers, says \in BOOLEAN : state' = Screen!Published(seen, helper, says)
          ELSE \/ \E passes \in SUBSET {"fill"}, how \in {"program", "size"} : \E bad \in SUBSET passes :
                    state' = Screen!Replayed(seen, passes, bad, how)
               \/ state' = seen
      BY <2>1
    <2> HIDE DEF seen
    <2>4. CASE Screen!CanUseViewpoint3D(seen) /\ player # NoPlayer
      BY <2>2, <2>3, <2>4, ScreenPublishes
    <2>5. CASE ~(Screen!CanUseViewpoint3D(seen) /\ player # NoPlayer)
      <3>1. ScreenLists(seen)
        BY <2>2, <2>5
      <3>2. ASSUME NEW passes \in SUBSET {"fill"}, NEW bad, NEW how, state' = Screen!Replayed(seen, passes, bad, how)
            PROVE  ScreenDraws(state') /\ ScreenLists(state')
        <4>1. ScreenDraws(state')
          BY <2>2, <3>2, ScreenReplays
        <4>2. ScreenUnlisted(state', seen)
          BY <2>2, <3>2, ScreenReplayUnlisted
        <4> QED
          BY <3>1, <4>1, <4>2, ScreenStays
      <3> QED
        BY <2>2, <2>3, <2>5, <3>1, <3>2
    <2> QED
      BY <2>4, <2>5
  <1>7. CASE Screen!ViewpointFrame
    <2>1. PICK works : state' = Screen!Rendered(state, works)
      BY <1>7 DEF Screen!ViewpointFrame
    <2> QED
      BY <1>0, <2>1, ScreenShows, ScreenShowsListed
  <1>8. ASSUME NEW o, Screen!Become(o) PROVE ScreenDraws(state') /\ ScreenLists(state')
    <2>1. \E a : state' = [state EXCEPT !.world = a]
      BY <1>8 DEF Screen!Become
    <2> QED
      BY <1>1, <2>1
  <1>9. ASSUME NEW mod, Screen!Load(mod) PROVE ScreenDraws(state') /\ ScreenLists(state')
    BY <1>1, <1>9 DEF Screen!Load
  <1>10. CASE UNCHANGED all
    BY <1>0, <1>10 DEF all
  <1> QED
    BY <1>2, <1>3, <1>4, <1>5, <1>6, <1>7, <1>8, <1>9, <1>10 DEF Screen!Next

LEMMA ScreenBooksKept == ScreenBooks => Screen!TargetsAreOwn /\ Screen!CameraIsOfThisFrame /\ Screen!PaintedIsListed
  BY DEF ScreenBooks, ScreenDraws, ScreenLists, Screen!TargetsAreOwn, Screen!CameraIsOfThisFrame, Screen!PaintedIsListed

-----------------------------------------------------------------------------
(* ModelCapture: what is queued has its references, with the player's own model first; the
   record is of the window of the capture, and what is asked for is what was listed last. *)

Capture == INSTANCE ModelCapture WITH capture <- state, MaxRequests <- FewRequests, MaxFaults <- FewFaults, Players <- Persons, Ids <- Things, MaxCommands <- 1

CaptureFields ==
  {"kind", "seen", "shown", "viewpoint", "status", "helper", "window", "enabled", "requested",
   "fresh", "queue", "refs", "commands", "last", "self", "painted"}

CaptureGroups == Capture!Kinds \cup {"none"}
CaptureSubs == [body : Capture!Bodies, group : CaptureGroups]
CaptureCommands == [body : Capture!Bodies, group : CaptureGroups, window : Windows]

CaptureAsked(z) ==
  /\ z.kind \in [Things -> CaptureGroups] /\ z.fresh \in BOOLEAN /\ z.requested \in [Things -> CaptureGroups]
  /\ z.seen \in [Things -> CaptureGroups] /\ z.shown \subseteq Capture!Kinds
  /\ z.helper # "ready" => z.fresh = FALSE
  /\ z.fresh = TRUE => z.requested = z.last

CaptureQueue(z) ==
  /\ z.queue \in Seq(CaptureSubs) /\ DOMAIN z.refs = Capture!Bodies
  /\ \A n \in DOMAIN z.queue : z.queue[n].body = Capture!Self => n = 1
  /\ \A b \in Capture!Bodies : z.refs[b] = Capture!Times(z.queue, b)

CaptureRecord(z) ==
  /\ z.window \in Windows \cup {"none"} /\ {z.enabled, z.self} \subseteq BOOLEAN
  /\ z.commands \in Seq(CaptureCommands) /\ Len(z.commands) <= 1
  /\ \A n \in DOMAIN z.commands : z.commands[n].window = z.window
  /\ z.self = TRUE /\ z.commands # <<>> => z.commands[1].body = Capture!Self

CapturePainted(p) ==
  p.mask = TRUE /\ p.own = TRUE /\ \A m \in p.models : m[2] = m[3]

CaptureGood(z) ==
  /\ DOMAIN z = CaptureFields
  /\ CaptureAsked(z) /\ CaptureQueue(z) /\ CaptureRecord(z) /\ CapturePainted(z.painted)

CaptureBooks == CaptureGood(state)

LEMMA CaptureTimes ==
  ASSUME NEW q, NEW b
  PROVE  /\ Capture!Times(<<>>, b) = 0
         /\ q \in Seq(CaptureSubs) => Capture!Times(q, b) \in Nat
  <1>1. Capture!Times(<<>>, b) = 0
    <2> DEFINE none == {n \in DOMAIN <<>> : <<>>[n].body = b}
    <2>1. none = {}
      OBVIOUS
    <2>2. Capture!Cardinality(none) = Cardinality(none)
      BY DEF Capture!Cardinality, Cardinality
    <2>3. Capture!Times(<<>>, b) = Capture!Cardinality(none)
      BY DEF Capture!Times
    <2> HIDE DEF none
    <2> QED
      BY <2>1, <2>2, <2>3, FS_EmptySet
  <1>2. ASSUME q \in Seq(CaptureSubs) PROVE Capture!Times(q, b) \in Nat
    <2> DEFINE those == {n \in DOMAIN q : q[n].body = b}
    <2>1. those \subseteq 1 .. Len(q) /\ Len(q) \in Nat
      BY <1>2
    <2>2. Capture!Cardinality(those) = Cardinality(those)
      BY DEF Capture!Cardinality, Cardinality
    <2>3. Capture!Times(q, b) = Capture!Cardinality(those)
      BY DEF Capture!Times
    <2> HIDE DEF those
    <2>4. IsFiniteSet(1 .. Len(q))
      BY <2>1, FS_Interval
    <2> QED
      BY <2>1, <2>2, <2>3, <2>4, FS_Subset, FS_CardinalityType
  <1> QED
    BY <1>1, <1>2

LEMMA CaptureNothing == Capture!Nothing \in [Things -> CaptureGroups]
  BY DEF Capture!Nothing, CaptureGroups

LEMMA CaptureBooksInit == Capture!Init => CaptureBooks
  <1> SUFFICES ASSUME Capture!Init PROVE CaptureGood(state)
    BY DEF CaptureBooks
  <1> DEFINE refs == [b \in Capture!Bodies |-> 0]
             painted == [models |-> {}, mask |-> TRUE, own |-> TRUE]
  <1>1. /\ DOMAIN state = CaptureFields /\ state.kind = Capture!Nothing /\ state.seen = Capture!Nothing /\ state.shown = {}
        /\ state.helper = "none" /\ state.window = "none" /\ state.enabled = FALSE
        /\ state.requested = Capture!Nothing /\ state.fresh = FALSE /\ state.queue = <<>>
        /\ state.refs = refs /\ state.commands = <<>> /\ state.self = FALSE
        /\ state.painted = painted
    BY DEF Capture!Init, Capture!NoWindow, CaptureFields
  <1>2. CapturePainted(painted)
    BY DEF CapturePainted
  <1> HIDE DEF painted
  <1>3. CaptureAsked(state)
    BY <1>1, CaptureNothing DEF CaptureAsked
  <1>4. CaptureQueue(state)
    BY <1>1, CaptureTimes DEF CaptureQueue
  <1> HIDE DEF refs
  <1>5. CaptureRecord(state)
    <2>1. state.commands \in Seq(CaptureCommands) /\ Len(state.commands) = 0 /\ DOMAIN state.commands = {}
      BY <1>1
    <2>2. {state.enabled, state.self} \subseteq BOOLEAN /\ state.self = FALSE
      BY <1>1
    <2> QED
      BY <1>1, <2>1, <2>2 DEF CaptureRecord
  <1> QED
    BY <1>1, <1>2, <1>3, <1>4, <1>5 DEF CaptureGood

LEMMA CaptureBooksKept ==
  CaptureBooks => /\ Capture!ReferencesAreReturned /\ Capture!AskedIsListed
                  /\ Capture!PaintedAsSeen /\ Capture!OwnModelIsMasked
  <1> SUFFICES ASSUME CaptureGood(state)
               PROVE  /\ Capture!ReferencesAreReturned /\ Capture!AskedIsListed
                      /\ Capture!PaintedAsSeen /\ Capture!OwnModelIsMasked
    BY DEF CaptureBooks
  <1>1. Capture!ReferencesAreReturned
    BY DEF CaptureGood, CaptureQueue, Capture!ReferencesAreReturned
  <1>2. Capture!AskedIsListed
    BY DEF CaptureGood, CaptureAsked, Capture!AskedIsListed, Capture!Due
  <1>3. Capture!PaintedAsSeen /\ Capture!OwnModelIsMasked
    BY DEF CaptureGood, CapturePainted, Capture!PaintedAsSeen, Capture!OwnModelIsMasked
  <1> QED
    BY <1>1, <1>2, <1>3

\* What is submitted and drawn without the step that failed.
LEMMA CaptureWithout ==
  ASSUME NEW q \in Seq(CaptureSubs), NEW k \in 0 .. Len(q)
  PROVE  LET r == Capture!Without(q, k) IN
         /\ r \in Seq(CaptureSubs)
         /\ (\A n \in DOMAIN q : q[n].body = Capture!Self => n = 1) =>
              \A n \in DOMAIN r : r[n].body = Capture!Self => n = 1
  <1>1. CASE k = 0
    BY <1>1 DEF Capture!Without
  <1>2. CASE k # 0
    <2> DEFINE a == SubSeq(q, 1, k - 1)
               b == SubSeq(q, k + 1, Len(q))
               r == a \o b
    <2>1. Capture!Without(q, k) = r
      BY <1>2 DEF Capture!Without, Capture!RemoveAt
    <2>2. /\ a \in Seq(CaptureSubs) /\ Len(a) = k - 1 /\ \A n \in 1 .. k - 1 : a[n] = q[n]
          /\ b \in Seq(CaptureSubs) /\ Len(b) = Len(q) - k /\ \A n \in 1 .. Len(q) - k : b[n] = q[k + n]
      BY <1>2, SubSeqProperties
    <2> HIDE DEF a, b
    <2>3. /\ r \in Seq(CaptureSubs) /\ Len(r) = Len(q) - 1
          /\ \A n \in 1 .. Len(q) - 1 : r[n] = IF n < k THEN q[n] ELSE q[n + 1]
      <3>1. k \in 1 .. Len(q) /\ Len(q) \in Nat
        BY <1>2, LenProperties
      <3>2. r \in Seq(CaptureSubs) /\ Len(r) = Len(q) - 1
        <4>1. r \in Seq(CaptureSubs) /\ Len(r) = Len(a) + Len(b)
          BY <2>2, ConcatProperties
        <4>2. k - 1 + (Len(q) - k) = Len(q) - 1
          BY <3>1
        <4> HIDE DEF r
        <4> QED
          BY <2>2, <4>1, <4>2
      <3>3. ASSUME NEW n \in 1 .. Len(q) - 1 PROVE r[n] = IF n < k THEN q[n] ELSE q[n + 1]
        <4>1. CASE n < k
          <5>1. n \in 1 .. Len(a) + Len(b) /\ n \in 1 .. k - 1 /\ n <= Len(a)
            BY <2>2, <3>1, <3>3, <4>1
          <5>2. r[n] = a[n]
            BY <2>2, <5>1, ConcatProperties
          <5> QED
            BY <2>2, <4>1, <5>1, <5>2
        <4>2. CASE ~(n < k)
          <5>1. /\ n \in 1 .. Len(a) + Len(b) /\ ~(n <= Len(a)) /\ n - Len(a) = n + 1 - k
                /\ n + 1 - k \in 1 .. Len(q) - k /\ k + (n + 1 - k) = n + 1
            BY <2>2, <3>1, <3>3, <4>2
          <5>2. r[n] = b[n - Len(a)]
            BY <2>2, <5>1, ConcatProperties
          <5> QED
            BY <2>2, <4>2, <5>1, <5>2
        <4> QED
          BY <4>1, <4>2
      <3> QED
        BY <3>2, <3>3
    <2> HIDE DEF r
    <2>4. ASSUME \A n \in DOMAIN q : q[n].body = Capture!Self => n = 1,
                 NEW n \in DOMAIN r, r[n].body = Capture!Self
          PROVE  n = 1
      <3>1. n \in 1 .. Len(q) - 1 /\ n \in DOMAIN q /\ n + 1 \in DOMAIN q
        BY <2>3, <2>4
      <3> QED
        BY <1>2, <2>3, <2>4, <3>1
    <2> QED
      BY <2>1, <2>3, <2>4
  <1> QED
    BY <1>1, <1>2

\* The game thread submits the player's own model before the others.
LEMMA CaptureSubmits == ASSUME CaptureGood(state), Capture!WorldFrame PROVE CaptureGood(state')
  <1>1. PICK has \in BOOLEAN, objects \in Capture!SetToSeqs({i \in Things : Capture!Submittable(state, i)}) :
          LET own == IF has THEN <<Capture!Submission(Capture!Self, "zombie")>> ELSE <<>>
              rest == [n \in DOMAIN objects |-> Capture!Submission(objects[n], state.requested[objects[n]])]
              subs == Capture!Order(own, rest)
          IN  \E failing \in 0 .. Len(subs) :
                Capture!Failing(failing) /\ state' = Capture!Enqueued(state, subs, failing)
    BY DEF Capture!WorldFrame
  <1> DEFINE own == IF has THEN <<Capture!Submission(Capture!Self, "zombie")>> ELSE <<>>
             rest == [n \in DOMAIN objects |-> Capture!Submission(objects[n], state.requested[objects[n]])]
             subs == own \o rest
  <1>2. PICK failing \in 0 .. Len(subs) : state' = Capture!Enqueued(state, subs, failing)
    BY <1>1 DEF Capture!Order
  <1>3. PICK n \in Nat : DOMAIN objects = 1 .. n /\ \A k \in 1 .. n : objects[k] \in Things
    <2> DEFINE S == {i \in Things : Capture!Submittable(state, i)}
    <2>1. S \subseteq Things
      OBVIOUS
    <2> HIDE DEF S
    <2>2. IsFiniteSet(S)
      BY <2>1, CaptureAssumption, FS_Subset
    <2>3. Capture!Cardinality(S) = Cardinality(S)
      BY DEF Capture!Cardinality, Cardinality
    <2>4. Cardinality(S) \in Nat
      BY <2>2, FS_CardinalityType
    <2>5. objects \in [1 .. Capture!Cardinality(S) -> S]
      BY DEF S, Capture!SetToSeqs
    <2> QED
      BY <2>1, <2>3, <2>4, <2>5
  <1>4. /\ own \in Seq(CaptureSubs) /\ Len(own) <= 1
        /\ \A k \in 1 .. Len(own) : own[k].body = Capture!Self
    <2> DEFINE sub == Capture!Submission(Capture!Self, "zombie")
    <2>1. sub \in CaptureSubs /\ sub.body = Capture!Self
      BY DEF Capture!Submission, CaptureSubs, CaptureGroups, Capture!Kinds, Capture!Bodies
    <2>2. own = <<>> \/ own = <<sub>>
      OBVIOUS
    <2> HIDE DEF sub, own
    <2>3. CASE own = <<>>
      BY <2>3
    <2>4. CASE own = <<sub>>
      BY <2>1, <2>4
    <2> QED
      BY <2>2, <2>3, <2>4
  <1>5. /\ rest \in Seq(CaptureSubs) /\ Len(rest) = n
        /\ \A k \in 1 .. n : rest[k].body # Capture!Self
    <2>1. \A k \in 1 .. n : Capture!Submission(objects[k], state.requested[objects[k]]) \in CaptureSubs
      BY <1>3 DEF Capture!Submission, CaptureSubs, Capture!Bodies, CaptureGood, CaptureAsked
    <2>2. \A k \in 1 .. n : rest[k].body = objects[k]
      BY <1>3 DEF Capture!Submission
    <2>3. DOMAIN rest = 1 .. n
      BY <1>3
    <2>4. rest \in Seq(CaptureSubs) /\ Len(rest) = n
      BY <1>3, <2>1, <2>3
    <2> QED
      BY <1>3, <2>2, <2>4, CaptureAssumption DEF Capture!Self
  <1> HIDE DEF own, rest
  <1>6. subs \in Seq(CaptureSubs) /\ \A k \in DOMAIN subs : subs[k].body = Capture!Self => k = 1
    BY <1>4, <1>5
  <1> HIDE DEF subs
  <1> DEFINE made == Capture!Without(subs, failing)
             refs == [b \in Capture!Bodies |-> state.refs[b] + Capture!Times(made, b)]
  <1>7. made \in Seq(CaptureSubs) /\ \A k \in DOMAIN made : made[k].body = Capture!Self => k = 1
    BY <1>6, CaptureWithout
  <1>8. state' = [state EXCEPT !.refs = refs, !.queue = made]
    BY <1>2 DEF Capture!Enqueued
  <1> HIDE DEF made
  <1>9. DOMAIN refs = Capture!Bodies /\ \A b \in Capture!Bodies : refs[b] = Capture!Times(made, b)
    <2>1. state.queue = <<>>
      BY DEF Capture!WorldFrame
    <2> QED
      BY <1>7, <2>1, CaptureTimes DEF CaptureGood, CaptureQueue
  <1> HIDE DEF refs
  <1>10. /\ DOMAIN state' = CaptureFields /\ state'.kind = state.kind /\ state'.seen = state.seen /\ state'.shown = state.shown
         /\ state'.helper = state.helper /\ state'.window = state.window /\ state'.enabled = state.enabled
         /\ state'.requested = state.requested /\ state'.fresh = state.fresh /\ state'.queue = made
         /\ state'.refs = refs /\ state'.commands = state.commands /\ state'.last = state.last
         /\ state'.self = state.self /\ state'.painted = state.painted
    BY <1>8 DEF CaptureGood, CaptureFields
  <1>11. CaptureQueue(state')
    BY <1>7, <1>9, <1>10 DEF CaptureQueue
  <1>12. CaptureAsked(state') /\ CaptureRecord(state')
    BY <1>10 DEF CaptureGood, CaptureAsked, CaptureRecord
  <1> QED
    BY <1>10, <1>11, <1>12 DEF CaptureGood

\* The record has room for one, which is the first that is drawn into the window.
LEMMA CaptureRecords ==
  ASSUME NEW z, CaptureGood(z), NEW w \in Windows, NEW q \in Seq(CaptureSubs)
  PROVE  LET r == Capture!Recorded(z, w, q) IN
         /\ r \in Seq(CaptureCommands) /\ Len(r) <= 1
         /\ \A n \in DOMAIN r : r[n].window = z.window
         /\ z.commands # <<>> => r = z.commands
         /\ z.commands = <<>> /\ r # <<>> => Len(q) # 0 /\ r[1].body = q[1].body
  <1> DEFINE rest == [n \in DOMAIN q |-> [body |-> q[n].body, group |-> q[n].group, window |-> w]]
             s == z.commands \o rest
             m == IF Len(s) < 1 THEN Len(s) ELSE 1
             r == SubSeq(s, 1, m)
  <1>0. /\ z.commands \in Seq(CaptureCommands) /\ Len(z.commands) <= 1
        /\ \A n \in DOMAIN z.commands : z.commands[n].window = z.window
    BY DEF CaptureGood, CaptureRecord
  <1>1. CASE ~z.enabled \/ w # z.window
    BY <1>0, <1>1 DEF Capture!Recorded
  <1>2. CASE ~(~z.enabled \/ w # z.window)
    <2>1. Capture!Recorded(z, w, q) = r
      BY <1>2 DEF Capture!Recorded
    <2>2. /\ rest \in Seq(CaptureCommands) /\ Len(rest) = Len(q)
          /\ \A n \in 1 .. Len(q) : rest[n].body = q[n].body /\ rest[n].window = w
      <3>1. \A n \in 1 .. Len(q) : q[n] \in CaptureSubs /\ q[n].body \in Capture!Bodies /\ q[n].group \in CaptureGroups
        <4>1. \A x \in CaptureSubs : x.body \in Capture!Bodies /\ x.group \in CaptureGroups
          BY DEF CaptureSubs
        <4>2. \A n \in 1 .. Len(q) : q[n] \in CaptureSubs
          OBVIOUS
        <4> QED
          BY <4>1, <4>2
      <3>2. \A n \in 1 .. Len(q) : rest[n] \in CaptureCommands /\ rest[n].body = q[n].body /\ rest[n].window = w
        BY <3>1 DEF CaptureCommands
      <3>3. DOMAIN rest = 1 .. Len(q)
        OBVIOUS
      <3>4. rest \in Seq(CaptureCommands) /\ Len(rest) = Len(q)
        BY <3>2, <3>3
      <3> QED
        BY <3>2, <3>4
    <2> HIDE DEF rest
    <2>3. s \in Seq(CaptureCommands) /\ Len(s) = Len(z.commands) + Len(q)
          /\ \A n \in 1 .. Len(s) : s[n] = IF n <= Len(z.commands) THEN z.commands[n]
                                           ELSE rest[n - Len(z.commands)]
      BY <1>0, <2>2
    <2> HIDE DEF s
    <2>4. /\ r \in Seq(CaptureCommands) /\ Len(r) = m /\ m \in {0, 1} /\ (m = 0 <=> Len(s) = 0)
          /\ m = 1 => r[1] = s[1]
      BY <2>3, SubSeqProperties
    <2> HIDE DEF r, m
    <2>5. CASE Len(z.commands) = 1
      <3>1. m = 1 /\ r[1] = z.commands[1]
        BY <1>0, <2>3, <2>4, <2>5
      <3>2. r = z.commands
        BY <1>0, <2>4, <2>5, <3>1, SeqEqual
      <3> QED
        BY <1>0, <2>1, <2>4, <2>5, <3>2
    <2>6. CASE Len(z.commands) = 0
      <3>1. z.commands = <<>>
        BY <1>0, <2>6, EmptySeq
      <3>2. m = 1 => Len(q) # 0 /\ r[1] = rest[1]
        BY <2>3, <2>4, <2>6
      <3>3. \A n \in DOMAIN r : n = 1 /\ m = 1
        BY <2>4
      <3>4. r # <<>> => m = 1
        BY <2>4, EmptySeq
      <3> QED
        BY <1>2, <2>1, <2>2, <2>4, <3>1, <3>2, <3>3, <3>4
    <2>7. Len(z.commands) \in {0, 1}
      <3>1. Len(z.commands) \in Nat /\ Len(z.commands) <= 1
        BY <1>0, LenProperties
      <3>2. \A n \in Nat : n <= 1 => n \in {0, 1}
        OBVIOUS
      <3> QED
        BY <3>1, <3>2
    <2> QED
      BY <2>5, <2>6, <2>7
  <1> QED
    BY <1>1, <1>2

LEMMA CaptureDraws ==
  ASSUME CaptureGood(state), NEW w \in Windows, Capture!Draw(w) PROVE CaptureGood(state')
  <1>1. PICK failing \in 0 .. Len(state.queue) : state' = Capture!Drawn(state, w, failing)
    BY DEF Capture!Draw
  <1> DEFINE works == Capture!Without(state.queue, failing)
             refs == [b \in Capture!Bodies |-> state.refs[b] - Capture!Times(state.queue, b)]
             commands == Capture!Recorded(state, w, works)
             self == IF state.commands # <<>> THEN state.self
                     ELSE /\ state.enabled /\ w = state.window
                          /\ \E n \in DOMAIN works : works[n].body = Capture!Self
  <1>2. state' = [state EXCEPT !.queue = <<>>, !.refs = refs, !.commands = commands, !.self = self]
    BY <1>1 DEF Capture!Drawn
  <1>3. works \in Seq(CaptureSubs) /\ \A n \in DOMAIN works : works[n].body = Capture!Self => n = 1
    BY CaptureWithout DEF CaptureGood, CaptureQueue
  <1> HIDE DEF works
  <1>4. DOMAIN refs = Capture!Bodies /\ \A b \in Capture!Bodies : refs[b] = Capture!Times(<<>>, b)
    BY CaptureTimes DEF CaptureGood, CaptureQueue
  <1>5. /\ commands \in Seq(CaptureCommands) /\ Len(commands) <= 1
        /\ \A n \in DOMAIN commands : commands[n].window = state.window
        /\ state.commands # <<>> => commands = state.commands
        /\ state.commands = <<>> /\ commands # <<>> => Len(works) # 0 /\ commands[1].body = works[1].body
    BY <1>3, CaptureRecords
  <1>6. self \in BOOLEAN /\ (self = TRUE /\ commands # <<>> => commands[1].body = Capture!Self)
    <2>1. CASE state.commands # <<>>
      BY <1>5, <2>1 DEF CaptureGood, CaptureRecord
    <2>2. CASE state.commands = <<>>
      BY <1>3, <1>5, <2>2 DEF CaptureGood, CaptureRecord
    <2> QED
      BY <2>1, <2>2
  <1> HIDE DEF refs, commands, self
  <1>7. /\ DOMAIN state' = CaptureFields /\ state'.kind = state.kind /\ state'.seen = state.seen /\ state'.shown = state.shown
        /\ state'.helper = state.helper /\ state'.window = state.window /\ state'.enabled = state.enabled
        /\ state'.requested = state.requested /\ state'.fresh = state.fresh /\ state'.queue = <<>>
        /\ state'.refs = refs /\ state'.commands = commands /\ state'.last = state.last
        /\ state'.self = self /\ state'.painted = state.painted
    BY <1>2 DEF CaptureGood, CaptureFields
  <1>8. CaptureQueue(state')
    BY <1>4, <1>7 DEF CaptureQueue
  <1>9. CaptureRecord(state')
    BY <1>5, <1>6, <1>7 DEF CaptureGood, CaptureRecord
  <1>10. CaptureAsked(state')
    BY <1>7 DEF CaptureGood, CaptureAsked
  <1> QED
    BY <1>7, <1>8, <1>9, <1>10 DEF CaptureGood

\* The record is given up.
LEMMA CaptureDrops ==
  ASSUME NEW z, CaptureGood(z), NEW w \in Windows \cup {"none"}, NEW v \in {z.window, w}
  PROVE  CaptureGood(Capture!Dropped(z)) /\ CaptureGood([Capture!Dropped(z) EXCEPT !.window = v])
         /\ Capture!Dropped(z).window = z.window
         /\ Capture!Dropped(z).helper = z.helper /\ Capture!Dropped(z).seen = z.seen
         /\ Capture!Dropped(z).shown = z.shown
  <1> DEFINE d == [z EXCEPT !.enabled = FALSE, !.commands = <<>>]
  <1>1. Capture!Dropped(z) = d
    BY DEF Capture!Dropped
  <1>2. /\ DOMAIN d = CaptureFields /\ d.kind = z.kind /\ d.seen = z.seen /\ d.shown = z.shown
        /\ d.helper = z.helper /\ d.window = z.window /\ d.enabled = FALSE
        /\ d.requested = z.requested /\ d.fresh = z.fresh /\ d.queue = z.queue
        /\ d.refs = z.refs /\ d.commands = <<>> /\ d.last = z.last
        /\ d.self = z.self /\ d.painted = z.painted
    BY DEF CaptureGood, CaptureFields
  <1> HIDE DEF d
  <1>3. ASSUME NEW t, t = d \/ t = [d EXCEPT !.window = v] PROVE CaptureGood(t)
    <2>1. /\ DOMAIN t = CaptureFields /\ t.kind = z.kind /\ t.seen = z.seen /\ t.shown = z.shown
          /\ t.helper = z.helper /\ t.window \in {z.window, w} /\ t.enabled = FALSE
          /\ t.requested = z.requested /\ t.fresh = z.fresh /\ t.queue = z.queue
          /\ t.refs = z.refs /\ t.commands = <<>> /\ t.last = z.last
          /\ t.self = z.self /\ t.painted = z.painted
      BY <1>2, <1>3 DEF CaptureFields
    <2>2. CaptureAsked(t) /\ CaptureQueue(t) /\ CapturePainted(t.painted)
      BY <2>1 DEF CaptureGood, CaptureAsked, CaptureQueue
    <2>3. CaptureRecord(t)
      <3>1. t.commands \in Seq(CaptureCommands) /\ Len(t.commands) = 0 /\ DOMAIN t.commands = {}
        BY <2>1
      <3>2. {t.enabled, t.self} \subseteq BOOLEAN /\ t.window \in Windows \cup {"none"}
        BY <2>1 DEF CaptureGood, CaptureRecord
      <3> QED
        BY <2>1, <3>1, <3>2 DEF CaptureRecord
    <2> QED
      BY <2>1, <2>2, <2>3 DEF CaptureGood
  <1> QED
    BY <1>1, <1>2, <1>3

\* What the record shows of the window is painted as the lists have it.
LEMMA CapturePaints ==
  ASSUME NEW z, CaptureGood(z) PROVE CapturePainted(Capture!Painted(z, z.window))
  <1> DEFINE record == Capture!ToSet(z.commands)
             models == {m \in record : Capture!Colours(z, m) \in z.shown}
             own == {m \in record : m.body = Capture!Self}
             pairs == {<<m.body, Capture!Colours(z, m), z.seen[m.body]>> : m \in models}
             mask == z.self /\ z.commands # <<>> => own # {}
             mine == \A m \in models \cup own : m.window = z.window
             p == [models |-> pairs, mask |-> mask, own |-> mine]
  <1>1. Capture!Painted(z, z.window) = p
    BY DEF Capture!Painted
  <1>2. /\ z.commands \in Seq(CaptureCommands)
        /\ \A n \in DOMAIN z.commands : z.commands[n].window = z.window
        /\ z.self = TRUE /\ z.commands # <<>> => z.commands[1].body = Capture!Self
        /\ z.self \in BOOLEAN
    BY DEF CaptureGood, CaptureRecord
  <1>3. record = {z.commands[n] : n \in DOMAIN z.commands}
    BY DEF Capture!ToSet
  <1>4. mine
    BY <1>2, <1>3
  <1>5. mask
    <2> SUFFICES ASSUME z.self = TRUE, z.commands # <<>> PROVE own # {}
      BY <1>2
    <2>1. 1 \in DOMAIN z.commands
      BY <1>2, EmptySeq
    <2> QED
      BY <1>2, <1>3, <2>1
  <1>6. \A q \in pairs : q[2] = q[3]
    <2> SUFFICES ASSUME NEW m \in models PROVE Capture!Colours(z, m) = z.seen[m.body]
      OBVIOUS
    <2>1. "none" \notin z.shown
      BY DEF CaptureGood, CaptureAsked, Capture!Kinds
    <2> QED
      BY <2>1 DEF Capture!Colours
  <1>7. mask = TRUE /\ mine = TRUE
    BY <1>4, <1>5
  <1> HIDE DEF pairs, mask, mine
  <1>8. p.models = pairs /\ p.mask = TRUE /\ p.own = TRUE
    BY <1>7
  <1> HIDE DEF p
  <1> QED
    BY <1>1, <1>6, <1>8 DEF CapturePainted

LEMMA CaptureReplays ==
  ASSUME NEW z, CaptureGood(z), NEW w \in Windows PROVE CaptureGood(Capture!Replayed(z, w))
  <1> DEFINE off == [z EXCEPT !.enabled = FALSE]
             d == Capture!Dropped(z)
             p == Capture!Painted(z, w)
             t == [d EXCEPT !.painted = p]
             r == Capture!Replayed(z, w)
  <1>1. r = off \/ r = z \/ r = d \/ (w = z.window /\ r = t)
    BY DEF Capture!Replayed
  <1>2. CaptureGood(off)
    <2>1. /\ DOMAIN off = CaptureFields /\ off.kind = z.kind /\ off.seen = z.seen /\ off.shown = z.shown
          /\ off.helper = z.helper /\ off.window = z.window /\ off.enabled = FALSE
          /\ off.requested = z.requested /\ off.fresh = z.fresh /\ off.queue = z.queue
          /\ off.refs = z.refs /\ off.commands = z.commands /\ off.last = z.last
          /\ off.self = z.self /\ off.painted = z.painted
      BY DEF CaptureGood, CaptureFields
    <2> HIDE DEF off
    <2>2. CaptureAsked(off) /\ CaptureQueue(off) /\ CapturePainted(off.painted)
      BY <2>1 DEF CaptureGood, CaptureAsked, CaptureQueue
    <2>3. CaptureRecord(off)
      BY <2>1 DEF CaptureGood, CaptureRecord
    <2> QED
      BY <2>1, <2>2, <2>3 DEF CaptureGood
  <1>3. CaptureGood(d)
    BY CaptureDrops
  <1> HIDE DEF off, d
  <1>4. ASSUME w = z.window PROVE CaptureGood(t)
    <2>1. CapturePainted(p)
      BY <1>4, CapturePaints
    <2> HIDE DEF p
    <2>2. /\ DOMAIN t = CaptureFields /\ t.kind = d.kind /\ t.seen = d.seen /\ t.shown = d.shown
          /\ t.helper = d.helper /\ t.window = d.window /\ t.enabled = d.enabled
          /\ t.requested = d.requested /\ t.fresh = d.fresh /\ t.queue = d.queue
          /\ t.refs = d.refs /\ t.commands = d.commands /\ t.last = d.last
          /\ t.self = d.self /\ t.painted = p
      BY <1>3 DEF CaptureGood, CaptureFields
    <2> HIDE DEF t
    <2>3. CaptureAsked(t) /\ CaptureQueue(t) /\ CaptureRecord(t)
      BY <1>3, <2>2 DEF CaptureGood, CaptureAsked, CaptureQueue, CaptureRecord
    <2> QED
      BY <2>1, <2>2, <2>3 DEF CaptureGood
  <1> HIDE DEF t, r
  <1>5. CaptureGood(r)
    BY <1>1, <1>2, <1>3, <1>4
  <1> QED
    BY <1>5 DEF r

\* The capture is for the window.
LEMMA CaptureRebinds ==
  ASSUME NEW z, CaptureGood(z), NEW w \in Windows
  PROVE  LET t == Capture!Rebound(z, w)
         IN  CaptureGood(t) /\ t.window = w /\ t.seen = z.seen /\ t.shown = z.shown
  <1> DEFINE d == Capture!Dropped(z)
  <1>1. CASE z.window = w
    BY <1>1 DEF Capture!Rebound
  <1>2. CASE z.window # w /\ z.window = "none"
    <2> DEFINE t == [z EXCEPT !.window = w]
    <2>1. Capture!Rebound(z, w) = t
      BY <1>2 DEF Capture!Rebound, Capture!NoWindow
    <2>2. /\ DOMAIN t = CaptureFields /\ t.kind = z.kind /\ t.seen = z.seen /\ t.shown = z.shown
          /\ t.helper = z.helper /\ t.window = w /\ t.enabled = z.enabled
          /\ t.requested = z.requested /\ t.fresh = z.fresh /\ t.queue = z.queue
          /\ t.refs = z.refs /\ t.commands = z.commands /\ t.last = z.last
          /\ t.self = z.self /\ t.painted = z.painted
      BY DEF CaptureGood, CaptureFields
    <2> HIDE DEF t
    <2>3. CaptureAsked(t) /\ CaptureQueue(t) /\ CapturePainted(t.painted)
      BY <2>2 DEF CaptureGood, CaptureAsked, CaptureQueue
    <2>4. DOMAIN z.commands = {}
      <3>1. ASSUME NEW n \in DOMAIN z.commands PROVE FALSE
        <4>1. z.commands[n] \in CaptureCommands /\ z.commands[n].window = "none"
          BY <1>2 DEF CaptureGood, CaptureRecord
        <4> HIDE DEF CaptureCommands
        <4>2. z.commands[n].window \in Windows
          BY <4>1 DEF CaptureCommands
        <4> QED
          BY <4>1, <4>2, CaptureAssumption
      <3> QED
        BY <3>1
    <2>5. CaptureRecord(t)
      BY <2>2, <2>4 DEF CaptureGood, CaptureRecord
    <2> QED
      BY <2>1, <2>2, <2>3, <2>5 DEF CaptureGood
  <1>3. CASE z.window # w /\ z.window # "none"
    <2> DEFINE t == [d EXCEPT !.window = w]
    <2>1. Capture!Rebound(z, w) = t
      BY <1>3 DEF Capture!Rebound, Capture!NoWindow
    <2>2. CaptureGood(t) /\ CaptureGood(d) /\ d.seen = z.seen /\ d.shown = z.shown
      BY CaptureDrops
    <2> HIDE DEF d
    <2>3. t.window = w /\ t.seen = d.seen /\ t.shown = d.shown
      BY <2>2 DEF CaptureGood, CaptureFields
    <2> QED
      BY <2>1, <2>2, <2>3
  <1> QED
    BY <1>1, <1>2, <1>3

LEMMA CaptureSelects ==
  ASSUME NEW z, CaptureGood(z) PROVE Capture!Selection(z) \in [Things -> CaptureGroups]
  BY DEF Capture!Selection, CaptureGood, CaptureAsked, CaptureGroups

\* The selection is said, and remembered as what was listed.
LEMMA CaptureAsks ==
  ASSUME NEW z, CaptureGood(z), NEW helper \in {"none", "bound", "ready"}, z.window \in Windows
  PROVE  CaptureGood([Capture!Queued(z, helper) EXCEPT !.enabled = TRUE, !.last = Capture!Selection(z)])
  <1> DEFINE h == IF z.helper = "ready" \/ helper = "none" THEN z.helper ELSE helper
             u == [z EXCEPT !.helper = h]
             l == Capture!Selection(z)
             fresh == l # Capture!Nothing
             v == [u EXCEPT !.requested = l, !.fresh = fresh]
             q == Capture!Queued(z, helper)
             t == [q EXCEPT !.enabled = TRUE, !.last = l]
  <1>1. h # "ready" => z.helper # "ready"
    OBVIOUS
  <1>2. Capture!SetUp(z, helper) = u
    BY DEF Capture!SetUp
  <1> HIDE DEF h
  <1>3. /\ DOMAIN u = CaptureFields /\ u.kind = z.kind /\ u.seen = z.seen /\ u.shown = z.shown
        /\ u.helper = h /\ u.window = z.window /\ u.enabled = z.enabled
        /\ u.requested = z.requested /\ u.fresh = z.fresh /\ u.queue = z.queue
        /\ u.refs = z.refs /\ u.commands = z.commands /\ u.last = z.last
        /\ u.self = z.self /\ u.painted = z.painted
    BY DEF CaptureGood, CaptureFields
  <1>4. Capture!Selection(u) = l
    BY <1>3 DEF Capture!Selection
  <1>5. q = IF h = "ready" THEN v ELSE u
    BY <1>2, <1>3, <1>4 DEF Capture!Queued, Capture!Published
  <1>6. l \in [Things -> CaptureGroups] /\ fresh \in BOOLEAN
    BY CaptureSelects
  <1> HIDE DEF u, l, fresh, q
  <1>7. /\ DOMAIN q = CaptureFields /\ q.kind = z.kind /\ q.seen = z.seen /\ q.shown = z.shown
        /\ q.helper = h /\ q.window = z.window /\ q.queue = z.queue
        /\ q.refs = z.refs /\ q.commands = z.commands /\ q.self = z.self /\ q.painted = z.painted
        /\ IF h = "ready" THEN q.requested = l /\ q.fresh = fresh
           ELSE q.requested = z.requested /\ q.fresh = z.fresh
    BY <1>3, <1>5 DEF CaptureFields
  <1>8. /\ DOMAIN t = CaptureFields /\ t.kind = z.kind /\ t.seen = z.seen /\ t.shown = z.shown
        /\ t.helper = h /\ t.window = z.window /\ t.queue = z.queue /\ t.enabled = TRUE
        /\ t.refs = z.refs /\ t.commands = z.commands /\ t.self = z.self /\ t.painted = z.painted
        /\ t.last = l /\ t.requested = q.requested /\ t.fresh = q.fresh
    BY <1>7 DEF CaptureFields
  <1> HIDE DEF t
  <1>9. CaptureAsked(t)
    <2>1. CASE h = "ready"
      BY <1>6, <1>7, <1>8, <2>1 DEF CaptureGood, CaptureAsked
    <2>2. CASE h # "ready"
      BY <1>1, <1>7, <1>8, <2>2 DEF CaptureGood, CaptureAsked
    <2> QED
      BY <2>1, <2>2
  <1>10. CaptureQueue(t) /\ CapturePainted(t.painted)
    BY <1>8 DEF CaptureGood, CaptureQueue
  <1>11. CaptureRecord(t)
    BY <1>8 DEF CaptureGood, CaptureRecord
  <1>12. CaptureGood(t)
    BY <1>8, <1>9, <1>10, <1>11 DEF CaptureGood
  <1> QED
    BY <1>12 DEF t, q, l

\* With nothing to paint, nothing is asked for.
LEMMA CaptureClears ==
  ASSUME NEW z, CaptureGood(z) PROVE CaptureGood([Capture!Cleared(z) EXCEPT !.last = Capture!Nothing])
  <1> DEFINE d == Capture!Dropped(z)
             a == IF z.helper = "none" THEN d.requested ELSE Capture!Nothing
             b == IF z.helper = "none" THEN d.fresh ELSE FALSE
             c == [d EXCEPT !.requested = a, !.fresh = b]
             t == [c EXCEPT !.last = Capture!Nothing]
  <1>1. CaptureGood(d) /\ d.helper = z.helper
    BY CaptureDrops
  <1>2. Capture!Cleared(z) = c
    BY DEF Capture!Cleared
  <1>3. b = FALSE /\ a \in [Things -> CaptureGroups]
    BY <1>1, CaptureNothing DEF CaptureGood, CaptureAsked
  <1> HIDE DEF a, b, d
  <1>4. /\ DOMAIN t = CaptureFields /\ t.kind = d.kind /\ t.seen = d.seen /\ t.shown = d.shown
        /\ t.helper = d.helper /\ t.window = d.window /\ t.enabled = d.enabled
        /\ t.requested = a /\ t.fresh = b /\ t.queue = d.queue
        /\ t.refs = d.refs /\ t.commands = d.commands /\ t.self = d.self /\ t.painted = d.painted
    BY <1>1 DEF CaptureGood, CaptureFields
  <1> HIDE DEF c
  <1>5. t = [Capture!Cleared(z) EXCEPT !.last = Capture!Nothing]
    BY <1>2
  <1> HIDE DEF t
  <1>6. CaptureAsked(t)
    BY <1>1, <1>3, <1>4 DEF CaptureGood, CaptureAsked
  <1>7. CaptureQueue(t) /\ CaptureRecord(t) /\ CapturePainted(t.painted)
    BY <1>1, <1>4 DEF CaptureGood, CaptureQueue, CaptureRecord
  <1>8. CaptureGood(t)
    BY <1>4, <1>6, <1>7 DEF CaptureGood
  <1> QED
    BY <1>5, <1>8

LEMMA CaptureEnables ==
  ASSUME NEW z, CaptureGood(z), NEW w \in Windows, NEW helper \in {"none", "bound", "ready"}
  PROVE  CaptureGood(Capture!Enabled(z, w, helper))
  <1> DEFINE own == Capture!Rebound(z, w)
             a == [Capture!Cleared(z) EXCEPT !.last = Capture!Nothing]
             b == [Capture!Cleared(own) EXCEPT !.last = Capture!Nothing]
             c == [Capture!Queued(own, helper) EXCEPT !.enabled = TRUE, !.last = Capture!Selection(z)]
             r == Capture!Enabled(z, w, helper)
  <1>1. r = a \/ r = z \/ r = b \/ r = c
    BY DEF Capture!Enabled
  <1>2. CaptureGood(own) /\ own.window = w /\ own.seen = z.seen /\ own.shown = z.shown
    BY CaptureRebinds
  <1> HIDE DEF own
  <1>3. Capture!Selection(z) = Capture!Selection(own)
    BY <1>2 DEF Capture!Selection
  <1>4. CaptureGood(a) /\ CaptureGood(b)
    BY <1>2, CaptureClears
  <1>5. CaptureGood(c)
    BY <1>2, <1>3, CaptureAsks
  <1> HIDE DEF a, b, c, r
  <1>6. CaptureGood(r)
    BY <1>1, <1>4, <1>5
  <1> QED
    BY <1>6 DEF r

\* What changes nothing of the capture, nor what it shows.
LEMMA CaptureStays ==
  ASSUME NEW z, CaptureGood(z), NEW t, DOMAIN t = CaptureFields,
         t.kind \in [Things -> CaptureGroups], t.seen \in [Things -> CaptureGroups], t.shown \subseteq Capture!Kinds,
         t.helper = z.helper, t.window = z.window, t.enabled = z.enabled,
         t.requested = z.requested, t.fresh = z.fresh \/ t.fresh = FALSE, t.queue = z.queue,
         t.refs = z.refs, t.commands = z.commands, t.last = z.last, t.self = z.self,
         t.painted = z.painted
  PROVE  CaptureGood(t)
  <1>1. CaptureAsked(t)
    BY DEF CaptureGood, CaptureAsked
  <1>2. CaptureQueue(t) /\ CaptureRecord(t) /\ CapturePainted(t.painted)
    BY DEF CaptureGood, CaptureQueue, CaptureRecord
  <1> QED
    BY <1>1, <1>2 DEF CaptureGood

LEMMA CaptureFrames ==
  ASSUME CaptureGood(state), NEW w \in Windows, Capture!Frame(w) PROVE CaptureGood(state')
  <1>1. PICK how \in {"ready", "waiting", "refused"}, helper \in {"none", "bound", "ready"} :
          state' = Capture!Enabled(Capture!Replayed(Capture!Initialized(state, how), w), w, helper)
    BY DEF Capture!Frame
  <1> DEFINE s == IF state.status = "waiting" THEN how ELSE state.status
             i == [state EXCEPT !.status = s]
  <1>2. Capture!Initialized(state, how) = i
    BY DEF Capture!Initialized
  <1> HIDE DEF s
  <1>3. /\ DOMAIN i = CaptureFields /\ i.kind = state.kind /\ i.seen = state.seen /\ i.shown = state.shown
        /\ i.helper = state.helper /\ i.window = state.window /\ i.enabled = state.enabled
        /\ i.requested = state.requested /\ i.fresh = state.fresh /\ i.queue = state.queue
        /\ i.refs = state.refs /\ i.commands = state.commands /\ i.last = state.last
        /\ i.self = state.self /\ i.painted = state.painted
    BY DEF CaptureGood, CaptureFields
  <1> HIDE DEF i
  <1>4. CaptureGood(i)
    BY <1>3, CaptureStays DEF CaptureGood, CaptureAsked
  <1>5. CaptureGood(Capture!Replayed(i, w))
    BY <1>4, CaptureReplays
  <1> QED
    BY <1>1, <1>2, <1>5, CaptureEnables

LEMMA CaptureBooksStep ==
  CaptureBooks /\ [Capture!Next]_all => CaptureBooks'
  <1> SUFFICES ASSUME CaptureGood(state), [Capture!Next]_all PROVE CaptureGood(state')
    BY DEF CaptureBooks
  <1>1. ASSUME NEW kind \in [Things -> CaptureGroups], state' = [state EXCEPT !.kind = kind]
        PROVE  CaptureGood(state')
    <2>1. /\ DOMAIN state' = CaptureFields /\ state'.kind = kind /\ state'.seen = state.seen
          /\ state'.shown = state.shown
          /\ state'.helper = state.helper /\ state'.window = state.window /\ state'.enabled = state.enabled
          /\ state'.requested = state.requested /\ state'.fresh = state.fresh /\ state'.queue = state.queue
          /\ state'.refs = state.refs /\ state'.commands = state.commands /\ state'.last = state.last
          /\ state'.self = state.self /\ state'.painted = state.painted
      BY <1>1 DEF CaptureGood, CaptureFields
    <2>2. state'.seen \in [Things -> CaptureGroups] /\ state'.shown \subseteq Capture!Kinds
      BY <2>1 DEF CaptureGood, CaptureAsked
    <2> QED
      BY <2>1, <2>2, CaptureStays
  <1>2. ASSUME NEW seen \in [Things -> CaptureGroups], NEW shown \in SUBSET Capture!Kinds, NEW viewpoint,
               \/ state' = [state EXCEPT !.seen = seen] \/ state' = [state EXCEPT !.shown = shown]
               \/ state' = [state EXCEPT !.viewpoint = viewpoint] \/ state' = [state EXCEPT !.fresh = FALSE]
        PROVE  CaptureGood(state')
    <2>1. /\ DOMAIN state' = CaptureFields /\ state'.kind = state.kind
          /\ state'.seen \in {seen, state.seen} /\ state'.shown \in {shown, state.shown}
          /\ state'.helper = state.helper /\ state'.window = state.window /\ state'.enabled = state.enabled
          /\ state'.requested = state.requested /\ (state'.fresh = state.fresh \/ state'.fresh = FALSE)
          /\ state'.queue = state.queue
          /\ state'.refs = state.refs /\ state'.commands = state.commands /\ state'.last = state.last
          /\ state'.self = state.self /\ state'.painted = state.painted
      BY <1>2 DEF CaptureGood, CaptureFields
    <2>2. /\ state'.kind \in [Things -> CaptureGroups] /\ state'.seen \in [Things -> CaptureGroups]
          /\ state'.shown \subseteq Capture!Kinds
      BY <2>1 DEF CaptureGood, CaptureAsked
    <2> QED
      BY <2>1, <2>2, CaptureStays
  <1>3. CASE Capture!Live
    BY <1>1, <1>3, CaptureNothing DEF Capture!Live
  <1>4. ASSUME NEW i \in Things, NEW k \in Capture!Kinds \cup {"none"}, Capture!Become(i, k)
        PROVE  CaptureGood(state')
    <2> DEFINE kind == [state.kind EXCEPT ![i] = k]
    <2>1. state' = [state EXCEPT !.kind = kind]
      BY <1>4 DEF Capture!Become
    <2>2. kind \in [Things -> CaptureGroups]
      BY DEF CaptureGood, CaptureAsked, CaptureGroups
    <2> HIDE DEF kind
    <2> QED
      BY <1>1, <2>1, <2>2
  <1>5. /\ state.seen \in [Things -> CaptureGroups] /\ state.kind \in [Things -> CaptureGroups]
        /\ state.shown \in SUBSET Capture!Kinds
    BY DEF CaptureGood, CaptureAsked
  <1>6. CASE Capture!Snapshot
    BY <1>2, <1>5, <1>6 DEF Capture!Snapshot
  <1>7. CASE Capture!Switch
    <2>1. CASE state' = [state EXCEPT !.viewpoint = ~@]
      <3> DEFINE viewpoint == ~state.viewpoint
      <3>1. state' = [state EXCEPT !.viewpoint = viewpoint]
        BY <2>1
      <3> HIDE DEF viewpoint
      <3> QED
        BY <1>2, <1>5, <3>1
    <2>2. ASSUME NEW k \in Capture!Kinds,
                 state' = [state EXCEPT !.shown = IF k \in @ THEN @ \ {k} ELSE @ \cup {k}]
          PROVE  CaptureGood(state')
      <3> DEFINE shown == IF k \in state.shown THEN state.shown \ {k} ELSE state.shown \cup {k}
      <3>1. state' = [state EXCEPT !.shown = shown]
        BY <2>2
      <3>2. shown \in SUBSET Capture!Kinds
        BY <1>5
      <3> HIDE DEF shown
      <3> QED
        BY <1>2, <1>5, <3>1, <3>2
    <2> QED
      BY <1>7, <2>1, <2>2 DEF Capture!Switch
  <1>8. CASE Capture!Expire
    BY <1>2, <1>5, <1>8 DEF Capture!Expire
  <1>9. CASE Capture!WorldFrame
    BY <1>9, CaptureSubmits
  <1>10. ASSUME NEW w \in Windows, Capture!Draw(w) \/ Capture!Frame(w) PROVE CaptureGood(state')
    BY <1>10, CaptureDraws, CaptureFrames
  <1>11. CASE UNCHANGED all
    BY <1>11 DEF all
  <1> QED
    BY <1>3, <1>4, <1>6, <1>7, <1>8, <1>9, <1>10, <1>11 DEF Capture!Next

-----------------------------------------------------------------------------
(* LuaControls: the tables and the icons are numbered as they are made, so that each number is
   that of one category or icon; controls belong to the script of their category. *)

Menu == INSTANCE LuaControls WITH menu <- state, MaxRequests <- FewRequests, MaxFaults <- FewFaults, Scripts <- Medicines, NoScript <- NoWeapon, Names <- Persons, Labels <- Things, Items <- Persons, Numbers <- {0, 1}, Ranges <- {<<0, 0>>, <<1, 0>>}, MaxMade <- 2, MaxShapes <- 1

MenuFields ==
  {"categories", "icons", "selected", "nextCategory", "nextIcon", "owner", "creating", "tables",
   "pens", "open", "alive", "loaded", "op", "executing", "saved"}

MenuControlFields == {"type", "value", "low", "high", "items", "of", "from"}

MenuControl(x, c) ==
  /\ DOMAIN x = MenuControlFields
  /\ x.of = c.made /\ x.from = c.owner /\ x.type \in Menu!Types
  /\ {x.value, x.low, x.high} \subseteq {0, 1}
  /\ DOMAIN x.items = Persons /\ \A i \in Persons : x.items[i] \in {0, 1}
  /\ x.type = "slider" /\ c.standalone = FALSE /\ x.low <= x.high => x.low <= x.value /\ x.value <= x.high

MenuCategory(c, made) ==
  /\ DOMAIN c = {"id", "made", "name", "standalone", "owner", "shapes", "controls"}
  /\ c.made \in 1 .. made /\ c.id = c.made - 1 /\ c.standalone \in BOOLEAN
  /\ \A l \in DOMAIN c.controls : MenuControl(c.controls[l], c)

MenuIcon(i, made) ==
  /\ DOMAIN i = {"id", "made", "owner", "shapes"}
  /\ i.made \in 1 .. made /\ i.id = i.made - 1 /\ i.shapes \in Seq(Nat)
  /\ \A k \in DOMAIN i.shapes : i.shapes[k] = i.made

\* Numbers that were given one after the other.
MenuCounts(list, n) ==
  list \in Seq(Nat) /\ Len(list) = n /\ \A k \in 1 .. n : list[k] = k - 1

MenuNumbers(z) ==
  /\ MenuCounts(z.tables, z.nextCategory) /\ MenuCounts(z.pens, z.nextIcon)
  /\ z.creating = <<>> \/ \E x : z.creating = <<x>> /\ x.standalone \in BOOLEAN
  /\ z.nextCategory + z.nextIcon + Len(z.creating) <= 2

MenuCategories(z) ==
  /\ \A c \in z.categories : MenuCategory(c, Len(z.tables))
  /\ \A c, d \in z.categories : c.made = d.made => c = d

MenuIcons(z) == \A i \in z.icons : MenuIcon(i, Len(z.pens))

\* A list that was saved, for a script.
MenuSaved(list, s) ==
  \A v \in list : v.made \in {1, 2} /\ v.from = s /\ v.value \in {0, 1}

MenuSelected(z) ==
  z.open = TRUE /\ z.selected # 0 =>
    \E c \in z.categories : c.id = z.selected /\ c.standalone = FALSE

MenuGood(z) ==
  /\ DOMAIN z = MenuFields /\ z.open \in BOOLEAN
  /\ MenuNumbers(z) /\ MenuCategories(z) /\ MenuIcons(z) /\ MenuSaved(z.saved, z.op) /\ MenuSelected(z)

MenuBooks == MenuGood(state)

LEMMA MenuBooksInit == Menu!Init => MenuBooks
  <1> SUFFICES ASSUME Menu!Init PROVE MenuGood(state)
    BY DEF MenuBooks
  <1>1. /\ DOMAIN state = MenuFields /\ state.categories = {} /\ state.icons = {}
        /\ state.selected = 0 /\ state.nextCategory = 0 /\ state.nextIcon = 0
        /\ state.creating = <<>> /\ state.tables = <<>> /\ state.pens = <<>>
        /\ state.open = FALSE /\ state.saved = {}
    BY DEF Menu!Init, MenuFields
  <1>2. MenuNumbers(state)
    BY <1>1 DEF MenuNumbers, MenuCounts
  <1>3. MenuCategories(state) /\ MenuIcons(state) /\ MenuSaved(state.saved, state.op)
    BY <1>1 DEF MenuCategories, MenuIcons, MenuSaved
  <1>4. MenuSelected(state)
    BY <1>1 DEF MenuSelected
  <1> QED
    BY <1>1, <1>2, <1>3, <1>4 DEF MenuGood

LEMMA MenuBooksKept ==
  MenuBooks => /\ Menu!TablesReachTheirOwn /\ Menu!ValuesStayWithTheirScript
               /\ Menu!ValuesAreInRange /\ Menu!SelectedIsListed
  <1> SUFFICES ASSUME MenuGood(state)
               PROVE  /\ Menu!TablesReachTheirOwn /\ Menu!ValuesStayWithTheirScript
                      /\ Menu!ValuesAreInRange /\ Menu!SelectedIsListed
    BY DEF MenuBooks
  <1>1. ASSUME NEW c \in state.categories, NEW l \in DOMAIN c.controls
        PROVE  MenuControl(c.controls[l], c)
    BY DEF MenuGood, MenuCategories, MenuCategory
  <1>2. ASSUME NEW i \in state.icons, NEW k \in DOMAIN i.shapes PROVE i.shapes[k] = i.made
    BY DEF MenuGood, MenuIcons, MenuIcon
  <1>3. Menu!TablesReachTheirOwn
    BY <1>1, <1>2 DEF Menu!TablesReachTheirOwn, MenuControl
  <1>4. Menu!ValuesStayWithTheirScript
    BY <1>1 DEF Menu!ValuesStayWithTheirScript, MenuControl
  <1>5. Menu!ValuesAreInRange
    <2> SUFFICES ASSUME NEW c \in state.categories, NEW l \in DOMAIN c.controls
                 PROVE  LET x == c.controls[l] IN
                        /\ x.type = "slider" /\ ~c.standalone /\ x.low <= x.high =>
                             x.low <= x.value /\ x.value <= x.high
                        /\ \A i \in Persons : x.items[i] <= 1
      BY DEF Menu!ValuesAreInRange
    <2> DEFINE x == c.controls[l]
    <2>1. c.standalone \in BOOLEAN
      BY DEF MenuGood, MenuCategories, MenuCategory
    <2>2. MenuControl(x, c)
      BY <1>1
    <2> HIDE DEF x
    <2>3. x.type = "slider" /\ ~c.standalone /\ x.low <= x.high => x.low <= x.value /\ x.value <= x.high
      BY <2>1, <2>2 DEF MenuControl
    <2>4. \A i \in Persons : x.items[i] <= 1
      BY <2>2 DEF MenuControl
    <2> QED
      BY <2>3, <2>4 DEF x
  <1>6. Menu!SelectedIsListed
    BY DEF MenuGood, MenuSelected, MenuCategories, MenuCategory, Menu!SelectedIsListed
  <1> QED
    BY <1>3, <1>4, <1>5, <1>6

\* What was made first, of what was made at all.
LEMMA MenuFirst ==
  ASSUME NEW S, S # {}, \A v \in S : v.made \in {1, 2} PROVE Menu!First(S) \in S
  <1>1. \E c \in S : \A d \in S : c.made <= d.made
    <2>1. CASE \E c \in S : c.made = 1
      BY <2>1
    <2>2. CASE \A c \in S : c.made = 2
      BY <2>2
    <2> QED
      BY <2>1, <2>2
  <1> QED
    BY <1>1 DEF Menu!First

LEMMA MenuCounted ==
  ASSUME NEW z, MenuGood(z)
  PROVE  /\ z.tables \in Seq(Nat) /\ Len(z.tables) \in Nat /\ z.nextCategory = Len(z.tables)
         /\ z.pens \in Seq(Nat) /\ Len(z.pens) \in Nat /\ z.nextIcon = Len(z.pens)
         /\ Len(z.creating) \in {0, 1} /\ (z.creating = <<>> <=> Len(z.creating) = 0)
         /\ Len(z.tables) <= 2 /\ Len(z.pens) <= 2
         /\ Len(z.creating) = 1 => Len(z.tables) + Len(z.pens) < 2
         /\ \A k \in DOMAIN z.tables : k \in 1 .. Len(z.tables) /\ z.tables[k] = k - 1
         /\ \A k \in DOMAIN z.pens : k \in 1 .. Len(z.pens) /\ z.pens[k] = k - 1
  <1>1. /\ z.tables \in Seq(Nat) /\ Len(z.tables) \in Nat /\ z.nextCategory = Len(z.tables)
        /\ z.pens \in Seq(Nat) /\ Len(z.pens) \in Nat /\ z.nextIcon = Len(z.pens)
    BY DEF MenuGood, MenuNumbers, MenuCounts
  <1>2. Len(z.creating) \in {0, 1} /\ (z.creating = <<>> <=> Len(z.creating) = 0)
    <2>1. CASE z.creating = <<>>
      BY <2>1
    <2>2. ASSUME NEW x, z.creating = <<x>>
          PROVE Len(z.creating) \in {0, 1} /\ (z.creating = <<>> <=> Len(z.creating) = 0)
      BY <2>2
    <2> QED
      BY <2>1, <2>2 DEF MenuGood, MenuNumbers
  <1>3. Len(z.tables) + Len(z.pens) + Len(z.creating) <= 2
    BY <1>1 DEF MenuGood, MenuNumbers
  <1>4. DOMAIN z.tables = 1 .. Len(z.tables) /\ DOMAIN z.pens = 1 .. Len(z.pens)
    BY <1>1
  <1>5. /\ \A k \in DOMAIN z.tables : k \in 1 .. Len(z.tables) /\ z.tables[k] = k - 1
        /\ \A k \in DOMAIN z.pens : k \in 1 .. Len(z.pens) /\ z.pens[k] = k - 1
    BY <1>1, <1>4 DEF MenuGood, MenuNumbers, MenuCounts
  <1>6. /\ Len(z.tables) <= 2 /\ Len(z.pens) <= 2
        /\ Len(z.creating) = 1 => Len(z.tables) + Len(z.pens) < 2
    <2> DEFINE a == Len(z.tables)
               b == Len(z.pens)
               d == Len(z.creating)
    <2>1. a \in Nat /\ b \in Nat /\ d \in {0, 1} /\ a + b + d <= 2
      BY <1>1, <1>2, <1>3
    <2> HIDE DEF a, b, d
    <2>2. a <= 2 /\ b <= 2 /\ (d = 1 => a + b < 2)
      BY <2>1
    <2> QED
      BY <2>2 DEF a, b, d
  <1> QED
    BY <1>1, <1>2, <1>5, <1>6

\* Where nothing is being made, what may be made is what is left.
LEMMA MenuRoom ==
  ASSUME NEW z, MenuGood(z), z.creating = <<>>, Len(z.tables) + Len(z.pens) + Len(z.creating) < 2
  PROVE  z.nextCategory \in Nat /\ z.nextIcon \in Nat /\ z.nextCategory + z.nextIcon < 2
  <1> DEFINE a == Len(z.tables)
             b == Len(z.pens)
             d == Len(z.creating)
  <1>1. a \in Nat /\ b \in Nat /\ d = 0 /\ a + b + d < 2 /\ z.nextCategory = a /\ z.nextIcon = b
    BY MenuCounted
  <1> HIDE DEF a, b, d
  <1> QED
    BY <1>1

\* One more is made.
LEMMA MenuCountsOn ==
  ASSUME NEW list, NEW n, MenuCounts(list, n)
  PROVE  /\ MenuCounts(Append(list, n), n + 1) /\ n \in Nat
         /\ Len(Append(list, n)) = n + 1
  BY DEF MenuCounts

LEMMA MenuFew ==
  ASSUME NEW z, MenuGood(z)
  PROVE  /\ \A c \in z.categories : c.made \in {1, 2} /\ c.made \in 1 .. Len(z.tables)
         /\ \A i \in z.icons : i.made \in {1, 2} /\ i.made \in 1 .. Len(z.pens)
  <1>1. Len(z.tables) \in Nat /\ Len(z.pens) \in Nat /\ Len(z.tables) <= 2 /\ Len(z.pens) <= 2
    BY MenuCounted
  <1> QED
    BY <1>1 DEF MenuGood, MenuCategories, MenuCategory, MenuIcons, MenuIcon

\* What is about none of this.
LEMMA MenuStays ==
  ASSUME NEW z, MenuGood(z), NEW t, DOMAIN t = MenuFields,
         t.categories = z.categories, t.icons = z.icons, t.selected = z.selected,
         t.nextCategory = z.nextCategory, t.nextIcon = z.nextIcon, t.creating = z.creating,
         t.tables = z.tables, t.pens = z.pens, t.open = z.open, MenuSaved(t.saved, t.op)
  PROVE  MenuGood(t)
  <1>1. MenuNumbers(t)
    BY DEF MenuGood, MenuNumbers
  <1>2. MenuCategories(t) /\ MenuIcons(t) /\ MenuSelected(t)
    BY DEF MenuGood, MenuCategories, MenuIcons, MenuSelected
  <1> QED
    BY <1>1, <1>2 DEF MenuGood

\* A category is changed, and stays what it is.
LEMMA MenuChanges ==
  ASSUME NEW z, MenuGood(z), NEW c \in z.categories, NEW d, MenuCategory(d, Len(z.tables)),
         d.made = c.made, d.standalone = c.standalone
  PROVE  MenuGood([z EXCEPT !.categories = (@ \ {c}) \cup {d}])
  <1> DEFINE cats == (z.categories \ {c}) \cup {d}
             t == [z EXCEPT !.categories = cats]
  <1>1. MenuCategory(c, Len(z.tables)) /\ d.id = c.id
    BY DEF MenuGood, MenuCategories, MenuCategory
  <1>2. \A e \in cats : MenuCategory(e, Len(z.tables))
    BY DEF MenuGood, MenuCategories
  <1>3. \A e, f \in cats : e.made = f.made => e = f
    BY DEF MenuGood, MenuCategories
  <1>4. \A e \in z.categories : \E f \in cats : f.id = e.id /\ f.standalone = e.standalone
    BY <1>1
  <1> HIDE DEF cats
  <1>5. /\ DOMAIN t = MenuFields /\ t.categories = cats /\ t.icons = z.icons
        /\ t.selected = z.selected /\ t.nextCategory = z.nextCategory /\ t.nextIcon = z.nextIcon
        /\ t.creating = z.creating /\ t.tables = z.tables /\ t.pens = z.pens /\ t.open = z.open
        /\ t.saved = z.saved /\ t.op = z.op
    BY DEF MenuGood, MenuFields
  <1> HIDE DEF t
  <1>6. MenuNumbers(t)
    BY <1>5 DEF MenuGood, MenuNumbers
  <1>7. MenuCategories(t) /\ MenuIcons(t) /\ MenuSaved(t.saved, t.op)
    BY <1>2, <1>3, <1>5 DEF MenuGood, MenuCategories, MenuIcons
  <1>8. MenuSelected(t)
    BY <1>4, <1>5 DEF MenuGood, MenuSelected
  <1>9. MenuGood(t)
    BY <1>5, <1>6, <1>7, <1>8 DEF MenuGood
  <1> QED
    BY <1>9 DEF t, cats

LEMMA MenuClamps ==
  ASSUME NEW v \in {0, 1}, NEW low \in {0, 1}, NEW high \in {0, 1}, NEW upper
  PROVE  /\ Menu!Clamped(v, low, high, upper) \in {0, 1}
         /\ low <= high => /\ low <= Menu!Clamped(v, low, high, upper)
                           /\ Menu!Clamped(v, low, high, upper) <= high
  BY DEF Menu!Clamped

LEMMA MenuMakesIcon == ASSUME MenuGood(state), Menu!CreateIcon PROVE MenuGood(state')
  <1> DEFINE n == Len(state.pens)
             icon == [id |-> state.nextIcon, made |-> n + 1, owner |-> state.owner, shapes |-> <<>>]
             icons == state.icons \cup {icon}
             pens == Append(state.pens, state.nextIcon)
             next == state.nextIcon + 1
             t == [state EXCEPT !.icons = icons, !.nextIcon = next, !.pens = pens]
  <1>1. state' = t
    BY DEF Menu!CreateIcon
  <1>2. /\ n \in Nat /\ state.nextIcon = n /\ state.creating = <<>>
        /\ state.nextCategory \in Nat /\ state.nextCategory + n < 2
    BY MenuCounted, MenuRoom DEF Menu!CreateIcon, Menu!Made
  <1>3. MenuCounts(pens, next) /\ Len(pens) = n + 1 /\ next = n + 1
    BY <1>2, MenuCountsOn DEF MenuGood, MenuNumbers
  <1>4. MenuIcon(icon, n + 1)
    BY <1>2 DEF MenuIcon
  <1>5. \A i \in icons : MenuIcon(i, n + 1)
    <2>1. \A i \in state.icons : MenuIcon(i, n)
      BY DEF MenuGood, MenuIcons
    <2>2. \A i \in state.icons : MenuIcon(i, n + 1)
      BY <1>2, <2>1 DEF MenuIcon
    <2> QED
      BY <1>4, <2>2
  <1> HIDE DEF icons, pens, next, n
  <1>6. /\ DOMAIN t = MenuFields /\ t.categories = state.categories /\ t.icons = icons
        /\ t.selected = state.selected /\ t.nextCategory = state.nextCategory /\ t.nextIcon = next
        /\ t.creating = state.creating /\ t.tables = state.tables /\ t.pens = pens
        /\ t.open = state.open /\ t.saved = state.saved /\ t.op = state.op
    BY DEF MenuGood, MenuFields
  <1> HIDE DEF t
  <1>7. MenuNumbers(t)
    BY <1>2, <1>3, <1>6 DEF MenuGood, MenuNumbers
  <1>8. MenuCategories(t) /\ MenuIcons(t) /\ MenuSaved(t.saved, t.op) /\ MenuSelected(t)
    BY <1>3, <1>5, <1>6 DEF MenuGood, MenuCategories, MenuIcons, MenuSelected
  <1> QED
    BY <1>1, <1>6, <1>7, <1>8 DEF MenuGood

\* A shape is drawn through the table of the icon it becomes part of.
LEMMA MenuDraws ==
  ASSUME MenuGood(state), NEW table \in DOMAIN state.pens, Menu!Draw(table) PROVE MenuGood(state')
  <1> DEFINE icon == Menu!First(Menu!IconsOf(table))
             shapes == Append(icon.shapes, table)
             new == [icon EXCEPT !.shapes = shapes]
             icons == (state.icons \ {icon}) \cup {new}
             t == [state EXCEPT !.icons = icons]
  <1>1. state' = t
    BY DEF Menu!Draw
  <1>2. icon \in Menu!IconsOf(table)
    BY MenuFew, MenuFirst DEF Menu!Draw, Menu!IconsOf
  <1>3. table \in Nat /\ icon \in state.icons /\ MenuIcon(icon, Len(state.pens)) /\ icon.made = table
    <2>1. table \in 1 .. Len(state.pens) /\ state.pens[table] = table - 1
      BY MenuCounted
    <2>2. icon \in state.icons /\ icon.id = state.pens[table]
      BY <1>2 DEF Menu!IconsOf
    <2>3. MenuIcon(icon, Len(state.pens))
      BY <2>2 DEF MenuGood, MenuIcons
    <2>4. Len(state.pens) \in Nat
      BY MenuCounted
    <2> HIDE DEF icon
    <2> QED
      BY <2>1, <2>2, <2>3, <2>4 DEF MenuIcon
  <1> HIDE DEF icon
  <1>4. MenuIcon(new, Len(state.pens))
    <2>1. shapes \in Seq(Nat) /\ \A k \in DOMAIN shapes : shapes[k] = table
      BY <1>3 DEF MenuIcon
    <2> HIDE DEF shapes
    <2>2. /\ DOMAIN new = {"id", "made", "owner", "shapes"} /\ new.made = icon.made /\ new.id = icon.id
          /\ new.shapes = shapes
      BY <1>3 DEF MenuIcon
    <2> HIDE DEF new
    <2> QED
      BY <1>3, <2>1, <2>2 DEF MenuIcon
  <1>5. \A i \in icons : MenuIcon(i, Len(state.pens))
    BY <1>4 DEF MenuGood, MenuIcons
  <1> HIDE DEF icons
  <1>6. /\ DOMAIN t = MenuFields /\ t.categories = state.categories /\ t.icons = icons
        /\ t.selected = state.selected /\ t.nextCategory = state.nextCategory
        /\ t.nextIcon = state.nextIcon
        /\ t.creating = state.creating /\ t.tables = state.tables /\ t.pens = state.pens
        /\ t.open = state.open /\ t.saved = state.saved /\ t.op = state.op
    BY DEF MenuGood, MenuFields
  <1> HIDE DEF t
  <1>7. MenuNumbers(t)
    BY <1>6 DEF MenuGood, MenuNumbers
  <1>8. MenuCategories(t) /\ MenuIcons(t) /\ MenuSaved(t.saved, t.op) /\ MenuSelected(t)
    BY <1>5, <1>6 DEF MenuGood, MenuCategories, MenuIcons, MenuSelected
  <1> QED
    BY <1>1, <1>6, <1>7, <1>8 DEF MenuGood

LEMMA MenuBegins ==
  ASSUME MenuGood(state), NEW name, NEW standalone \in BOOLEAN, NEW table,
         Menu!BeginCategory(name, standalone, table)
  PROVE  MenuGood(state')
  <1>1. PICK shapes : state' = [state EXCEPT !.creating =
                        <<[name |-> name, standalone |-> standalone, shapes |-> shapes]>>]
    BY DEF Menu!BeginCategory
  <1> DEFINE new == [name |-> name, standalone |-> standalone, shapes |-> shapes]
             one == <<new>>
  <1>2. one # <<>> /\ Len(one) = 1 /\ new.standalone \in BOOLEAN
    OBVIOUS
  <1>3. /\ state.nextIcon \in Nat /\ state.nextCategory \in Nat
        /\ state.nextCategory + state.nextIcon < 2
    BY MenuRoom DEF Menu!BeginCategory, Menu!Made
  <1>4. state' = [state EXCEPT !.creating = one] /\ \E x : one = <<x>> /\ x.standalone \in BOOLEAN
    BY <1>1, <1>2
  <1> HIDE DEF new, one
  <1>5. /\ DOMAIN state' = MenuFields /\ state'.categories = state.categories
        /\ state'.icons = state.icons /\ state'.selected = state.selected
        /\ state'.nextCategory = state.nextCategory /\ state'.nextIcon = state.nextIcon
        /\ state'.creating = one /\ state'.tables = state.tables /\ state'.pens = state.pens
        /\ state'.open = state.open /\ state'.saved = state.saved /\ state'.op = state.op
    BY <1>4 DEF MenuGood, MenuFields
  <1>6. MenuNumbers(state')
    BY <1>2, <1>3, <1>4, <1>5 DEF MenuGood, MenuNumbers
  <1>7. MenuCategories(state') /\ MenuIcons(state') /\ MenuSaved(state'.saved, state'.op) /\ MenuSelected(state')
    BY <1>5 DEF MenuGood, MenuCategories, MenuIcons, MenuSelected
  <1> QED
    BY <1>5, <1>6, <1>7 DEF MenuGood

LEMMA MenuFinishes == ASSUME MenuGood(state), Menu!FinishCategory PROVE MenuGood(state')
  <1> DEFINE n == Len(state.tables)
             head == Head(state.creating)
             new == [id |-> state.nextCategory, made |-> n + 1, name |-> head.name,
                     standalone |-> head.standalone, owner |-> state.owner, shapes |-> head.shapes,
                     controls |-> <<>>]
             cats == state.categories \cup {new}
             tables == Append(state.tables, state.nextCategory)
             next == state.nextCategory + 1
             t == [state EXCEPT !.categories = cats, !.nextCategory = next, !.tables = tables,
                                !.creating = <<>>]
  <1>1. state' = t
    BY DEF Menu!FinishCategory, Menu!NumberOf
  <1>2. /\ n \in Nat /\ state.nextCategory = n /\ state.nextIcon \in Nat
        /\ n + state.nextIcon < 2 /\ head.standalone \in BOOLEAN
    <2>1. PICK x : state.creating = <<x>> /\ x.standalone \in BOOLEAN
      BY DEF Menu!FinishCategory, MenuGood, MenuNumbers
    <2>2. Len(state.creating) = 1 /\ head = x
      BY <2>1
    <2> HIDE DEF head
    <2> QED
      BY <2>1, <2>2, MenuCounted
  <1>3. MenuCounts(tables, next) /\ Len(tables) = n + 1 /\ next = n + 1
    BY <1>2, MenuCountsOn DEF MenuGood, MenuNumbers
  <1> HIDE DEF head
  <1>4. MenuCategory(new, n + 1) /\ new.made = n + 1
    BY <1>2 DEF MenuCategory
  <1> HIDE DEF new
  <1>5. /\ \A c \in cats : MenuCategory(c, n + 1)
        /\ \A c, d \in cats : c.made = d.made => c = d
    <2>1. /\ \A c \in state.categories : MenuCategory(c, n)
          /\ \A c, d \in state.categories : c.made = d.made => c = d
      BY DEF MenuGood, MenuCategories
    <2>2. \A c \in state.categories : MenuCategory(c, n + 1) /\ c.made # n + 1
      BY <1>2, <2>1 DEF MenuCategory
    <2> QED
      BY <1>4, <2>1, <2>2
  <1>6. state.categories \subseteq cats
    OBVIOUS
  <1> HIDE DEF cats, tables, next
  <1>7. /\ DOMAIN t = MenuFields /\ t.categories = cats /\ t.icons = state.icons
        /\ t.selected = state.selected /\ t.nextCategory = next /\ t.nextIcon = state.nextIcon
        /\ t.creating = <<>> /\ t.tables = tables /\ t.pens = state.pens
        /\ t.open = state.open /\ t.saved = state.saved /\ t.op = state.op
    BY DEF MenuGood, MenuFields
  <1> HIDE DEF t
  <1>8. MenuNumbers(t)
    BY <1>2, <1>3, <1>7 DEF MenuGood, MenuNumbers
  <1>9. MenuCategories(t) /\ MenuIcons(t) /\ MenuSaved(t.saved, t.op)
    BY <1>3, <1>5, <1>7 DEF MenuGood, MenuCategories, MenuIcons
  <1>10. MenuSelected(t)
    BY <1>6, <1>7 DEF MenuGood, MenuSelected
  <1> QED
    BY <1>1, <1>7, <1>8, <1>9, <1>10 DEF MenuGood

\* The control that a method of a table adds is of the category the table was made for.
LEMMA MenuAdds ==
  ASSUME MenuGood(state), NEW table \in DOMAIN state.tables, NEW label, NEW type \in Menu!Types,
         NEW range \in {<<0, 0>>, <<1, 0>>}, NEW value \in {0, 1}, NEW upper,
         Menu!AddControl(table, label, Menu!Offered(type, range, value, upper))
  PROVE  MenuGood(state')
  <1> DEFINE offer == Menu!Offered(type, range, value, upper)
             c == Menu!First(Menu!CategoriesOf(table))
             control == [type |-> offer.type, value |-> offer.value, low |-> offer.low,
                         high |-> offer.high, items |-> offer.items, of |-> table, from |-> c.owner]
             controls == [l \in DOMAIN c.controls \cup {label} |->
                            IF l = label THEN control ELSE c.controls[l]]
             new == [c EXCEPT !.controls = controls]
  <1>1. state' = [state EXCEPT !.categories = (@ \ {c}) \cup {new}]
    BY DEF Menu!AddControl
  <1>2. c \in Menu!CategoriesOf(table)
    BY MenuFew, MenuFirst DEF Menu!AddControl, Menu!CategoriesOf
  <1>3. c \in state.categories /\ MenuCategory(c, Len(state.tables)) /\ c.made = table
    <2>1. table \in 1 .. Len(state.tables) /\ state.tables[table] = table - 1
      BY MenuCounted
    <2>2. c \in state.categories /\ c.id = state.tables[table]
      BY <1>2 DEF Menu!CategoriesOf
    <2>3. MenuCategory(c, Len(state.tables))
      BY <2>2 DEF MenuGood, MenuCategories
    <2>4. Len(state.tables) \in Nat
      BY MenuCounted
    <2> HIDE DEF c
    <2> QED
      BY <2>1, <2>2, <2>3, <2>4 DEF MenuCategory
  <1>4. /\ offer.type = type /\ {offer.value, offer.low, offer.high} \subseteq {0, 1}
        /\ offer.items = [i \in Persons |-> 0]
        /\ type = "slider" /\ offer.low <= offer.high => offer.low <= offer.value /\ offer.value <= offer.high
    <2>1. range[1] \in {0, 1} /\ range[2] \in {0, 1}
      OBVIOUS
    <2>2. Menu!Clamped(value, 0, 1, upper) \in {0, 1}
      BY MenuClamps
    <2>3. LET v == Menu!Clamped(value, range[1], range[2], upper) IN
          v \in {0, 1} /\ (range[1] <= range[2] => range[1] <= v /\ v <= range[2])
      BY <2>1, MenuClamps
    <2> QED
      BY <2>1, <2>2, <2>3 DEF Menu!Offered, Menu!Nothing
  <1> HIDE DEF offer, c
  <1>5. MenuControl(control, c)
    <2> DEFINE items == [i \in Persons |-> 0]
    <2>1. DOMAIN items = Persons /\ \A i \in Persons : items[i] = 0
      OBVIOUS
    <2>2. control.items = items
      BY <1>4
    <2>3. /\ DOMAIN control = MenuControlFields
          /\ control.of = table /\ control.from = c.owner /\ control.type = type
          /\ control.value = offer.value /\ control.low = offer.low /\ control.high = offer.high
      BY <1>4 DEF MenuControlFields
    <2> HIDE DEF items, control
    <2> QED
      BY <1>3, <1>4, <2>1, <2>2, <2>3 DEF MenuControl
  <1> HIDE DEF control
  <1>6. \A l \in DOMAIN controls : MenuControl(controls[l], c)
    BY <1>3, <1>5 DEF MenuCategory
  <1> HIDE DEF controls
  <1>7. /\ DOMAIN new = {"id", "made", "name", "standalone", "owner", "shapes", "controls"}
        /\ new.made = c.made /\ new.id = c.id /\ new.standalone = c.standalone /\ new.owner = c.owner
        /\ new.controls = controls
    BY <1>3 DEF MenuCategory
  <1> HIDE DEF new
  <1>8. MenuCategory(new, Len(state.tables))
    BY <1>3, <1>6, <1>7 DEF MenuCategory, MenuControl
  <1> QED
    BY <1>1, <1>3, <1>7, <1>8, MenuChanges

LEMMA MenuSelects ==
  ASSUME MenuGood(state), NEW c \in state.categories, Menu!Select(c) PROVE MenuGood(state')
  <1> DEFINE id == c.id
  <1>1. state' = [state EXCEPT !.selected = id, !.open = TRUE]
    BY DEF Menu!Select
  <1>2. c.standalone = FALSE
    BY DEF Menu!Select, MenuGood, MenuCategories, MenuCategory
  <1> HIDE DEF id
  <1>3. /\ DOMAIN state' = MenuFields /\ state'.categories = state.categories
        /\ state'.icons = state.icons /\ state'.selected = id
        /\ state'.nextCategory = state.nextCategory /\ state'.nextIcon = state.nextIcon
        /\ state'.creating = state.creating /\ state'.tables = state.tables /\ state'.pens = state.pens
        /\ state'.open = TRUE /\ state'.saved = state.saved /\ state'.op = state.op
    BY <1>1 DEF MenuGood, MenuFields
  <1>4. MenuNumbers(state')
    BY <1>3 DEF MenuGood, MenuNumbers
  <1>5. MenuCategories(state') /\ MenuIcons(state') /\ MenuSaved(state'.saved, state'.op)
    BY <1>3 DEF MenuGood, MenuCategories, MenuIcons
  <1>6. MenuSelected(state')
    BY <1>2, <1>3 DEF MenuSelected, id
  <1> QED
    BY <1>3, <1>4, <1>5, <1>6 DEF MenuGood

\* A control takes a value, of its own script.
LEMMA MenuTakes ==
  ASSUME NEW c, NEW x, MenuControl(x, c), NEW y, DOMAIN y = MenuControlFields, y.type = x.type,
         y.of = x.of, y.low = x.low, y.high = x.high, y.value \in {0, 1},
         DOMAIN y.items = Persons, \A i \in Persons : y.items[i] \in {0, 1},
         x.type = "slider" /\ c.standalone = FALSE /\ x.low <= x.high =>
           x.low <= y.value /\ y.value <= x.high
  PROVE  MenuControl([y EXCEPT !.from = c.owner], c)
  <1> DEFINE w == [y EXCEPT !.from = c.owner]
  <1>1. /\ DOMAIN w = MenuControlFields /\ w.of = x.of /\ w.from = c.owner /\ w.type = x.type
        /\ w.value = y.value /\ w.low = x.low /\ w.high = x.high /\ w.items = y.items
    BY DEF MenuControlFields
  <1> HIDE DEF w
  <1>2. MenuControl(w, c)
    BY <1>1 DEF MenuControl
  <1> QED
    BY <1>2 DEF w

\* What the user makes of a control.
LEMMA MenuChangesControl ==
  ASSUME NEW c, c.standalone \in BOOLEAN, NEW x, MenuControl(x, c), NEW y \in Menu!Changes(c, x)
  PROVE  MenuControl([y EXCEPT !.from = c.owner], c)
  <1>1. /\ DOMAIN x = MenuControlFields /\ {x.value, x.low, x.high} \subseteq {0, 1}
        /\ x.type = "toggle" \/ x.type = "slider" \/ x.type = "items"
        /\ DOMAIN x.items = Persons /\ \A i \in Persons : x.items[i] \in {0, 1}
        /\ x.type = "slider" /\ c.standalone = FALSE /\ x.low <= x.high =>
             x.low <= x.value /\ x.value <= x.high
    BY DEF MenuControl, Menu!Types
  <1>2. CASE x.type # "items"
    <2>1. PICK v : /\ y = [x EXCEPT !.value = v] /\ v \in {0, 1}
                   /\ x.type = "slider" /\ c.standalone = FALSE /\ x.low <= x.high =>
                        x.low <= v /\ v <= x.high
      <3>1. CASE x.type = "toggle" \/ c.standalone = TRUE
        BY <1>1, <1>2, <3>1 DEF Menu!Changes
      <3>2. CASE x.type = "slider" /\ c.standalone = FALSE
        <4>1. PICK v \in {0, 1}, upper \in BOOLEAN :
                y = [x EXCEPT !.value = Menu!Clamped(v, x.low, x.high, upper)]
          BY <3>2 DEF Menu!Changes
        <4>2. LET u == Menu!Clamped(v, x.low, x.high, upper) IN
              u \in {0, 1} /\ (x.low <= x.high => x.low <= u /\ u <= x.high)
          BY <1>1, MenuClamps
        <4> QED
          BY <4>1, <4>2
      <3> QED
        BY <1>1, <1>2, <3>1, <3>2
    <2>2. /\ DOMAIN y = MenuControlFields /\ y.type = x.type /\ y.of = x.of /\ y.low = x.low
          /\ y.high = x.high /\ y.value = v /\ y.items = x.items
      BY <1>1, <2>1 DEF MenuControlFields
    <2> QED
      BY <1>1, <2>1, <2>2, MenuTakes
  <1>3. CASE x.type = "items"
    <2>1. PICK items : y = [x EXCEPT !.items = items] /\ DOMAIN items = Persons
                       /\ \A i \in Persons : items[i] \in {0, 1}
      <3>1. \/ y = [x EXCEPT !.items = Menu!Nothing]
            \/ \E i \in Persons : y = [x EXCEPT !.items = Menu!Toggled(x.items, i)]
        BY <1>3 DEF Menu!Changes
      <3>2. DOMAIN Menu!Nothing = Persons /\ \A i \in Persons : Menu!Nothing[i] \in {0, 1}
        BY DEF Menu!Nothing
      <3>3. ASSUME NEW i \in Persons
            PROVE  /\ DOMAIN Menu!Toggled(x.items, i) = Persons
                   /\ \A j \in Persons : Menu!Toggled(x.items, i)[j] \in {0, 1}
        BY <1>1 DEF Menu!Toggled
      <3> QED
        BY <3>1, <3>2, <3>3
    <2>2. /\ DOMAIN y = MenuControlFields /\ y.type = x.type /\ y.of = x.of /\ y.low = x.low
          /\ y.high = x.high /\ y.value = x.value /\ y.items = items
      BY <1>1, <2>1 DEF MenuControlFields
    <2> QED
      BY <1>1, <2>1, <2>2, MenuTakes
  <1> QED
    BY <1>2, <1>3

LEMMA MenuEdits ==
  ASSUME MenuGood(state), NEW c \in state.categories, NEW label, Menu!Edit(c, label)
  PROVE  MenuGood(state')
  <1>1. label \in DOMAIN c.controls /\ MenuCategory(c, Len(state.tables))
    BY DEF Menu!Edit, MenuGood, MenuCategories
  <1>2. PICK y \in Menu!Changes(c, c.controls[label]) :
          state' = [state EXCEPT !.categories = (@ \ {c}) \cup
                      {[c EXCEPT !.controls[label] = [y EXCEPT !.from = c.owner]]}]
    BY DEF Menu!Edit
  <1> DEFINE control == [y EXCEPT !.from = c.owner]
             controls == [c.controls EXCEPT ![label] = control]
             new == [c EXCEPT !.controls = controls]
  <1>3. MenuControl(control, c)
    BY <1>1, MenuChangesControl DEF MenuCategory
  <1>4. state' = [state EXCEPT !.categories = (@ \ {c}) \cup {new}]
    BY <1>2
  <1> HIDE DEF control
  <1>5. \A l \in DOMAIN controls : MenuControl(controls[l], c)
    BY <1>1, <1>3 DEF MenuCategory
  <1> HIDE DEF controls
  <1>6. /\ DOMAIN new = {"id", "made", "name", "standalone", "owner", "shapes", "controls"}
        /\ new.made = c.made /\ new.id = c.id /\ new.standalone = c.standalone /\ new.owner = c.owner
        /\ new.controls = controls
    BY <1>1 DEF MenuCategory
  <1> HIDE DEF new
  <1>7. MenuCategory(new, Len(state.tables))
    BY <1>1, <1>5, <1>6 DEF MenuCategory, MenuControl
  <1> QED
    BY <1>4, <1>6, <1>7, MenuChanges

\* A value that was saved fits the control as it is now.
LEMMA MenuFills ==
  ASSUME NEW c, NEW x, MenuControl(x, c), NEW v, v.value \in {0, 1}, v.from = c.owner, NEW upper
  PROVE  MenuControl(Menu!Filled(x, v, upper), c)
  <1> DEFINE u == IF x.type = "slider" THEN Menu!Clamped(v.value, x.low, x.high, upper) ELSE v.value
             items == [i \in Persons |-> IF v.items[i] = 0 THEN 0 ELSE 1]
             y == [x EXCEPT !.value = u, !.items = items, !.from = v.from]
  <1>1. Menu!Filled(x, v, upper) = y
    BY DEF Menu!Filled
  <1>2. u \in {0, 1} /\ (x.type = "slider" /\ x.low <= x.high => x.low <= u /\ u <= x.high)
    BY MenuClamps DEF MenuControl
  <1>3. DOMAIN items = Persons /\ \A i \in Persons : items[i] \in {0, 1}
    OBVIOUS
  <1> HIDE DEF u, items
  <1>4. /\ DOMAIN y = MenuControlFields /\ y.type = x.type /\ y.of = x.of /\ y.low = x.low
        /\ y.high = x.high /\ y.value = u /\ y.items = items /\ y.from = c.owner
    BY DEF MenuControl, MenuControlFields
  <1> HIDE DEF y
  <1>5. MenuControl(y, c)
    BY <1>2, <1>3, <1>4 DEF MenuControl
  <1> QED
    BY <1>1, <1>5

\* What was saved for a script fills its own controls.
LEMMA MenuRestores ==
  ASSUME NEW z, MenuGood(z), NEW s, NEW list, MenuSaved(list, s), NEW upper
  PROVE  LET t == Menu!Restored(z, s, list, upper)
         IN  MenuGood(t) /\ t.saved = z.saved /\ t.op = z.op
  <1> DEFINE Like(c, l) == {v \in list : /\ v.name = c.name /\ v.standalone = c.standalone
                                         /\ v.label = l /\ v.type = c.controls[l].type}
             Filling(c) == [l \in DOMAIN c.controls |->
                              IF Like(c, l) = {} THEN c.controls[l]
                              ELSE Menu!Filled(c.controls[l], Menu!First(Like(c, l)), upper)]
             With(c) == IF c.owner # s THEN c ELSE [c EXCEPT !.controls = Filling(c)]
             cats == {With(c) : c \in z.categories}
             t == [z EXCEPT !.categories = cats]
  <1>1. Menu!Restored(z, s, list, upper) = t
    BY DEF Menu!Restored
  <1>2. ASSUME NEW c \in z.categories
        PROVE  /\ MenuCategory(With(c), Len(z.tables)) /\ With(c).made = c.made
               /\ With(c).id = c.id /\ With(c).standalone = c.standalone
    <2>1. MenuCategory(c, Len(z.tables))
      BY DEF MenuGood, MenuCategories
    <2>2. CASE c.owner # s
      BY <2>1, <2>2
    <2>3. CASE c.owner = s
      <3> DEFINE controls == Filling(c)
                 new == [c EXCEPT !.controls = controls]
      <3>1. With(c) = new
        BY <2>3
      <3>2. ASSUME NEW l \in DOMAIN c.controls PROVE MenuControl(controls[l], c)
        <4> DEFINE like == Like(c, l)
                   first == Menu!First(like)
        <4>1. MenuControl(c.controls[l], c)
          BY <2>1 DEF MenuCategory
        <4>2. controls[l] = IF like = {} THEN c.controls[l] ELSE Menu!Filled(c.controls[l], first, upper)
          OBVIOUS
        <4>3. ASSUME like # {} PROVE first.value \in {0, 1} /\ first.from = c.owner
          <5>1. like \subseteq list
            OBVIOUS
          <5> HIDE DEF like
          <5>2. \A v \in like : v.made \in {1, 2}
            BY <5>1 DEF MenuSaved
          <5>3. first \in like
            BY <4>3, <5>2, MenuFirst
          <5> HIDE DEF first
          <5> QED
            BY <2>3, <5>1, <5>3 DEF MenuSaved
        <4> HIDE DEF like, first, controls
        <4> QED
          BY <4>1, <4>2, <4>3, MenuFills
      <3>3. DOMAIN controls = DOMAIN c.controls
        OBVIOUS
      <3> HIDE DEF controls
      <3>4. /\ DOMAIN new = {"id", "made", "name", "standalone", "owner", "shapes", "controls"}
            /\ new.made = c.made /\ new.id = c.id /\ new.standalone = c.standalone
            /\ new.owner = c.owner /\ new.controls = controls
        BY <2>1 DEF MenuCategory
      <3> HIDE DEF new
      <3>5. MenuCategory(new, Len(z.tables))
        BY <2>1, <3>2, <3>3, <3>4 DEF MenuCategory, MenuControl
      <3> HIDE DEF With
      <3> QED
        BY <3>1, <3>4, <3>5
    <2> HIDE DEF With
    <2> QED
      BY <2>2, <2>3
  <1> HIDE DEF With
  <1>3. \A c \in cats : MenuCategory(c, Len(z.tables))
    BY <1>2
  <1>4. \A c, d \in cats : c.made = d.made => c = d
    <2> SUFFICES ASSUME NEW c \in z.categories, NEW d \in z.categories, With(c).made = With(d).made
                 PROVE  With(c) = With(d)
      OBVIOUS
    <2>1. c.made = d.made
      BY <1>2
    <2>2. c = d
      BY <2>1 DEF MenuGood, MenuCategories
    <2> QED
      BY <2>2
  <1>5. \A c \in z.categories : \E d \in cats : d.id = c.id /\ d.standalone = c.standalone
    BY <1>2
  <1> HIDE DEF cats
  <1>6. /\ DOMAIN t = MenuFields /\ t.categories = cats /\ t.icons = z.icons
        /\ t.selected = z.selected /\ t.nextCategory = z.nextCategory /\ t.nextIcon = z.nextIcon
        /\ t.creating = z.creating /\ t.tables = z.tables /\ t.pens = z.pens /\ t.open = z.open
        /\ t.saved = z.saved /\ t.op = z.op
    BY DEF MenuGood, MenuFields
  <1> HIDE DEF t
  <1>7. MenuNumbers(t)
    BY <1>6 DEF MenuGood, MenuNumbers
  <1>8. MenuCategories(t) /\ MenuIcons(t) /\ MenuSaved(t.saved, t.op)
    BY <1>3, <1>4, <1>6 DEF MenuGood, MenuCategories, MenuIcons
  <1>9. MenuSelected(t)
    BY <1>5, <1>6 DEF MenuGood, MenuSelected
  <1> QED
    BY <1>1, <1>6, <1>7, <1>8, <1>9 DEF MenuGood

\* Where the page that is open goes, another one is turned to if there is one.
LEMMA MenuRemoves ==
  ASSUME NEW z, MenuGood(z), NEW s
  PROVE  LET t == Menu!Removed(z, s) IN MenuGood(t) /\ t.saved = z.saved /\ t.op = z.op
  <1> DEFINE left == z.categories \ {c \in z.categories : c.owner = s}
             icons == {i \in z.icons : i.owner # s}
             pages == {c \in left : ~c.standalone}
             selected == Menu!Replacement(z, left)
             t == [z EXCEPT !.categories = left, !.icons = icons, !.selected = selected]
  <1>1. Menu!Removed(z, s) = t
    BY DEF Menu!Removed
  <1>2. left \subseteq z.categories /\ icons \subseteq z.icons
    OBVIOUS
  <1> HIDE DEF left, icons
  <1>3. pages # {} => Menu!First(pages) \in pages
    <2>1. \A c \in pages : c.made \in {1, 2}
      BY <1>2, MenuFew
    <2> HIDE DEF pages
    <2> QED
      BY <2>1, MenuFirst
  <1>4. z.open = TRUE /\ selected # 0 =>
          \E c \in left : c.id = selected /\ c.standalone = FALSE
    <2> SUFFICES ASSUME z.open = TRUE, selected # 0
                 PROVE  \E c \in left : c.id = selected /\ c.standalone = FALSE
      OBVIOUS
    <2>1. CASE \E c \in left : c.id = z.selected
      <3>1. selected = z.selected
        BY <2>1 DEF Menu!Replacement
      <3>2. PICK c \in left : c.id = z.selected
        BY <2>1
      <3>3. PICK d \in z.categories : d.id = z.selected /\ d.standalone = FALSE
        BY <3>1 DEF MenuGood, MenuSelected
      <3>4. c \in z.categories /\ c.made = d.made
        BY <1>2, <3>2, <3>3, MenuCounted DEF MenuGood, MenuCategories, MenuCategory
      <3>5. c = d
        BY <3>4 DEF MenuGood, MenuCategories
      <3> QED
        BY <3>1, <3>2, <3>3, <3>5
    <2>2. CASE ~\E c \in left : c.id = z.selected
      <3>1. pages # {} /\ selected = Menu!First(pages).id
        BY <2>2 DEF Menu!Replacement
      <3> DEFINE first == Menu!First(pages)
      <3>2. first \in left /\ ~first.standalone
        BY <1>3, <3>1
      <3> HIDE DEF first
      <3>3. first.standalone \in BOOLEAN
        BY <1>2, <3>2 DEF MenuGood, MenuCategories, MenuCategory
      <3> QED
        BY <3>1, <3>2, <3>3 DEF first
    <2> QED
      BY <2>1, <2>2
  <1> HIDE DEF selected, pages
  <1>5. /\ DOMAIN t = MenuFields /\ t.categories = left /\ t.icons = icons
        /\ t.selected = selected /\ t.nextCategory = z.nextCategory /\ t.nextIcon = z.nextIcon
        /\ t.creating = z.creating /\ t.tables = z.tables /\ t.pens = z.pens /\ t.open = z.open
        /\ t.saved = z.saved /\ t.op = z.op
    BY DEF MenuGood, MenuFields
  <1> HIDE DEF t
  <1>6. MenuNumbers(t)
    BY <1>5 DEF MenuGood, MenuNumbers
  <1>7. MenuCategories(t) /\ MenuIcons(t) /\ MenuSaved(t.saved, t.op)
    BY <1>2, <1>5 DEF MenuGood, MenuCategories, MenuIcons
  <1>8. MenuSelected(t)
    BY <1>4, <1>5 DEF MenuSelected
  <1> QED
    BY <1>1, <1>5, <1>6, <1>7, <1>8 DEF MenuGood

\* What is captured of a script is its own, and so is what a configuration has for it.
LEMMA MenuCaptures ==
  ASSUME NEW z, MenuGood(z), NEW s PROVE MenuSaved(Menu!Captured(z, s), s)
  <1> SUFFICES ASSUME NEW v \in Menu!Captured(z, s)
               PROVE  v.made \in {1, 2} /\ v.from = s /\ v.value \in {0, 1}
    BY DEF MenuSaved
  <1>0. PICK c \in Menu!OwnedBy(z, s) : \E l \in DOMAIN c.controls :
          v = [made |-> c.made, name |-> c.name, standalone |-> c.standalone, label |-> l,
               type |-> c.controls[l].type, value |-> c.controls[l].value,
               items |-> c.controls[l].items, from |-> c.controls[l].from]
    BY DEF Menu!Captured
  <1>1. PICK l \in DOMAIN c.controls :
          v = [made |-> c.made, name |-> c.name, standalone |-> c.standalone, label |-> l,
               type |-> c.controls[l].type, value |-> c.controls[l].value,
               items |-> c.controls[l].items, from |-> c.controls[l].from]
    BY <1>0
  <1>2. c \in z.categories /\ c.owner = s
    BY DEF Menu!OwnedBy
  <1>3. c.made \in {1, 2}
    BY <1>2, MenuFew
  <1>4. MenuControl(c.controls[l], c)
    BY <1>2 DEF MenuGood, MenuCategories, MenuCategory
  <1>5. v.made = c.made /\ v.value = c.controls[l].value /\ v.from = c.controls[l].from
    BY <1>1
  <1> QED
    BY <1>2, <1>3, <1>4, <1>5 DEF MenuControl

LEMMA MenuLists ==
  ASSUME NEW s, NEW list \in Menu!Listed(s) PROVE MenuSaved(list, s)
  <1>1. PICK n \in Persons, w \in BOOLEAN, l \in Things, t \in Menu!Types, v \in {0, 1} \ {0} :
          list = {[made |-> 1, name |-> n, standalone |-> w, label |-> l, type |-> t, value |-> v,
                   items |-> [i \in Persons |-> 2 * v], from |-> s]}
    BY DEF Menu!Listed
  <1> QED
    BY <1>1 DEF MenuSaved

LEMMA MenuEnds == ASSUME NEW z, MenuGood(z), NEW x PROVE MenuGood([Menu!Ended(z) EXCEPT !.loaded = x]) /\ MenuGood(Menu!Ended(z))
  <1> DEFINE t == [z EXCEPT !.op = NoWeapon, !.executing = FALSE, !.saved = {}, !.owner = NoWeapon]
  <1>1. Menu!Ended(z) = t
    BY DEF Menu!Ended
  <1>2. MenuSaved({}, NoWeapon)
    BY DEF MenuSaved
  <1>3. ASSUME NEW u, u = t \/ u = [t EXCEPT !.loaded = x] PROVE MenuGood(u)
    <2>1. /\ DOMAIN u = MenuFields /\ u.categories = z.categories /\ u.icons = z.icons
          /\ u.selected = z.selected /\ u.nextCategory = z.nextCategory /\ u.nextIcon = z.nextIcon
          /\ u.creating = z.creating /\ u.tables = z.tables /\ u.pens = z.pens /\ u.open = z.open
          /\ u.saved = {} /\ u.op = NoWeapon
      BY <1>3 DEF MenuGood, MenuFields
    <2> QED
      BY <1>2, <2>1, MenuStays
  <1> HIDE DEF t
  <1> QED
    BY <1>1, <1>3

\* The loading and unloading of scripts.
LEMMA MenuOperates ==
  ASSUME MenuGood(state),
         \/ \E s \in Medicines :
              \/ Menu!BeginLoad(s, {}) \/ Menu!BeginLoad(s, Menu!Captured(state, s))
              \/ \E list \in Menu!Listed(s) : Menu!BeginLoad(s, list) \/ Menu!Apply(s, list)
              \/ Menu!Unload(s)
         \/ Menu!CleanedUp \/ Menu!Compiled \/ Menu!Executed \/ Menu!Failed
  PROVE  MenuGood(state')
  <1>1. ASSUME NEW s, NEW list, MenuSaved(list, s), Menu!BeginLoad(s, list) PROVE MenuGood(state')
    <2>1. state' = [state EXCEPT !.op = s, !.saved = list]
      BY <1>1 DEF Menu!BeginLoad
    <2>2. /\ DOMAIN state' = MenuFields /\ state'.categories = state.categories
          /\ state'.icons = state.icons /\ state'.selected = state.selected
          /\ state'.nextCategory = state.nextCategory /\ state'.nextIcon = state.nextIcon
          /\ state'.creating = state.creating /\ state'.tables = state.tables
          /\ state'.pens = state.pens /\ state'.open = state.open /\ state'.saved = list /\ state'.op = s
      BY <2>1 DEF MenuGood, MenuFields
    <2> QED
      BY <1>1, <2>2, MenuStays
  <1>2. ASSUME NEW s, NEW list, MenuSaved(list, s), Menu!Apply(s, list) PROVE MenuGood(state')
    <2>1. PICK upper : state' = Menu!Restored(state, s, list, upper)
      BY <1>2 DEF Menu!Apply
    <2> QED
      BY <1>2, <2>1, MenuRestores
  <1>3. ASSUME NEW s, Menu!Unload(s) PROVE MenuGood(state')
    <2> DEFINE loaded == state.loaded \ {s}
               a == [state EXCEPT !.loaded = loaded]
               b == Menu!Removed(a, s)
    <2>1. state' = Menu!Ended(b)
      BY <1>3 DEF Menu!Unload
    <2> HIDE DEF loaded
    <2>2. /\ DOMAIN a = MenuFields /\ a.categories = state.categories /\ a.icons = state.icons
          /\ a.selected = state.selected /\ a.nextCategory = state.nextCategory
          /\ a.nextIcon = state.nextIcon /\ a.creating = state.creating /\ a.tables = state.tables
          /\ a.pens = state.pens /\ a.open = state.open /\ a.saved = state.saved /\ a.op = state.op
      BY DEF MenuGood, MenuFields
    <2> HIDE DEF a
    <2>3. MenuGood(a)
      BY <2>2, MenuStays DEF MenuGood
    <2>4. MenuGood(b)
      BY <2>3, MenuRemoves
    <2> HIDE DEF b
    <2> QED
      BY <2>1, <2>4, MenuEnds
  <1>4. CASE Menu!CleanedUp
    BY <1>4, MenuRemoves DEF Menu!CleanedUp
  <1>5. CASE Menu!Compiled
    <2> DEFINE r == Menu!Removed(state, state.op)
               owner == state.op
    <2>1. state' = [r EXCEPT !.owner = owner, !.executing = TRUE, !.alive = TRUE]
      BY <1>5 DEF Menu!Compiled
    <2>2. MenuGood(r)
      BY MenuRemoves
    <2> HIDE DEF r, owner
    <2>3. /\ DOMAIN state' = MenuFields /\ state'.categories = r.categories
          /\ state'.icons = r.icons /\ state'.selected = r.selected
          /\ state'.nextCategory = r.nextCategory /\ state'.nextIcon = r.nextIcon
          /\ state'.creating = r.creating /\ state'.tables = r.tables
          /\ state'.pens = r.pens /\ state'.open = r.open /\ state'.saved = r.saved /\ state'.op = r.op
      BY <2>1, <2>2 DEF MenuGood, MenuFields
    <2> QED
      BY <2>2, <2>3, MenuStays DEF MenuGood
  <1>6. CASE Menu!Executed
    <2>1. PICK upper : state' = [Menu!Ended(Menu!Restored(state, state.op, state.saved, upper))
                                   EXCEPT !.loaded = @ \cup {state.op}]
      BY <1>6 DEF Menu!Executed
    <2> DEFINE r == Menu!Restored(state, state.op, state.saved, upper)
               loaded == Menu!Ended(r).loaded \cup {state.op}
    <2>2. MenuGood(r)
      BY MenuRestores DEF MenuGood
    <2>3. state' = [Menu!Ended(r) EXCEPT !.loaded = loaded]
      BY <2>1
    <2> HIDE DEF r, loaded
    <2> QED
      BY <2>2, <2>3, MenuEnds
  <1>7. CASE Menu!Failed
    <2> DEFINE loaded == state.loaded \ {state.op}
               a == [state EXCEPT !.loaded = loaded]
    <2>1. state' = Menu!Ended(a)
      BY <1>7 DEF Menu!Failed
    <2> HIDE DEF loaded
    <2>2. /\ DOMAIN a = MenuFields /\ a.categories = state.categories /\ a.icons = state.icons
          /\ a.selected = state.selected /\ a.nextCategory = state.nextCategory
          /\ a.nextIcon = state.nextIcon /\ a.creating = state.creating /\ a.tables = state.tables
          /\ a.pens = state.pens /\ a.open = state.open /\ a.saved = state.saved /\ a.op = state.op
      BY DEF MenuGood, MenuFields
    <2> HIDE DEF a
    <2>3. MenuGood(a)
      BY <2>2, MenuStays DEF MenuGood
    <2> QED
      BY <2>1, <2>3, MenuEnds
  <1>8. \A s : MenuSaved({}, s)
    BY DEF MenuSaved
  <1> QED
    BY <1>1, <1>2, <1>3, <1>4, <1>5, <1>6, <1>7, <1>8, MenuCaptures, MenuLists

LEMMA MenuBooksStep == MenuBooks /\ [Menu!Next]_all => MenuBooks'
  <1> SUFFICES ASSUME MenuGood(state), [Menu!Next]_all PROVE MenuGood(state')
    BY DEF MenuBooks
  <1>1. CASE Menu!Dispatch
    BY <1>1, MenuMakesIcon, MenuFinishes, MenuDraws, MenuBegins, MenuAdds DEF Menu!Dispatch
  <1>2. CASE \E c \in state.categories : Menu!Select(c)
    BY <1>2, MenuSelects
  <1>3. CASE \E c \in Menu!Shown, label \in Things : Menu!Edit(c, label)
    <2>1. PICK c \in Menu!Shown, label \in Things : Menu!Edit(c, label)
      BY <1>3
    <2>2. c \in state.categories
      <3> DEFINE page == {d \in state.categories : d.id = state.selected /\ ~d.standalone}
      <3>1. page # {} => Menu!First(page) \in page
        <4>1. \A d \in page : d.made \in {1, 2}
          BY MenuFew
        <4> HIDE DEF page
        <4> QED
          BY <4>1, MenuFirst
      <3> QED
        BY <3>1 DEF Menu!Shown
    <2> QED
      BY <2>1, <2>2, MenuEdits
  <1>4. CASE \/ \E s \in Medicines :
                  \/ Menu!BeginLoad(s, {}) \/ Menu!BeginLoad(s, Menu!Captured(state, s))
                  \/ \E list \in Menu!Listed(s) : Menu!BeginLoad(s, list) \/ Menu!Apply(s, list)
                  \/ Menu!Unload(s)
             \/ Menu!CleanedUp \/ Menu!Compiled \/ Menu!Executed \/ Menu!Failed
    BY <1>4, MenuOperates
  <1>5. CASE UNCHANGED all
    BY <1>5 DEF all
  <1> QED
    BY <1>1, <1>2, <1>3, <1>4, <1>5 DEF Menu!Next

-----------------------------------------------------------------------------
(* LuaNamespace: until a first call succeeds there is nothing of ours in the game; from then
   on all functions are of the class that call loaded, and it answers for what it read. *)

Namespace == INSTANCE LuaNamespace WITH lua <- state, MaxRequests <- SomeRequests, MaxFaults <- FewFaults, MaxObjects <- 3

NamespaceFields ==
  {"env", "platform", "environment", "instance", "class", "linked", "loads", "registered", "spaces",
   "at", "seen", "read", "answer", "retried", "helpers"}

\* The functions in the environments, and what was loaded beside them.
NamespaceClass(z) ==
  /\ DOMAIN z.spaces = Namespace!Objects
  /\ z.registered = FALSE =>
       z.answer = FALSE /\ z.helpers = {} /\ \A e \in Namespace!Objects : z.spaces[e] = 0
  /\ z.registered = TRUE =>
       /\ z.class # 0 /\ z.spaces[z.environment] = z.class /\ z.helpers \subseteq {z.class}
       /\ \A e \in Namespace!Objects : z.spaces[e] \in {0, z.class}
       /\ z.retried = FALSE => z.class = z.linked

NamespaceGood(z) ==
  /\ DOMAIN z = NamespaceFields
  /\ {z.env, z.platform, z.environment, z.instance, z.seen, z.read} \subseteq Namespace!Objects
  /\ z.loads \in Nat /\ {z.registered, z.answer, z.retried} \subseteq BOOLEAN
  /\ NamespaceClass(z)
  /\ z.at = "rest" /\ z.answer = TRUE => z.environment = z.seen /\ z.instance = z.read

NamespaceBooks == NamespaceGood(state)

LEMMA NamespaceBooksInit == Namespace!Init => NamespaceBooks
  <1> SUFFICES ASSUME Namespace!Init PROVE NamespaceGood(state)
    BY DEF NamespaceBooks
  <1> DEFINE spaces == [e \in Namespace!Objects |-> 0]
  <1>1. /\ DOMAIN state = NamespaceFields /\ state.spaces = spaces
        /\ state.env = 0 /\ state.platform = 0 /\ state.environment = 0 /\ state.instance = 0
        /\ state.seen = 0 /\ state.read = 0 /\ state.loads = 0 /\ state.registered = FALSE
        /\ state.answer = FALSE /\ state.retried = FALSE /\ state.helpers = {} /\ state.at = "rest"
    BY DEF Namespace!Init, NamespaceFields
  <1>2. 0 \in Namespace!Objects
    BY DEF Namespace!Objects
  <1>3. NamespaceClass(state)
    BY <1>1 DEF NamespaceClass
  <1>4. {state.registered, state.answer, state.retried} \subseteq BOOLEAN
    BY <1>1
  <1>5. {state.env, state.platform, state.environment, state.instance, state.seen, state.read}
          \subseteq Namespace!Objects
    BY <1>1, <1>2
  <1>6. DOMAIN state = NamespaceFields /\ state.loads \in Nat
        /\ state.environment = state.seen /\ state.instance = state.read
    BY <1>1
  <1> QED
    BY <1>3, <1>4, <1>5, <1>6 DEF NamespaceGood

LEMMA NamespaceBooksKept ==
  NamespaceBooks => /\ Namespace!NamespaceIsThere /\ Namespace!FunctionsReachDispatch
                    /\ Namespace!ClassesShareALoader
  <1> SUFFICES ASSUME NamespaceGood(state)
               PROVE  /\ Namespace!NamespaceIsThere /\ Namespace!FunctionsReachDispatch
                      /\ Namespace!ClassesShareALoader
    BY DEF NamespaceBooks
  <1>1. Namespace!NamespaceIsThere
    BY DEF NamespaceGood, NamespaceClass, Namespace!NamespaceIsThere
  <1>2. Namespace!FunctionsReachDispatch
    BY DEF NamespaceGood, NamespaceClass, Namespace!FunctionsReachDispatch
  <1>3. state.helpers = {} \/ state.helpers = {state.class}
    BY DEF NamespaceGood, NamespaceClass
  <1>4. Namespace!Cardinality(state.helpers) = Cardinality(state.helpers)
    BY DEF Cardinality, Namespace!Cardinality
  <1>5. Cardinality(state.helpers) \in {0, 1}
    BY <1>3, FS_EmptySet, FS_Singleton
  <1>6. Namespace!ClassesShareALoader
    BY <1>4, <1>5 DEF Namespace!ClassesShareALoader
  <1> QED
    BY <1>1, <1>2, <1>6

\* What a call was answered: what is kept of it is what it read, or it is not there.
LEMMA NamespaceAnswered ==
  ASSUME NEW z, NamespaceGood(z), NEW answer \in BOOLEAN,
         answer => z.registered = TRUE /\ z.environment = z.seen /\ z.instance = z.read
  PROVE  NamespaceGood(Namespace!Answered(z, answer))
  <1> DEFINE t == [z EXCEPT !.at = "rest", !.answer = answer]
  <1>1. /\ DOMAIN t = NamespaceFields /\ t.at = "rest" /\ t.answer = answer
        /\ t.env = z.env /\ t.platform = z.platform /\ t.environment = z.environment
        /\ t.instance = z.instance /\ t.seen = z.seen /\ t.read = z.read /\ t.loads = z.loads
        /\ t.registered = z.registered /\ t.retried = z.retried /\ t.helpers = z.helpers
        /\ t.spaces = z.spaces /\ t.class = z.class /\ t.linked = z.linked
    BY DEF NamespaceGood, NamespaceFields
  <1> HIDE DEF t
  <1>2. NamespaceClass(t)
    BY <1>1 DEF NamespaceGood, NamespaceClass
  <1>3. NamespaceGood(t)
    BY <1>1, <1>2 DEF NamespaceGood
  <1> QED
    BY <1>3 DEF Namespace!Answered, t

\* What is read, by the game or by a call, is not in use yet.
LEMMA NamespaceRead ==
  ASSUME NEW z, NamespaceGood(z), NEW t, DOMAIN t = NamespaceFields,
         {t.env, t.platform, t.seen, t.read} \subseteq Namespace!Objects,
         t.environment = z.environment, t.instance = z.instance, t.loads = z.loads,
         t.registered = z.registered, t.answer = z.answer, t.retried = z.retried,
         t.helpers = z.helpers, t.spaces = z.spaces, t.class = z.class, t.linked = z.linked,
         t.at # "rest" \/ (t.at = z.at /\ t.seen = z.seen /\ t.read = z.read)
  PROVE  NamespaceGood(t)
  <1>1. NamespaceClass(t)
    BY DEF NamespaceGood, NamespaceClass
  <1> QED
    BY <1>1 DEF NamespaceGood

\* The runtime that was read replaces the one before.
LEMMA NamespaceReplaced ==
  ASSUME NEW z, NamespaceGood(z), z.registered = TRUE
  PROVE  LET t == Namespace!Installed([z EXCEPT !.environment = z.seen, !.instance = z.read])
         IN  NamespaceGood(Namespace!Answered(t, TRUE))
  <1> DEFINE spaces == [z.spaces EXCEPT ![z.seen] = z.class]
             r == [z EXCEPT !.environment = z.seen, !.instance = z.read]
             t == [r EXCEPT !.spaces = spaces]
             u == [t EXCEPT !.at = "rest", !.answer = TRUE]
  <1>1. DOMAIN r = NamespaceFields /\ r.environment = z.seen /\ r.instance = z.read
        /\ r.env = z.env /\ r.platform = z.platform /\ r.seen = z.seen /\ r.read = z.read
        /\ r.loads = z.loads /\ r.registered = z.registered /\ r.retried = z.retried
        /\ r.helpers = z.helpers /\ r.class = z.class /\ r.linked = z.linked /\ r.spaces = z.spaces
    BY DEF NamespaceGood, NamespaceFields
  <1>2. Namespace!Installed(r) = t
    BY <1>1 DEF Namespace!Installed
  <1>3. /\ DOMAIN spaces = Namespace!Objects /\ spaces[z.seen] = z.class
        /\ \A e \in Namespace!Objects : spaces[e] \in {0, z.class}
    BY DEF NamespaceGood, NamespaceClass
  <1>4. Namespace!Answered(t, TRUE) = u
    BY DEF Namespace!Answered
  <1> HIDE DEF spaces, r
  <1>5. /\ DOMAIN u = NamespaceFields /\ u.spaces = spaces /\ u.at = "rest" /\ u.answer = TRUE
        /\ u.environment = z.seen /\ u.instance = z.read
        /\ u.env = z.env /\ u.platform = z.platform /\ u.seen = z.seen /\ u.read = z.read
        /\ u.loads = z.loads /\ u.registered = z.registered /\ u.retried = z.retried
        /\ u.helpers = z.helpers /\ u.class = z.class /\ u.linked = z.linked
    BY <1>1 DEF NamespaceFields
  <1> HIDE DEF u
  <1>6. NamespaceClass(u)
    BY <1>3, <1>5 DEF NamespaceGood, NamespaceClass
  <1>7. NamespaceGood(u)
    BY <1>5, <1>6 DEF NamespaceGood
  <1> HIDE DEF t
  <1> QED
    BY <1>2, <1>4, <1>7 DEF r

\* While no call has succeeded, a class may be loaded again.
LEMMA NamespaceLoads ==
  ASSUME NEW z, NamespaceGood(z), z.registered = FALSE, NEW t, DOMAIN t = NamespaceFields,
         {t.env, t.platform, t.environment, t.instance, t.seen, t.read} \subseteq Namespace!Objects,
         t.loads \in Nat, t.retried \in BOOLEAN, t.registered = FALSE, t.answer = FALSE,
         t.helpers = z.helpers, t.spaces = z.spaces
  PROVE  NamespaceGood(t)
  <1>1. NamespaceClass(t)
    BY DEF NamespaceGood, NamespaceClass
  <1> QED
    BY <1>1 DEF NamespaceGood

LEMMA NamespaceRegisters ==
  ASSUME NamespaceGood(state), Namespace!Register PROVE NamespaceGood(state')
  <1> DEFINE z == state
             loads == z.loads + 1
             linked == IF z.linked = 0 THEN loads ELSE z.linked
             retried == z.linked # 0
             l == Namespace!Loaded(z)
             spaces == [z.spaces EXCEPT ![z.seen] = loads]
             kept == [z EXCEPT !.environment = z.seen, !.instance = z.read]
             a == [l EXCEPT !.linked = z.linked]
             b == [z EXCEPT !.environment = z.seen, !.instance = z.read, !.class = 0]
             i == [l EXCEPT !.spaces = spaces]
             done == [i EXCEPT !.registered = TRUE]
  <1>0. z.registered = FALSE
    BY DEF Namespace!Register, NamespaceGood
  <1>1. l = [z EXCEPT !.environment = z.seen, !.instance = z.read, !.loads = loads, !.class = loads,
                      !.linked = linked, !.retried = retried]
    BY DEF Namespace!Loaded
  <1>2. loads \in Nat /\ loads # 0 /\ retried \in BOOLEAN /\ (retried = FALSE => linked = loads)
    BY DEF NamespaceGood
  <1>3. /\ DOMAIN spaces = Namespace!Objects /\ spaces[z.seen] = loads
        /\ \A e \in Namespace!Objects : spaces[e] \in {0, loads}
    BY <1>0 DEF NamespaceGood, NamespaceClass
  <1> HIDE DEF l, loads, linked, retried, spaces
  <1>4. /\ DOMAIN l = NamespaceFields /\ l.environment = z.seen /\ l.instance = z.read
        /\ l.env = z.env /\ l.platform = z.platform /\ l.seen = z.seen /\ l.read = z.read
        /\ l.loads = loads /\ l.class = loads /\ l.linked = linked /\ l.retried = retried
        /\ l.registered = FALSE /\ l.answer = z.answer /\ l.helpers = z.helpers /\ l.spaces = z.spaces
    BY <1>0, <1>1 DEF NamespaceGood, NamespaceFields
  <1>5. Namespace!Installed(l) = i
    BY <1>4 DEF Namespace!Installed, spaces
  <1>6. \/ state' = Namespace!Answered(l, FALSE) \/ state' = Namespace!Answered(done, TRUE)
        \/ state' = Namespace!Answered(a, FALSE) \/ state' = Namespace!Answered(kept, FALSE)
        \/ state' = Namespace!Answered(b, FALSE)
    BY <1>5 DEF Namespace!Register, l
  <1>7. ASSUME NEW t, \/ t = l \/ t = a \/ t = kept \/ t = b
        PROVE  NamespaceGood(Namespace!Answered(t, FALSE))
    <2>1. /\ DOMAIN t = NamespaceFields /\ t.environment = z.seen /\ t.instance = z.read
          /\ t.env = z.env /\ t.platform = z.platform /\ t.seen = z.seen /\ t.read = z.read
          /\ (t.loads = loads \/ t.loads = z.loads) /\ (t.retried = retried \/ t.retried = z.retried)
          /\ t.registered = FALSE /\ t.answer = z.answer /\ t.helpers = z.helpers /\ t.spaces = z.spaces
      BY <1>0, <1>4, <1>7 DEF NamespaceGood, NamespaceFields
    <2>2. z.answer = FALSE
      BY <1>0 DEF NamespaceGood, NamespaceClass
    <2>3. NamespaceGood(t)
      BY <1>0, <1>2, <2>1, <2>2, NamespaceLoads DEF NamespaceGood
    <2> QED
      BY <2>3, NamespaceAnswered
  <1>8. NamespaceGood(Namespace!Answered(done, TRUE))
    <2> DEFINE u == [done EXCEPT !.at = "rest", !.answer = TRUE]
    <2>1. /\ DOMAIN done = NamespaceFields /\ done.spaces = spaces /\ done.environment = z.seen
          /\ done.instance = z.read /\ done.env = z.env /\ done.platform = z.platform
          /\ done.seen = z.seen /\ done.read = z.read /\ done.loads = loads /\ done.class = loads
          /\ done.linked = linked /\ done.retried = retried /\ done.registered = TRUE
          /\ done.helpers = z.helpers
      BY <1>4 DEF NamespaceFields
    <2> HIDE DEF done
    <2>2. /\ DOMAIN u = NamespaceFields /\ u.spaces = spaces /\ u.environment = z.seen
          /\ u.instance = z.read /\ u.env = z.env /\ u.platform = z.platform
          /\ u.seen = z.seen /\ u.read = z.read /\ u.loads = loads /\ u.class = loads
          /\ u.linked = linked /\ u.retried = retried /\ u.registered = TRUE
          /\ u.helpers = z.helpers /\ u.at = "rest" /\ u.answer = TRUE
      BY <2>1 DEF NamespaceFields
    <2> HIDE DEF u
    <2>3. NamespaceClass(u)
      BY <1>0, <1>2, <1>3, <2>2 DEF NamespaceGood, NamespaceClass
    <2>4. NamespaceGood(u)
      BY <1>2, <2>2, <2>3 DEF NamespaceGood
    <2> QED
      BY <2>4 DEF Namespace!Answered, u
  <1> QED
    BY <1>6, <1>7, <1>8

LEMMA NamespaceRenews ==
  ASSUME NamespaceGood(state), Namespace!Renew PROVE NamespaceGood(state')
  <1> DEFINE replaced == [state EXCEPT !.environment = state.seen, !.instance = state.read]
             same == state.seen = state.environment /\ state.read = state.instance
  <1>1. state.registered = TRUE
    BY DEF Namespace!Renew, NamespaceGood
  <1>2. \/ state' = Namespace!Answered(state, FALSE)
        \/ same /\ state' = Namespace!Answered(state, TRUE)
        \/ state' = Namespace!Answered(Namespace!Installed(replaced), TRUE)
    BY DEF Namespace!Renew, Namespace!NotInstalled
  <1>3. NamespaceGood(Namespace!Answered(state, FALSE))
    BY NamespaceAnswered
  <1>4. same => NamespaceGood(Namespace!Answered(state, TRUE))
    BY <1>1, NamespaceAnswered
  <1>5. NamespaceGood(Namespace!Answered(Namespace!Installed(replaced), TRUE))
    BY <1>1, NamespaceReplaced
  <1> HIDE DEF same, replaced
  <1> QED
    BY <1>2, <1>3, <1>4, <1>5

LEMMA NamespaceBooksStep == NamespaceBooks /\ [Namespace!Next]_all => NamespaceBooks'
  <1> SUFFICES ASSUME NamespaceGood(state), [Namespace!Next]_all PROVE NamespaceGood(state')
    BY DEF NamespaceBooks
  <1>1. CASE Namespace!NewPlatform \/ Namespace!NewEnvironment
    <2>1. /\ state.platform \in Namespace!Objects /\ state.env \in Namespace!Objects
          /\ state.platform < 3 => state.platform + 1 \in Namespace!Objects
          /\ state.env < 3 => state.env + 1 \in Namespace!Objects
      BY DEF NamespaceGood, Namespace!Objects
    <2> DEFINE p == state.platform + 1
               e == state.env + 1
    <2>2. \/ state' = [state EXCEPT !.platform = p] /\ p \in Namespace!Objects
          \/ state' = [state EXCEPT !.env = e] /\ e \in Namespace!Objects
      BY <1>1, <2>1 DEF Namespace!NewPlatform, Namespace!NewEnvironment
    <2> HIDE DEF p, e
    <2>3. /\ DOMAIN state' = NamespaceFields
          /\ {state'.env, state'.platform} \subseteq Namespace!Objects
          /\ state'.seen = state.seen /\ state'.read = state.read /\ state'.at = state.at
          /\ state'.environment = state.environment /\ state'.instance = state.instance
          /\ state'.loads = state.loads /\ state'.registered = state.registered
          /\ state'.answer = state.answer /\ state'.retried = state.retried
          /\ state'.helpers = state.helpers /\ state'.spaces = state.spaces
          /\ state'.class = state.class /\ state'.linked = state.linked
      BY <2>2 DEF NamespaceGood, NamespaceFields
    <2>4. {state'.seen, state'.read} \subseteq Namespace!Objects
      BY <2>3 DEF NamespaceGood
    <2> QED
      BY <2>3, <2>4, NamespaceRead
  <1>2. CASE Namespace!ReadOne \/ Namespace!ReadOther
    <2>1. CASE state' = Namespace!Answered(state, FALSE)
      BY <2>1, NamespaceAnswered
    <2>2. CASE \/ state' = [state EXCEPT !.at = "reading", !.seen = state.env]
               \/ state' = [state EXCEPT !.at = "reading", !.read = state.platform]
               \/ state' = [state EXCEPT !.at = "read", !.read = state.platform]
               \/ state' = [state EXCEPT !.at = "read", !.seen = state.env]
      <3>3. /\ DOMAIN state' = NamespaceFields /\ state'.env = state.env
            /\ state'.platform = state.platform /\ state'.at # "rest"
            /\ state'.seen \in {state.seen, state.env} /\ state'.read \in {state.read, state.platform}
            /\ state'.environment = state.environment /\ state'.instance = state.instance
            /\ state'.loads = state.loads /\ state'.registered = state.registered
            /\ state'.answer = state.answer /\ state'.retried = state.retried
            /\ state'.helpers = state.helpers /\ state'.spaces = state.spaces
            /\ state'.class = state.class /\ state'.linked = state.linked
        BY <2>2 DEF NamespaceGood, NamespaceFields
      <3>4. {state'.env, state'.platform, state'.seen, state'.read} \subseteq Namespace!Objects
        BY <3>3 DEF NamespaceGood
      <3> QED
        BY <3>3, <3>4, NamespaceRead
    <2> QED
      BY <1>2, <2>1, <2>2 DEF Namespace!ReadOne, Namespace!ReadOther
  <1>3. CASE Namespace!Renew
    BY <1>3, NamespaceRenews
  <1>4. CASE Namespace!Register
    BY <1>4, NamespaceRegisters
  <1>5. CASE Namespace!LoadEmbedded
    <2> DEFINE h == state.helpers \cup {state.class}
    <2>1. state' = [state EXCEPT !.helpers = h]
      BY <1>5 DEF Namespace!LoadEmbedded
    <2>2. state.registered = TRUE /\ h \subseteq {state.class}
      BY <1>5 DEF Namespace!LoadEmbedded, Namespace!MayLoad, NamespaceGood, NamespaceClass
    <2> HIDE DEF h
    <2>3. /\ DOMAIN state' = NamespaceFields /\ state'.env = state.env
          /\ state'.platform = state.platform /\ state'.at = state.at
          /\ state'.seen = state.seen /\ state'.read = state.read
          /\ state'.environment = state.environment /\ state'.instance = state.instance
          /\ state'.loads = state.loads /\ state'.registered = state.registered
          /\ state'.answer = state.answer /\ state'.retried = state.retried
          /\ state'.helpers = h /\ state'.spaces = state.spaces
          /\ state'.class = state.class /\ state'.linked = state.linked
      BY <2>1 DEF NamespaceGood, NamespaceFields
    <2>4. NamespaceClass(state')
      BY <2>2, <2>3 DEF NamespaceGood, NamespaceClass
    <2> QED
      BY <2>3, <2>4 DEF NamespaceGood
  <1>6. CASE UNCHANGED all
    BY <1>6 DEF all, NamespaceGood, NamespaceClass
  <1> QED
    BY <1>1, <1>2, <1>3, <1>4, <1>5, <1>6 DEF Namespace!Next

-----------------------------------------------------------------------------
(* Launcher: an attempt that failed left nothing, and the window reads what the latest one stored. *)

Launcher == INSTANCE Launcher WITH launcher <- state, MaxRequests <- 5, Players <- Persons

LauncherFields ==
  {"process", "games", "run", "window", "page", "loading", "pressed", "state", "message", "latest", "attempts",
   "made", "spoilt", "blind"}

\* What an attempt has in the game that it found follows the thread there.
AttemptGood(at, process, games) ==
  /\ at \in Launcher!Attempts /\ at.process \in 0 .. games
  /\ at.worker \in {"find", "wait", "load"} => at.thread = "none" /\ at.blocks = {} /\ ~at.table /\ ~at.started
  /\ at.worker # "store" => at.result = "none" /\ at.stored = 0
  /\ at.worker = "store" => at.result # "none"
  /\ at.worker = "await" => at.thread # "none"
  /\ at.worker = "load" \/ at.thread # "none" => at.process > 0
  /\ at.thread = "lost" => at.process # process
  /\ at.thread \in Launcher!Busy \cup {"failed", "none"} => ~at.started
  /\ at.thread \in {"failed", "none"} => ~at.table
  /\ at.thread = "complete" => at.started
  /\ at.result = "failed" => at.blocks = {} /\ at.thread \in {"none", "failed"}
  /\ at.result = "success" => at.started

\* The attempts of this run ended, but for the latest one, which the window waits for.
LauncherRuns(c) ==
  /\ \A a \in DOMAIN c.attempts : c.attempts[a].run <= c.run
  /\ \A a \in DOMAIN c.attempts : 
       c.attempts[a].run = c.run => c.latest >= a /\ (c.attempts[a].stored < 2 => a = c.latest)
  /\ c.latest # 0 => 
       /\ c.latest \in DOMAIN c.attempts /\ c.attempts[c.latest].run = c.run
       /\ c.attempts[c.latest].stored < 2 <=> c.state = "running"
       /\ c.attempts[c.latest].stored > 0 => c.message = c.latest
  /\ c.state = "error" => c.latest # 0 /\ c.attempts[c.latest].result \in {"failed", "unsure"}
  /\ c.state = "success" => c.latest # 0 /\ c.attempts[c.latest].result = "success"
  /\ c.loading => c.state \in {"running", "error", "success"}
  /\ c.state = "running" => c.latest # 0 /\ c.loading

LauncherGood(c) ==
  /\ DOMAIN c = LauncherFields
  /\ c.games \in Nat /\ c.process \in 0 .. c.games /\ c.run \in Nat /\ c.latest \in Nat
  /\ c.attempts \in Seq(Launcher!Attempts)
  /\ \A a \in DOMAIN c.attempts : AttemptGood(c.attempts[a], c.process, c.games)
  /\ LauncherRuns(c)

LauncherInv == LauncherGood(state)

LEMMA LauncherInit == Launcher!Init => LauncherInv
  <1> SUFFICES ASSUME Launcher!Init PROVE LauncherGood(state)
    BY DEF LauncherInv
  <1>1. PICK running \in 0 .. 1 :
       state = [process |-> running, games |-> running, run |-> 0,
                   window |-> "closed", page |-> "details", loading |-> FALSE,
                   pressed |-> "None", state |-> "idle", message |-> 0,
                   latest |-> 0, attempts |-> <<>>,
                   made |-> {}, spoilt |-> FALSE, blind |-> FALSE]
    BY DEF Launcher!Init, Launcher!NoAttempt
  <1>2. <<>> \in Seq(Launcher!Attempts) /\ DOMAIN <<>> = {}
    OBVIOUS
  <1> QED
    BY <1>1, <1>2 DEF LauncherGood, LauncherRuns, LauncherFields

\* An attempt is looked at through its sequence.
LEMMA AttemptAt ==
  ASSUME NEW c, LauncherGood(c), NEW a \in DOMAIN c.attempts
  PROVE  /\ AttemptGood(c.attempts[a], c.process, c.games) /\ a \in Nat /\ a # 0
         /\ \A at \in Launcher!Attempts :
              /\ [c.attempts EXCEPT ![a] = at] \in Seq(Launcher!Attempts)
              /\ DOMAIN [c.attempts EXCEPT ![a] = at] = DOMAIN c.attempts
              /\ [c.attempts EXCEPT ![a] = at][a] = at
              /\ \A b \in DOMAIN c.attempts \ {a} : [c.attempts EXCEPT ![a] = at][b] = c.attempts[b]
  BY DEF LauncherGood

\* What the window shows besides the attempts does not matter to them.
LEMMA LauncherSame ==
  ASSUME NEW c, LauncherGood(c), NEW d, DOMAIN d = LauncherFields, d.games = c.games, d.process = c.process,
         d.run = c.run, d.latest = c.latest, d.attempts = c.attempts, d.message = c.message,
         d.loading = c.loading, d.state = c.state
  PROVE  LauncherGood(d)
  BY DEF LauncherGood, LauncherRuns

\* The window keeps what was stored while the attempts go on.
LEMMA LauncherKeeps ==
  ASSUME NEW c, LauncherGood(c), NEW d, DOMAIN d = LauncherFields, d.games = c.games, d.process \in 0 .. c.games,
         d.run = c.run, d.latest = c.latest, d.message = c.message, d.loading = c.loading, d.state = c.state,
         d.attempts \in Seq(Launcher!Attempts), DOMAIN d.attempts = DOMAIN c.attempts,
         \A a \in DOMAIN c.attempts : 
           /\ AttemptGood(d.attempts[a], d.process, c.games)
           /\ d.attempts[a].run = c.attempts[a].run /\ d.attempts[a].stored = c.attempts[a].stored
           /\ c.attempts[a].result # "none" => d.attempts[a].result = c.attempts[a].result
  PROVE  LauncherGood(d)
  <1>1. LauncherRuns(d)
    BY DEF LauncherGood, LauncherRuns
  <1> QED
    BY <1>1 DEF LauncherGood

\* An attempt goes on.
LEMMA LauncherWith ==
  ASSUME NEW c, LauncherGood(c), NEW a \in DOMAIN c.attempts, NEW at, AttemptGood(at, c.process, c.games),
         at.run = c.attempts[a].run, at.stored = c.attempts[a].stored,
         c.attempts[a].worker = "store" => at.result = c.attempts[a].result
  PROVE  LauncherGood([c EXCEPT !.attempts[a] = at])
  <1> DEFINE attempts == [c.attempts EXCEPT ![a] = at]
             d == [c EXCEPT !.attempts = attempts]
  <1>1. /\ attempts \in Seq(Launcher!Attempts) /\ DOMAIN attempts = DOMAIN c.attempts /\ attempts[a] = at
        /\ \A b \in DOMAIN c.attempts \ {a} : attempts[b] = c.attempts[b]
    BY AttemptAt DEF AttemptGood
  <1>2. /\ DOMAIN d = LauncherFields /\ d.games = c.games /\ d.process = c.process /\ d.process \in 0 .. c.games
        /\ d.run = c.run /\ d.latest = c.latest /\ d.attempts = attempts /\ d.message = c.message
        /\ d.loading = c.loading /\ d.state = c.state
    BY DEF LauncherGood, LauncherFields
  <1>3. [c EXCEPT !.attempts[a] = at] = d
    OBVIOUS
  <1> HIDE DEF attempts, d
  <1>4. ASSUME NEW b \in DOMAIN c.attempts
        PROVE  /\ AttemptGood(attempts[b], c.process, c.games)
               /\ attempts[b].run = c.attempts[b].run /\ attempts[b].stored = c.attempts[b].stored
               /\ c.attempts[b].result # "none" => attempts[b].result = c.attempts[b].result
    <2>1. AttemptGood(c.attempts[b], c.process, c.games)
      BY AttemptAt
    <2>2. CASE b = a
      BY <1>1, <2>1, <2>2 DEF AttemptGood
    <2>3. CASE b # a
      BY <1>1, <2>1, <2>3
    <2> QED
      BY <2>2, <2>3
  <1>5. LauncherGood(d)
    BY <1>1, <1>2, <1>4, LauncherKeeps
  <1> QED
    BY <1>3, <1>5

\* What a game had ends with it.
LEMMA LauncherQuits ==
  ASSUME NEW c, LauncherGood(c), c.process # 0,
         NEW attempts, attempts = [a \in DOMAIN c.attempts |->
                                     IF c.attempts[a].process = c.process THEN Launcher!Ended(c.attempts[a]) ELSE c.attempts[a]]
  PROVE  LauncherGood([c EXCEPT !.process = 0, !.attempts = attempts])
  <1>1. ASSUME NEW a \in DOMAIN c.attempts
        PROVE  /\ AttemptGood(attempts[a], 0, c.games)
               /\ attempts[a].run = c.attempts[a].run /\ attempts[a].stored = c.attempts[a].stored
               /\ attempts[a].result = c.attempts[a].result
    <2> DEFINE at == c.attempts[a]
               thread == IF at.thread \in Launcher!Busy THEN "lost" ELSE at.thread
    <2>1. AttemptGood(at, c.process, c.games)
      BY AttemptAt
    <2> HIDE DEF at
    <2>2. CASE at.process = c.process
      <3>1. attempts[a] = [at EXCEPT !.blocks = {}, !.table = FALSE, !.thread = thread]
        BY <2>2 DEF Launcher!Ended, at
      <3>2. /\ thread \in Launcher!Busy \cup {"none", "complete", "failed", "lost"}
            /\ thread = "lost" \/ (thread = at.thread /\ at.thread \notin Launcher!Busy)
            /\ thread = "lost" => at.thread # "none" /\ at.thread # "failed"
        BY <2>1 DEF AttemptGood, Launcher!Attempts, Launcher!Busy
      <3> HIDE DEF thread
      <3>3. c.process > 0 /\ c.process \in Nat
        BY DEF LauncherGood
      <3> DEFINE t == [at EXCEPT !.blocks = {}, !.table = FALSE, !.thread = thread]
      <3>4. /\ t \in Launcher!Attempts /\ t.process = at.process /\ t.worker = at.worker /\ t.thread = thread
            /\ t.blocks = {} /\ t.table = FALSE /\ t.started = at.started /\ t.result = at.result
            /\ t.stored = at.stored /\ t.run = at.run
        BY <2>1, <3>2 DEF AttemptGood, Launcher!Attempts
      <3> HIDE DEF t
      <3>5. AttemptGood(t, 0, c.games)
        BY <2>1, <2>2, <3>2, <3>3, <3>4 DEF AttemptGood, Launcher!Busy
      <3> QED
        BY <3>1, <3>4, <3>5 DEF t, at
    <2>3. CASE at.process # c.process
      <3>1. attempts[a] = at
        BY <2>3 DEF at
      <3>2. AttemptGood(at, 0, c.games)
        BY <2>1 DEF AttemptGood, Launcher!Attempts
      <3> QED
        BY <3>1, <3>2 DEF at
    <2> QED
      BY <2>2, <2>3
  <1>2. attempts \in Seq(Launcher!Attempts) /\ DOMAIN attempts = DOMAIN c.attempts
    <2>1. DOMAIN c.attempts = 1 .. Len(c.attempts) /\ Len(c.attempts) \in Nat
      BY DEF LauncherGood
    <2>2. \A a \in 1 .. Len(c.attempts) : attempts[a] \in Launcher!Attempts
      BY <1>1, <2>1 DEF AttemptGood
    <2> QED
      BY SMTT(30), <2>1, <2>2
  <1> DEFINE d == [c EXCEPT !.process = 0, !.attempts = attempts]
  <1>3. /\ DOMAIN d = LauncherFields /\ d.games = c.games /\ d.process = 0 /\ 0 \in 0 .. c.games
        /\ d.run = c.run /\ d.latest = c.latest /\ d.attempts = attempts /\ d.message = c.message
        /\ d.loading = c.loading /\ d.state = c.state
    BY DEF LauncherGood, LauncherFields
  <1> HIDE DEF d
  <1>4. \A a \in DOMAIN c.attempts : 
           /\ AttemptGood(d.attempts[a], d.process, c.games)
           /\ d.attempts[a].run = c.attempts[a].run /\ d.attempts[a].stored = c.attempts[a].stored
           /\ c.attempts[a].result # "none" => d.attempts[a].result = c.attempts[a].result
    BY <1>1, <1>3
  <1>5. LauncherGood(d)
    BY <1>2, <1>3, <1>4, LauncherKeeps
  <1> QED
    BY <1>5 DEF d

\* A new attempt follows those that ended.
LEMMA LauncherLoads ==
  ASSUME NEW c, LauncherGood(c)
  PROVE  LauncherGood(Launcher!Loading(c))
  <1>1. CASE c.state = "running"
    BY <1>1 DEF Launcher!Loading
  <1>2. CASE c.state # "running"
    <2> DEFINE new == Launcher!NewAttempt(c)
               attempts == Append(c.attempts, new)
               n == Len(c.attempts) + 1
               d == [c EXCEPT !.loading = TRUE, !.state = "running", !.latest = n, !.attempts = attempts]
    <2>1. Launcher!Loading(c) = d
      BY <1>2 DEF Launcher!Loading
    <2>2. AttemptGood(new, c.process, c.games) /\ new \in Launcher!Attempts /\ new.run = c.run /\ new.stored = 0
      BY DEF Launcher!NewAttempt, Launcher!NoGame, AttemptGood, Launcher!Attempts, Launcher!Busy, LauncherGood
    <2> HIDE DEF new
    <2>3. /\ Len(c.attempts) \in Nat /\ DOMAIN c.attempts = 1 .. Len(c.attempts)
          /\ attempts \in Seq(Launcher!Attempts) /\ Len(attempts) = n /\ DOMAIN attempts = 1 .. Len(attempts)
          /\ \A a \in DOMAIN c.attempts : attempts[a] = c.attempts[a]
          /\ attempts[n] = new
      BY <2>2, AppendProperties DEF LauncherGood
    <2>4. DOMAIN attempts = DOMAIN c.attempts \cup {n} /\ n \in Nat /\ n # 0 /\ \A a \in DOMAIN c.attempts : a < n
      BY <2>3
    <2>5. /\ DOMAIN d = LauncherFields /\ d.games = c.games /\ d.process = c.process
          /\ d.run = c.run /\ d.latest = n /\ d.attempts = attempts /\ d.message = c.message
          /\ d.loading = TRUE /\ d.state = "running"
      BY DEF LauncherGood, LauncherFields
    <2> HIDE DEF attempts, n, d
    <2>6. \A a \in DOMAIN c.attempts : c.attempts[a].run = c.run => ~(c.attempts[a].stored < 2)
      BY <1>2, AttemptAt DEF LauncherGood, LauncherRuns
    <2>7. \A a \in DOMAIN attempts : AttemptGood(attempts[a], c.process, c.games)
      BY <2>2, <2>3, <2>4 DEF LauncherGood
    <2>8. \A a \in DOMAIN attempts : attempts[a].run <= c.run /\ 
             (attempts[a].run = c.run => n >= a /\ (attempts[a].stored < 2 => a = n))
      <3>1. \A a \in DOMAIN c.attempts : attempts[a].run <= c.run
        BY <2>3 DEF LauncherGood, LauncherRuns
      <3>2. \A a \in DOMAIN c.attempts : attempts[a].run = c.run => ~(attempts[a].stored < 2)
        BY <2>3, <2>6
      <3>3. c.run \in Nat /\ \A a \in DOMAIN c.attempts : n >= a
        BY <2>3, <2>4 DEF LauncherGood
      <3> QED
        BY <2>2, <2>3, <2>4, <3>1, <3>2, <3>3
    <2>9. LauncherRuns(d)
      BY <2>2, <2>3, <2>4, <2>5, <2>8 DEF LauncherRuns
    <2> QED
      BY <2>1, <2>3, <2>4, <2>5, <2>7, <2>9 DEF LauncherGood
  <1> QED
    BY <1>1, <1>2

\* Closing the window and a click on something else than the buttons of the loading.
LEMMA LauncherActs ==
  ASSUME NEW c, LauncherGood(c), NEW action
  PROVE  LauncherGood(Launcher!Closed(c)) /\ LauncherGood(Launcher!Acted(c, action))
  <1>0. DOMAIN c = LauncherFields
    BY DEF LauncherGood
  <1>1. LauncherGood(Launcher!Closed(c))
    BY <1>0, LauncherSame DEF Launcher!Closed, LauncherFields
  <1>2. ASSUME NEW page PROVE LauncherGood([c EXCEPT !.page = page])
    BY <1>0, LauncherSame DEF LauncherFields
  <1>3. ASSUME c.state = "error" PROVE LauncherGood([c EXCEPT !.loading = FALSE, !.state = "idle"])
    BY <1>0, <1>3 DEF LauncherGood, LauncherRuns, LauncherFields
  <1>4. \/ Launcher!Acted(c, action) \in {c, Launcher!Closed(c), Launcher!Loading(c)}
        \/ \E page : Launcher!Acted(c, action) = [c EXCEPT !.page = page]
        \/ c.state = "error" /\ Launcher!Acted(c, action) = [c EXCEPT !.loading = FALSE, !.state = "idle"]
    BY DEF Launcher!Acted
  <1> QED
    BY <1>1, <1>2, <1>3, <1>4, LauncherLoads

\* The window reads the message of the latest attempt, and then how it ended.
LEMMA LauncherStored ==
  ASSUME NEW c, LauncherGood(c), NEW a \in DOMAIN c.attempts, c.attempts[a].worker = "store", c.attempts[a].stored < 2
  PROVE  LauncherGood(Launcher!Stored(c, a))
  <1> DEFINE at == c.attempts[a]
             n == at.stored + 1
             t == [at EXCEPT !.stored = n]
             attempts == [c.attempts EXCEPT ![a] = t]
             told == [c EXCEPT !.attempts = attempts]
  <1>0. /\ AttemptGood(at, c.process, c.games) /\ a \in Nat /\ a # 0 /\ at \in Launcher!Attempts
        /\ at.worker = "store" /\ at.stored \in {0, 1} /\ at.run \in Nat
    BY AttemptAt DEF AttemptGood, Launcher!Attempts
  <1>1. /\ t \in Launcher!Attempts /\ t.process = at.process /\ t.worker = at.worker /\ t.thread = at.thread
        /\ t.blocks = at.blocks /\ t.table = at.table /\ t.started = at.started /\ t.result = at.result
        /\ t.stored = n /\ t.run = at.run
    BY <1>0 DEF Launcher!Attempts
  <1>2. n \in {1, 2} /\ n = at.stored + 1
    BY <1>0
  <1>3. /\ attempts \in Seq(Launcher!Attempts) /\ DOMAIN attempts = DOMAIN c.attempts /\ attempts[a] = t
        /\ \A b \in DOMAIN c.attempts \ {a} : attempts[b] = c.attempts[b]
    BY <1>1, AttemptAt
  <1>4. [c EXCEPT !.attempts[a].stored = @ + 1] = told
    OBVIOUS
  <1>5. Launcher!Order[n] = IF n = 1 THEN "message" ELSE "state"
    BY <1>2 DEF Launcher!Order
  <1> DEFINE state1 == IF at.result = "success" THEN "success" ELSE "error"
  <1>6. Launcher!Stored(c, a) =
          IF at.run # c.run THEN told
          ELSE IF n = 1 THEN [told EXCEPT !.message = a] ELSE [told EXCEPT !.state = state1]
    BY <1>4, <1>5 DEF Launcher!Stored
  <1>7. AttemptGood(t, c.process, c.games)
    BY <1>0, <1>1 DEF AttemptGood
  <1>8. at.run = c.run => c.latest = a /\ c.state = "running"
    BY <1>0 DEF LauncherGood, LauncherRuns
  <1>9. at.run # c.run => c.latest # a
    BY DEF LauncherGood, LauncherRuns
  <1>10. at.result \in {"failed", "unsure", "success"} /\ state1 \in {"error", "success"}
         /\ (state1 = "success" <=> at.result = "success")
    BY <1>0 DEF AttemptGood, Launcher!Attempts
  <1>11. DOMAIN told = LauncherFields /\ told.games = c.games /\ told.process = c.process /\ told.run = c.run
         /\ told.latest = c.latest /\ told.attempts = attempts /\ told.message = c.message
         /\ told.loading = c.loading /\ told.state = c.state
    BY DEF LauncherGood, LauncherFields
  <1> HIDE DEF state1, told
  <1>12. ASSUME NEW d, DOMAIN d = LauncherFields, d.games = c.games, d.process = c.process, d.run = c.run,
                d.latest = c.latest, d.attempts = attempts, d.loading = c.loading, LauncherRuns(d)
         PROVE  LauncherGood(d)
    <2>1. \A b \in DOMAIN attempts : AttemptGood(attempts[b], c.process, c.games)
      BY <1>3, <1>7, AttemptAt
    <2> QED
      BY <1>3, <1>12, <2>1 DEF LauncherGood
  <1> HIDE DEF attempts, t, n
  <1>13. /\ \A b \in DOMAIN c.attempts \ {a} : attempts[b].run = c.attempts[b].run /\ attempts[b].stored = c.attempts[b].stored
                                                 /\ attempts[b].result = c.attempts[b].result
         /\ attempts[a].run = at.run /\ attempts[a].stored = n /\ attempts[a].result = at.result
    BY <1>1, <1>3
  <1> HIDE DEF at
  <1>14. CASE at.run # c.run
    <2>1. LauncherRuns(told)
      BY <1>2, <1>3, <1>9, <1>11, <1>13, <1>14 DEF LauncherGood, LauncherRuns, at
    <2> QED
      BY <1>6, <1>11, <1>12, <1>14, <2>1
  <1>15. CASE at.run = c.run /\ n = 1
    <2> DEFINE d == [told EXCEPT !.message = a]
    <2>1. DOMAIN d = LauncherFields /\ d.games = c.games /\ d.process = c.process /\ d.run = c.run
         /\ d.latest = c.latest /\ d.attempts = attempts /\ d.message = a
         /\ d.loading = c.loading /\ d.state = c.state
      BY <1>11 DEF LauncherFields
    <2> HIDE DEF d
    <2>2. LauncherRuns(d)
      BY <1>0, <1>2, <1>3, <1>8, <1>13, <1>15, <2>1 DEF LauncherGood, LauncherRuns, at
    <2> QED
      BY <1>6, <1>12, <1>15, <2>1, <2>2 DEF d
  <1>16. CASE at.run = c.run /\ n = 2
    <2> DEFINE d == [told EXCEPT !.state = state1]
    <2>1. DOMAIN d = LauncherFields /\ d.games = c.games /\ d.process = c.process /\ d.run = c.run
         /\ d.latest = c.latest /\ d.attempts = attempts /\ d.message = c.message
         /\ d.loading = c.loading /\ d.state = state1
      BY <1>11 DEF LauncherFields
    <2>2. c.message = a
      BY <1>0, <1>2, <1>8, <1>16 DEF LauncherGood, LauncherRuns, at
    <2> HIDE DEF d
    <2>3. LauncherRuns(d)
      BY <1>0, <1>2, <1>3, <1>8, <1>10, <1>13, <1>16, <2>1, <2>2 DEF LauncherGood, LauncherRuns, at
    <2>4. LauncherGood(d)
      BY <1>12, <2>1, <2>3
    <2>5. Launcher!Stored(c, a) = d
      BY <1>6, <1>16 DEF d
    <2> QED
      BY <2>4, <2>5
  <1> QED
    BY <1>2, <1>14, <1>15, <1>16

\* A step of the worker that does not store, or of the thread in the game.
LEMMA LauncherMapped ==
  ASSUME NEW c, LauncherGood(c), NEW at, AttemptGood(at, c.process, c.games), at.worker \in {"find", "wait", "load"}
  PROVE  /\ \A blocks \in SUBSET Launcher!Blocks :
              LET f == Launcher!Failed([at EXCEPT !.blocks = blocks]) IN
              AttemptGood(f, c.process, c.games) /\ f.run = at.run /\ f.stored = at.stored
         /\ LET f == Launcher!Failed(at) IN
            AttemptGood(f, c.process, c.games) /\ f.run = at.run /\ f.stored = at.stored
         /\ LET w == [at EXCEPT !.worker = "wait"] IN
            at.worker = "find" => AttemptGood(w, c.process, c.games) /\ w.run = at.run /\ w.stored = at.stored
         /\ LET m == [at EXCEPT !.blocks = Launcher!Blocks, !.thread = "imports", !.worker = "await"] IN
            at.worker = "load" => AttemptGood(m, c.process, c.games) /\ m.run = at.run /\ m.stored = at.stored
  <1>0. at \in Launcher!Attempts
    BY DEF AttemptGood
  <1>1. ASSUME NEW blocks \in SUBSET Launcher!Blocks
        PROVE  LET f == Launcher!Failed([at EXCEPT !.blocks = blocks]) IN
               AttemptGood(f, c.process, c.games) /\ f.run = at.run /\ f.stored = at.stored
    <2>1. Launcher!Failed([at EXCEPT !.blocks = blocks]) = [at EXCEPT !.blocks = {}, !.result = "failed", !.worker = "store"]
      BY <1>0 DEF Launcher!Failed, Launcher!Scoped, Launcher!Attempts
    <2> QED
      BY <1>0, <2>1 DEF AttemptGood, Launcher!Attempts, Launcher!Busy
  <1>2. LET f == Launcher!Failed(at) IN
        AttemptGood(f, c.process, c.games) /\ f.run = at.run /\ f.stored = at.stored
    <2>1. Launcher!Failed(at) = [at EXCEPT !.blocks = {}, !.result = "failed", !.worker = "store"]
      BY <1>0 DEF Launcher!Failed, Launcher!Scoped, Launcher!Attempts
    <2> QED
      BY <1>0, <2>1 DEF AttemptGood, Launcher!Attempts, Launcher!Busy
  <1>3. LET w == [at EXCEPT !.worker = "wait"] IN
        at.worker = "find" => AttemptGood(w, c.process, c.games) /\ w.run = at.run /\ w.stored = at.stored
    BY <1>0 DEF AttemptGood, Launcher!Attempts, Launcher!Busy
  <1>4. LET m == [at EXCEPT !.blocks = Launcher!Blocks, !.thread = "imports", !.worker = "await"] IN
        at.worker = "load" => AttemptGood(m, c.process, c.games) /\ m.run = at.run /\ m.stored = at.stored
    BY <1>0 DEF AttemptGood, Launcher!Attempts, Launcher!Busy
  <1> QED
    BY <1>1, <1>2, <1>3, <1>4

\* The worker has found the game.
LEMMA LauncherFound ==
  ASSUME NEW c, LauncherGood(c), NEW at, AttemptGood(at, c.process, c.games), at.worker \in {"find", "wait", "load"},
         c.process \in Nat \ {0}, NEW f, f = [at EXCEPT !.process = c.process, !.worker = "load"]
  PROVE  AttemptGood(f, c.process, c.games)
  <1>0. at \in Launcher!Attempts
    BY DEF AttemptGood
  <1>1. c.process \in Nat /\ c.process \in 0 .. c.games /\ c.process > 0
    BY DEF LauncherGood
  <1> QED
    BY <1>0, <1>1 DEF AttemptGood, Launcher!Attempts, Launcher!Busy

\* The end of the wait for the thread: what failed left nothing, what succeeded was started.
LEMMA LauncherAwaited ==
  ASSUME NEW c, LauncherGood(c), NEW at, AttemptGood(at, c.process, c.games), at.worker = "await",
         NEW how \in Launcher!Outcomes(c, at)
  PROVE  LET t == Launcher!Awaited(at, how) IN
         AttemptGood(t, c.process, c.games) /\ t.run = at.run /\ t.stored = at.stored
  <1> DEFINE result == IF how = "failed" THEN "failed" ELSE IF how = "whole" THEN "success" ELSE "unsure"
             blocks == at.blocks \cap Launcher!Kept(how)
  <1>0. at \in Launcher!Attempts
    BY DEF AttemptGood
  <1>1. Launcher!Awaited(at, how) = [at EXCEPT !.blocks = blocks, !.result = result, !.worker = "store"]
    BY <1>0 DEF Launcher!Awaited, Launcher!Scoped, Launcher!Attempts
  <1>2. /\ result = "failed" => blocks = {} /\ at.thread = "failed"
        /\ result = "success" => at.thread = "complete"
        /\ result \in {"failed", "success", "unsure"} /\ blocks \subseteq at.blocks
    BY <1>0 DEF Launcher!Outcomes, Launcher!Kept, AttemptGood, Launcher!Attempts, Launcher!Busy
  <1> HIDE DEF result, blocks
  <1> QED
    BY <1>0, <1>1, <1>2 DEF AttemptGood, Launcher!Attempts, Launcher!Busy

LEMMA LauncherThread ==
  ASSUME NEW c, LauncherGood(c), NEW at, AttemptGood(at, c.process, c.games), at.thread \in Launcher!Busy,
         NEW works \in BOOLEAN
  PROVE  LET t == Launcher!Loaded(at, works) IN
         AttemptGood(t, c.process, c.games) /\ t.run = at.run /\ t.stored = at.stored /\ t.result = at.result
  <1>0. at \in Launcher!Attempts /\ at.worker \in {"await", "store"} /\ at.result # "failed"
    BY DEF AttemptGood, Launcher!Attempts, Launcher!Busy
  <1>1. Launcher!Loaded(at, works) \in
          {[at EXCEPT !.table = FALSE, !.thread = "failed"], [at EXCEPT !.thread = "table"],
           [at EXCEPT !.table = TRUE, !.thread = "entry"], [at EXCEPT !.started = TRUE, !.thread = "complete"]}
    BY DEF Launcher!Loaded
  <1>2. at.started = FALSE
    BY <1>0 DEF AttemptGood, Launcher!Attempts, Launcher!Busy
  <1>3. at.result # "success"
    BY <1>2 DEF AttemptGood
  <1> QED
    BY <1>0, <1>1, <1>2, <1>3 DEF AttemptGood, Launcher!Attempts, Launcher!Busy

LEMMA LauncherWorks ==
  ASSUME LauncherGood(state), NEW a \in DOMAIN state.attempts, Launcher!Worker(a)
  PROVE  LauncherGood(state')
  <1> DEFINE at == state.attempts[a]
  <1>1. AttemptGood(at, state.process, state.games) /\ at \in Launcher!Attempts
    BY AttemptAt DEF AttemptGood
  <1>2. ASSUME NEW t, AttemptGood(t, state.process, state.games), t.run = at.run, t.stored = at.stored,
               at.worker # "store", Launcher!With(a, t)
        PROVE  LauncherGood(state')
    BY <1>2, LauncherWith DEF Launcher!With
  <1> DEFINE failed == Launcher!Failed(at)
             waits == [at EXCEPT !.worker = "wait"]
             found == [at EXCEPT !.process = state.process, !.worker = "load"]
             mapped == [at EXCEPT !.blocks = Launcher!Blocks, !.thread = "imports", !.worker = "await"]
  <1>3. ASSUME at.worker \in {"find", "wait", "load"}
        PROVE  /\ AttemptGood(failed, state.process, state.games) /\ failed.run = at.run /\ failed.stored = at.stored
               /\ at.worker = "find" =>
                    AttemptGood(waits, state.process, state.games) /\ waits.run = at.run /\ waits.stored = at.stored
               /\ state.process # 0 =>
                    AttemptGood(found, state.process, state.games) /\ found.run = at.run /\ found.stored = at.stored
               /\ at.worker = "load" => 
                    AttemptGood(mapped, state.process, state.games) /\ mapped.run = at.run /\ mapped.stored = at.stored
    <2>1. AttemptGood(failed, state.process, state.games) /\ failed.run = at.run /\ failed.stored = at.stored
      BY <1>1, <1>3, LauncherMapped
    <2>2. at.worker = "find" =>
            AttemptGood(waits, state.process, state.games) /\ waits.run = at.run /\ waits.stored = at.stored
      BY <1>1, <1>3, LauncherMapped
    <2>3. ASSUME state.process # 0
          PROVE  AttemptGood(found, state.process, state.games) /\ found.run = at.run /\ found.stored = at.stored
      <3>1. found = [at EXCEPT !.process = state.process, !.worker = "load"]
        OBVIOUS
      <3>2. AttemptGood(at, state.process, state.games) /\ at.worker \in {"find", "wait", "load"}
        BY <1>1, <1>3
      <3>3. state.process \in Nat \ {0}
        BY <2>3 DEF LauncherGood
      <3>4. found.run = at.run /\ found.stored = at.stored
        BY <1>1, <3>1 DEF Launcher!Attempts
      <3> HIDE DEF at, found, failed, waits, mapped
      <3>5. AttemptGood(found, state.process, state.games)
        BY <3>1, <3>2, <3>3, LauncherFound
      <3> QED
        BY <3>4, <3>5
    <2>4. at.worker = "load" => 
            AttemptGood(mapped, state.process, state.games) /\ mapped.run = at.run /\ mapped.stored = at.stored
      BY <1>1, <1>3, LauncherMapped
    <2> HIDE DEF at, failed, waits, found, mapped
    <2> QED
      BY <2>1, <2>2, <2>3, <2>4
  <1>4. CASE at.worker = "find"
    <2>1. PICK works \in {"list", "shell", "all"} : Launcher!With(a, Launcher!Found(state, at, works))
      BY <1>4 DEF Launcher!Worker
    <2>2. \/ state.process # 0 /\ Launcher!Found(state, at, works) = found
          \/ Launcher!Found(state, at, works) \in {failed, waits}
      BY DEF Launcher!Found, Launcher!NoGame
    <2> HIDE DEF failed, waits, found, mapped
    <2> QED
      BY <1>2, <1>3, <1>4, <2>1, <2>2
  <1>5. CASE at.worker = "wait"
    <2>1. PICK appears \in BOOLEAN : 
            (appears => state.process # 0) /\ Launcher!With(a, Launcher!Waited(state, at, appears))
      BY <1>5 DEF Launcher!Worker, Launcher!NoGame
    <2>2. \/ state.process # 0 /\ Launcher!Waited(state, at, appears) = found
          \/ Launcher!Waited(state, at, appears) = failed
      BY <2>1 DEF Launcher!Waited
    <2> HIDE DEF failed, waits, found, mapped
    <2> QED
      BY <1>2, <1>3, <1>5, <2>1, <2>2
  <1>6. CASE at.worker = "load"
    <2>1. PICK step \in DOMAIN Launcher!Before \cup {"none"} : Launcher!With(a, Launcher!Mapped(state, at, step))
      BY <1>6 DEF Launcher!Worker
    <2>2. \A s \in DOMAIN Launcher!Before : Launcher!Before[s] \in SUBSET Launcher!Blocks
      BY DEF Launcher!Before, Launcher!Blocks
    <2>3. \/ Launcher!Mapped(state, at, step) \in {failed, mapped}
          \/ \E blocks \in SUBSET Launcher!Blocks : 
               Launcher!Mapped(state, at, step) = Launcher!Failed([at EXCEPT !.blocks = blocks])
      BY <2>2 DEF Launcher!Mapped
    <2> HIDE DEF failed, waits, found, mapped
    <2>4. CASE Launcher!Mapped(state, at, step) \in {failed, mapped}
      BY <1>2, <1>3, <1>6, <2>1, <2>4
    <2>5. ASSUME NEW blocks \in SUBSET Launcher!Blocks, 
                 Launcher!Mapped(state, at, step) = Launcher!Failed([at EXCEPT !.blocks = blocks])
          PROVE  LauncherGood(state')
      <3> DEFINE f == Launcher!Failed([at EXCEPT !.blocks = blocks])
      <3>1. AttemptGood(f, state.process, state.games) /\ f.run = at.run /\ f.stored = at.stored
        BY <1>1, <1>6, LauncherMapped
      <3>2. Launcher!With(a, f)
        BY <2>1, <2>5
      <3> HIDE DEF f
      <3> QED
        BY <1>2, <1>6, <3>1, <3>2
    <2> QED
      BY <2>3, <2>4, <2>5
  <1>7. CASE at.worker = "await"
    <2>1. PICK how \in Launcher!Outcomes(state, at) : Launcher!With(a, Launcher!Awaited(at, how))
      BY <1>7 DEF Launcher!Worker
    <2> DEFINE t == Launcher!Awaited(at, how)
    <2>2. AttemptGood(t, state.process, state.games) /\ t.run = at.run /\ t.stored = at.stored
      BY <1>1, <1>7, LauncherAwaited
    <2> HIDE DEF t
    <2> QED
      BY <1>2, <1>7, <2>1, <2>2 DEF t
  <1>8. CASE at.worker = "store"
    <2>1. at.stored < 2 /\ state' = Launcher!Stored(state, a)
      BY <1>8 DEF Launcher!Worker
    <2> QED
      BY <1>8, <2>1, LauncherStored
  <1> QED
    BY <1>1, <1>4, <1>5, <1>6, <1>7, <1>8 DEF Launcher!Attempts

LEMMA LauncherStep == LauncherInv /\ [Launcher!Next]_all => LauncherInv'
  <1> SUFFICES ASSUME LauncherGood(state), [Launcher!Next]_all PROVE LauncherGood(state')
    BY DEF LauncherInv, LauncherGood, LauncherRuns, AttemptGood, LauncherFields, Launcher!Attempts, Launcher!Busy, Launcher!Blocks
  <1>0. DOMAIN state = LauncherFields
    BY DEF LauncherGood
  <1>1. CASE Launcher!GameStarts
    <2> DEFINE n == state.games + 1
               d == [state EXCEPT !.process = n, !.games = n]
    <2>1. state' = d /\ state.process = 0
      BY <1>0, <1>1 DEF Launcher!GameStarts, Launcher!NoGame, LauncherFields
    <2>2. n \in Nat /\ state.games \in Nat /\ n > state.games
      BY DEF LauncherGood
    <2>3. /\ DOMAIN d = LauncherFields /\ d.games = n /\ d.process = n /\ d.run = state.run /\ d.latest = state.latest
          /\ d.attempts = state.attempts /\ d.message = state.message /\ d.loading = state.loading /\ d.state = state.state
      BY <1>0 DEF LauncherFields
    <2> HIDE DEF n, d
    <2>4. ASSUME NEW a \in DOMAIN state.attempts PROVE AttemptGood(state.attempts[a], n, n)
      <3>1. AttemptGood(state.attempts[a], state.process, state.games)
        BY AttemptAt
      <3>2. state.attempts[a].process \in 0 .. n /\ state.attempts[a].process # n
        BY <2>2, <3>1 DEF AttemptGood
      <3> QED
        BY <3>1, <3>2 DEF AttemptGood
    <2>5. LauncherRuns(d)
      BY <2>3 DEF LauncherGood, LauncherRuns
    <2>6. LauncherGood(d)
      BY <2>2, <2>3, <2>4, <2>5 DEF LauncherGood
    <2> QED
      BY <2>1, <2>6
  <1>2. CASE Launcher!GameQuits
    <2> DEFINE attempts == [a \in DOMAIN state.attempts |->
                              IF state.attempts[a].process = state.process THEN Launcher!Ended(state.attempts[a])
                              ELSE state.attempts[a]]
    <2>1. state.process # 0 /\ state' = [state EXCEPT !.process = 0, !.attempts = attempts]
      BY <1>2 DEF Launcher!GameQuits, Launcher!NoGame
    <2>2. LauncherGood([state EXCEPT !.process = 0, !.attempts = attempts])
      BY <2>1, LauncherQuits
    <2> QED
      BY <2>1, <2>2
  <1>3. CASE Launcher!Run
    <2> DEFINE n == state.run + 1
               d == [state EXCEPT !.run = n, !.window = "startup", !.page = "details", !.loading = FALSE,
                       !.pressed = "None", !.state = "idle", !.message = 0, !.latest = 0,
                       !.made = {}, !.spoilt = FALSE, !.blind = FALSE]
    <2>1. state' = d
      BY <1>3 DEF Launcher!Run, Launcher!NoAttempt
    <2>2. n \in Nat /\ state.run \in Nat /\ n > state.run
      BY DEF LauncherGood
    <2>3. /\ DOMAIN d = LauncherFields /\ d.games = state.games /\ d.process = state.process /\ d.run = n /\ d.latest = 0
          /\ d.attempts = state.attempts /\ d.message = 0 /\ d.loading = FALSE /\ d.state = "idle"
      BY <1>0 DEF LauncherFields
    <2> HIDE DEF n, d
    <2>4. \A a \in DOMAIN state.attempts : state.attempts[a].run <= n /\ state.attempts[a].run # n
      BY <2>2, AttemptAt DEF LauncherGood, LauncherRuns, AttemptGood, Launcher!Attempts
    <2>5. LauncherRuns(d)
      BY <2>3, <2>4 DEF LauncherRuns
    <2> QED
      BY <2>1, <2>2, <2>3, <2>5 DEF LauncherGood
  <1>5. CASE Launcher!Opens \/ Launcher!MouseDown
    <2>1. \/ state' = [state EXCEPT !.window = "open"]
          \/ \E target : state' = [state EXCEPT !.pressed = target]
      BY <1>5 DEF Launcher!Opens, Launcher!MouseDown
    <2> QED
      BY <1>0, <2>1, LauncherSame DEF LauncherFields
  <1>6. CASE Launcher!MouseUp
    <2> DEFINE c == [state EXCEPT !.pressed = "None"]
    <2>1. PICK action : state' = Launcher!Acted(c, action)
      BY <1>6 DEF Launcher!MouseUp
    <2>2. LauncherGood(c)
      BY <1>0, LauncherSame DEF LauncherFields
    <2> HIDE DEF c
    <2> QED
      BY <2>1, <2>2, LauncherActs
  <1>7. CASE Launcher!Enter
    BY <1>7, LauncherLoads DEF Launcher!Enter
  <1>8. CASE Launcher!Escape
    <2>1. state' \in {Launcher!Closed(state), [state EXCEPT !.page = "details"]}
      BY <1>8 DEF Launcher!Escape
    <2>2. LauncherGood([state EXCEPT !.page = "details"])
      BY <1>0, LauncherSame DEF LauncherFields
    <2> QED
      BY <2>1, <2>2, LauncherActs
  <1>9. CASE Launcher!Close \/ Launcher!Tick
    BY <1>9, LauncherActs DEF Launcher!Close, Launcher!Tick
  <1>10. CASE Launcher!Paint
    <2>1. PICK works : state' = Launcher!Painted(state, works)
      BY <1>10 DEF Launcher!Paint
    <2>2. \/ \E made, blind : state' = [state EXCEPT !.blind = blind, !.made = made]
          \/ \E made, spoilt : state' = [state EXCEPT !.made = made, !.spoilt = spoilt]
      BY <2>1 DEF Launcher!Painted
    <2> QED
      BY <1>0, <2>2, LauncherSame DEF LauncherFields
  <1>11. ASSUME NEW a \in DOMAIN state.attempts, Launcher!Loader(a) PROVE LauncherGood(state')
    <2> DEFINE at == state.attempts[a]
    <2>1. PICK works \in BOOLEAN : state' = [state EXCEPT !.attempts[a] = Launcher!Loaded(at, works)]
      BY <1>11 DEF Launcher!Loader, Launcher!With
    <2> DEFINE t == Launcher!Loaded(at, works)
    <2>2. AttemptGood(t, state.process, state.games) /\ t.run = at.run /\ t.stored = at.stored /\ t.result = at.result
      BY <1>11, AttemptAt, LauncherThread DEF Launcher!Loader
    <2> HIDE DEF t
    <2>3. LauncherGood([state EXCEPT !.attempts[a] = t])
      BY <2>2, LauncherWith
    <2> QED
      BY <2>1, <2>3 DEF t
  <1>12. CASE UNCHANGED all
    BY <1>12 DEF all
  <1> QED
    BY <1>1, <1>2, <1>3, <1>5, <1>6, <1>7, <1>8, <1>9, <1>10, <1>11, <1>12, LauncherWorks DEF Launcher!Next

LEMMA LauncherKept == LauncherInv => Launcher!FailureLeavesNothing /\ Launcher!ShownIsOfThisAttempt
  <1> SUFFICES ASSUME LauncherGood(state) PROVE Launcher!FailureLeavesNothing /\ Launcher!ShownIsOfThisAttempt
    BY DEF LauncherInv
  <1>1. Launcher!FailureLeavesNothing
    BY AttemptAt DEF Launcher!FailureLeavesNothing, AttemptGood, Launcher!Busy
  <1>2. state.latest # 0 => AttemptGood(state.attempts[state.latest], state.process, state.games)
    BY DEF LauncherGood, LauncherRuns
  <1>3. ASSUME state.loading
        PROVE  CASE state.state = "error" ->
                      /\ Launcher!Shown(state) = state.latest
                      /\ state.attempts[state.latest].result \in {"failed", "unsure"}
                 [] state.state = "success" -> state.attempts[state.latest].started
                 [] OTHER -> state.attempts[state.latest].stored < 2
    <2>1. LauncherRuns(state)
      BY DEF LauncherGood
    <2>2. CASE state.state = "error"
      <3>1. state.latest # 0 /\ ~(state.attempts[state.latest].stored < 2) /\ state.attempts[state.latest].stored \in 0 .. 2
        BY <1>2, <2>1, <2>2 DEF LauncherRuns, AttemptGood, Launcher!Attempts
      <3> QED
        BY <2>1, <2>2, <3>1 DEF LauncherRuns, Launcher!Shown
    <2>3. CASE state.state = "success"
      BY <1>2, <2>1, <2>3 DEF LauncherRuns, AttemptGood
    <2>4. CASE state.state = "running"
      BY <2>1, <2>4 DEF LauncherRuns
    <2> QED
      BY <1>3, <2>1, <2>2, <2>3, <2>4 DEF LauncherRuns
  <1>4. Launcher!ShownIsOfThisAttempt
    BY <1>3 DEF Launcher!ShownIsOfThisAttempt
  <1> QED
    BY <1>1, <1>4

-----------------------------------------------------------------------------
(* Launcher: nothing in use is freed, no run loads twice, and what is painted is there. *)

\* What the thread in the game may still use is there, as long as the game is.
AttemptSafe(at, process) ==
  /\ at.thread \in Launcher!Busy => at.blocks = Launcher!Blocks
  /\ at.started \/ at.table => "image" \in at.blocks \/ at.process # process

\* An attempt follows one that ended without success.
LauncherOnce(c) ==
  /\ \A a, b \in DOMAIN c.attempts :
       a < b /\ c.attempts[a].run = c.attempts[b].run =>
         c.attempts[a].stored = 2 /\ c.attempts[a].result # "success"
  /\ c.state \in {"idle", "running", "error", "success"}
  /\ c.state = "success" => c.loading
  /\ c.state = "idle" /\ c.latest # 0 => c.attempts[c.latest].result # "success"

LauncherBooked(c) ==
  LauncherOnce(c) /\ \A a \in DOMAIN c.attempts : AttemptSafe(c.attempts[a], c.process)

\* Where there is a target there is everything, unless that failed once.
LauncherPaints(c) ==
  /\ c.blind \in BOOLEAN /\ c.spoilt \in BOOLEAN
  /\ c.blind => c.spoilt
  /\ "target" \in c.made => c.made = Launcher!Resources \/ c.spoilt

LauncherBooks == LauncherBooked(state) /\ LauncherPaints(state)

LEMMA LauncherBooksInit == Launcher!Init => LauncherBooks
  <1> SUFFICES ASSUME Launcher!Init PROVE LauncherBooks
    OBVIOUS
  <1>1. /\ state.attempts = <<>> /\ state.latest = 0 /\ state.state = "idle" /\ state.made = {}
        /\ state.blind = FALSE /\ state.spoilt = FALSE
    BY DEF Launcher!Init, Launcher!NoAttempt
  <1>2. DOMAIN state.attempts = {}
    BY <1>1
  <1> QED
    BY <1>1, <1>2 DEF LauncherBooks, LauncherBooked, LauncherOnce, LauncherPaints

LEMMA LauncherAsBooked ==
  ASSUME NEW c, LauncherBooked(c), NEW d, d.process = c.process, d.latest = c.latest,
         d.attempts = c.attempts, d.loading = c.loading, d.state = c.state
  PROVE  LauncherBooked(d)
  BY DEF LauncherBooked, LauncherOnce

\* An attempt whose end was stored stays as it is, but for the thread.
LEMMA LauncherGoesOn ==
  ASSUME NEW c, LauncherGood(c), LauncherBooked(c), NEW a \in DOMAIN c.attempts, NEW t \in Launcher!Attempts,
         AttemptSafe(t, c.process), t.run = c.attempts[a].run, t.stored = c.attempts[a].stored,
         c.attempts[a].worker = "store" => t.result = c.attempts[a].result
  PROVE  LauncherBooked([c EXCEPT !.attempts[a] = t])
  <1> DEFINE attempts == [c.attempts EXCEPT ![a] = t]
             d == [c EXCEPT !.attempts = attempts]
  <1>1. /\ DOMAIN attempts = DOMAIN c.attempts /\ attempts[a] = t
        /\ \A b \in DOMAIN c.attempts \ {a} : attempts[b] = c.attempts[b]
    BY AttemptAt
  <1>2. d.process = c.process /\ d.latest = c.latest /\ d.attempts = attempts /\ d.loading = c.loading /\ d.state = c.state
    BY DEF LauncherGood, LauncherFields
  <1>3. [c EXCEPT !.attempts[a] = t] = d
    OBVIOUS
  <1> HIDE DEF attempts, d
  <1>4. AttemptGood(c.attempts[a], c.process, c.games)
    BY AttemptAt
  <1>5. \A b \in DOMAIN c.attempts : AttemptSafe(attempts[b], c.process)
    BY <1>1 DEF LauncherBooked
  <1>6. \A b \in DOMAIN c.attempts : attempts[b].run = c.attempts[b].run /\ attempts[b].stored = c.attempts[b].stored
    BY <1>1
  <1>7. \A b \in DOMAIN c.attempts : c.attempts[b].stored = 2 => attempts[b].result = c.attempts[b].result
    <2>1. c.attempts[a].stored = 2 => c.attempts[a].worker = "store"
      BY <1>4 DEF AttemptGood
    <2> QED
      BY <1>1, <2>1
  <1>8. c.state = "idle" /\ c.latest # 0 => c.latest \in DOMAIN c.attempts /\ c.attempts[c.latest].stored = 2
    <2> SUFFICES ASSUME c.state = "idle", c.latest # 0 PROVE c.latest \in DOMAIN c.attempts /\ c.attempts[c.latest].stored = 2
      OBVIOUS
    <2>1. c.latest \in DOMAIN c.attempts /\ ~(c.attempts[c.latest].stored < 2)
      BY DEF LauncherGood, LauncherRuns
    <2>2. c.attempts[c.latest].stored \in 0 .. 2
      BY <2>1, AttemptAt DEF AttemptGood, Launcher!Attempts
    <2> QED
      BY <2>1, <2>2
  <1>9. LauncherOnce(d)
    BY <1>1, <1>2, <1>6, <1>7, <1>8 DEF LauncherOnce, LauncherBooked
  <1> QED
    BY <1>1, <1>2, <1>3, <1>5, <1>9 DEF LauncherBooked

\* A new attempt follows those that ended, none of them with success.
LEMMA LauncherFollows ==
  ASSUME NEW c, LauncherGood(c), LauncherBooked(c), ~c.loading
  PROVE  LauncherBooked(Launcher!Loading(c))
  <1>1. CASE c.state = "running"
    BY <1>1 DEF Launcher!Loading
  <1>2. CASE c.state # "running"
    <2> DEFINE new == Launcher!NewAttempt(c)
               attempts == Append(c.attempts, new)
               n == Len(c.attempts) + 1
               d == [c EXCEPT !.loading = TRUE, !.state = "running", !.latest = n, !.attempts = attempts]
    <2>1. Launcher!Loading(c) = d
      BY <1>2 DEF Launcher!Loading
    <2>2. /\ new \in Launcher!Attempts /\ new.run = c.run /\ AttemptSafe(new, c.process)
      BY DEF Launcher!NewAttempt, Launcher!NoGame, AttemptSafe, Launcher!Attempts, Launcher!Busy, LauncherGood
    <2> HIDE DEF new
    <2>3. /\ Len(c.attempts) \in Nat /\ DOMAIN c.attempts = 1 .. Len(c.attempts)
          /\ attempts \in Seq(Launcher!Attempts) /\ Len(attempts) = n /\ DOMAIN attempts = 1 .. Len(attempts)
          /\ \A a \in DOMAIN c.attempts : attempts[a] = c.attempts[a]
          /\ attempts[n] = new
      BY <2>2, AppendProperties DEF LauncherGood
    <2>4. DOMAIN attempts = DOMAIN c.attempts \cup {n} /\ n \in Nat /\ \A a \in DOMAIN c.attempts : a < n /\ a \in Nat
      BY <2>3
    <2>5. /\ d.process = c.process /\ d.latest = n /\ d.attempts = attempts /\ d.loading = TRUE /\ d.state = "running"
      BY DEF LauncherGood, LauncherFields
    <2> HIDE DEF attempts, n, d
    <2>6. ASSUME NEW a \in DOMAIN c.attempts, c.attempts[a].run = c.run
          PROVE  c.attempts[a].stored = 2 /\ c.attempts[a].result # "success"
      <3>1. c.latest >= a /\ (c.attempts[a].stored < 2 => a = c.latest) /\ c.latest \in Nat /\ a \in Nat /\ a # 0
        BY <2>6, AttemptAt DEF LauncherGood, LauncherRuns
      <3>2. c.latest # 0
        BY <3>1
      <3>3. c.latest \in DOMAIN c.attempts /\ c.attempts[c.latest].run = c.run /\ ~(c.attempts[c.latest].stored < 2)
        BY <1>2, <3>2 DEF LauncherGood, LauncherRuns
      <3>4. c.attempts[a].stored \in 0 .. 2
        BY AttemptAt DEF AttemptGood, Launcher!Attempts
      <3>5. c.attempts[a].stored = 2
        BY <3>1, <3>3, <3>4
      <3>6. c.attempts[c.latest].result # "success"
        <4>1. c.state \in {"idle", "error"}
          BY <1>2 DEF LauncherBooked, LauncherOnce
        <4>2. c.state = "error" => c.attempts[c.latest].result \in {"failed", "unsure"}
          BY DEF LauncherGood, LauncherRuns
        <4> QED
          BY <3>2, <4>1, <4>2 DEF LauncherBooked, LauncherOnce
      <3>7. a # c.latest => c.attempts[a].result # "success"
        <4>1. a # c.latest => a < c.latest
          BY <3>1
        <4> QED
          BY <2>6, <3>3, <4>1 DEF LauncherBooked, LauncherOnce
      <3> QED
        BY <3>5, <3>6, <3>7
    <2>7. \A a \in DOMAIN attempts : AttemptSafe(attempts[a], c.process)
      BY <2>2, <2>3, <2>4 DEF LauncherBooked
    <2>8. \A a, b \in DOMAIN attempts :
            a < b /\ attempts[a].run = attempts[b].run => attempts[a].stored = 2 /\ attempts[a].result # "success"
      <3> SUFFICES ASSUME NEW a \in DOMAIN attempts, NEW b \in DOMAIN attempts, a < b, attempts[a].run = attempts[b].run
                   PROVE  attempts[a].stored = 2 /\ attempts[a].result # "success"
        OBVIOUS
      <3>1. a \in DOMAIN c.attempts /\ attempts[a] = c.attempts[a]
        <4>1. a # n
          BY <2>4
        <4> QED
          BY <2>3, <2>4, <4>1
      <3>2. CASE b = n
        BY <2>2, <2>3, <2>6, <3>1, <3>2
      <3>3. CASE b # n
        <4>1. b \in DOMAIN c.attempts /\ attempts[b] = c.attempts[b]
          BY <2>3, <2>4, <3>3
        <4> QED
          BY <3>1, <4>1 DEF LauncherBooked, LauncherOnce
      <3> QED
        BY <3>2, <3>3
    <2>9. LauncherOnce(d)
      BY <2>5, <2>8 DEF LauncherOnce
    <2> QED
      BY <2>1, <2>5, <2>7, <2>9 DEF LauncherBooked
  <1> QED
    BY <1>1, <1>2

LEMMA LauncherClicks ==
  ASSUME NEW c, LauncherGood(c), LauncherBooked(c), NEW action, action = "Load" => ~c.loading
  PROVE  LauncherBooked(Launcher!Closed(c)) /\ LauncherBooked(Launcher!Acted(c, action))
  <1>0. DOMAIN c = LauncherFields
    BY DEF LauncherGood
  <1>1. ASSUME NEW window, NEW made, NEW d, d = [c EXCEPT !.window = window, !.made = made] PROVE LauncherBooked(d)
    BY <1>0, <1>1, LauncherAsBooked DEF LauncherFields
  <1>2. ASSUME NEW page, NEW d, d = [c EXCEPT !.page = page] PROVE LauncherBooked(d)
    BY <1>0, <1>2, LauncherAsBooked DEF LauncherFields
  <1>3. ASSUME c.state = "error", NEW d, d = [c EXCEPT !.loading = FALSE, !.state = "idle"] PROVE LauncherBooked(d)
    <2>1. d.process = c.process /\ d.latest = c.latest /\ d.attempts = c.attempts /\ d.loading = FALSE /\ d.state = "idle"
      BY <1>0, <1>3 DEF LauncherFields
    <2>2. c.attempts[c.latest].result # "success"
      BY <1>3 DEF LauncherGood, LauncherRuns
    <2> QED
      BY <2>1, <2>2 DEF LauncherBooked, LauncherOnce
  <1>4. LauncherBooked(Launcher!Closed(c))
    BY <1>1 DEF Launcher!Closed
  <1>5. \/ Launcher!Acted(c, action) \in {c, Launcher!Closed(c)}
        \/ action = "Load" /\ Launcher!Acted(c, action) = Launcher!Loading(c)
        \/ \E page : Launcher!Acted(c, action) = [c EXCEPT !.page = page]
        \/ c.state = "error" /\ Launcher!Acted(c, action) = [c EXCEPT !.loading = FALSE, !.state = "idle"]
    BY DEF Launcher!Acted
  <1> QED
    BY <1>2, <1>3, <1>4, <1>5, LauncherFollows

\* What is freed on the way is not in use.
LEMMA AttemptsStaySafe ==
  ASSUME NEW at \in Launcher!Attempts, NEW process, NEW games, AttemptGood(at, process, games), AttemptSafe(at, process)
  PROVE  /\ at.worker \in {"find", "wait", "load"} =>
              /\ \A worker \in {"find", "wait", "load"} : LET t == [at EXCEPT !.worker = worker] IN
                   t.run = at.run /\ t.stored = at.stored /\ t \in Launcher!Attempts /\ AttemptSafe(t, process)
              /\ \A p \in Nat : LET t == [at EXCEPT !.process = p, !.worker = "load"] IN
                   t.run = at.run /\ t.stored = at.stored /\ t \in Launcher!Attempts /\ AttemptSafe(t, process)
              /\ LET t == [at EXCEPT !.blocks = Launcher!Blocks, !.thread = "imports", !.worker = "await"] IN
                   t.run = at.run /\ t.stored = at.stored /\ t \in Launcher!Attempts /\ AttemptSafe(t, process)
              /\ \A blocks \in SUBSET Launcher!Blocks : LET t == Launcher!Failed([at EXCEPT !.blocks = blocks]) IN
                   t.run = at.run /\ t.stored = at.stored /\ t \in Launcher!Attempts /\ AttemptSafe(t, process)
              /\ LET t == Launcher!Failed(at) IN
                   t.run = at.run /\ t.stored = at.stored /\ t \in Launcher!Attempts /\ AttemptSafe(t, process)
         /\ at.thread \in Launcher!Busy => \A works \in BOOLEAN : LET t == Launcher!Loaded(at, works) IN
              t.run = at.run /\ t.stored = at.stored /\ t.result = at.result /\ t \in Launcher!Attempts /\ AttemptSafe(t, process)
  <1> USE DEF Launcher!Attempts, Launcher!Busy, Launcher!Blocks
  <1>1. ASSUME at.worker \in {"find", "wait", "load"}
        PROVE  /\ at.thread = "none" /\ ~at.table /\ ~at.started
    BY <1>1 DEF AttemptGood
  <1>2. ASSUME at.worker \in {"find", "wait", "load"}, NEW worker \in {"find", "wait", "load"}, NEW t, t = [at EXCEPT !.worker = worker]
        PROVE  t.run = at.run /\ t.stored = at.stored /\ t \in Launcher!Attempts /\ AttemptSafe(t, process)
    BY <1>1, <1>2 DEF AttemptSafe
  <1>3. ASSUME at.worker \in {"find", "wait", "load"}, NEW p \in Nat, NEW t, t = [at EXCEPT !.process = p, !.worker = "load"]
        PROVE  t.run = at.run /\ t.stored = at.stored /\ t \in Launcher!Attempts /\ AttemptSafe(t, process)
    BY <1>1, <1>3 DEF AttemptSafe
  <1>4. ASSUME at.worker \in {"find", "wait", "load"}, NEW t,
               t = [at EXCEPT !.blocks = Launcher!Blocks, !.thread = "imports", !.worker = "await"]
        PROVE  t.run = at.run /\ t.stored = at.stored /\ t \in Launcher!Attempts /\ AttemptSafe(t, process)
    BY <1>1, <1>4 DEF AttemptSafe
  <1>5. ASSUME at.worker \in {"find", "wait", "load"}, NEW blocks \in SUBSET Launcher!Blocks, NEW b, NEW t,
               b = at \/ b = [at EXCEPT !.blocks = blocks], t = Launcher!Failed(b)
        PROVE  t.run = at.run /\ t.stored = at.stored /\ t \in Launcher!Attempts /\ AttemptSafe(t, process)
    <2>1. b \in Launcher!Attempts /\ b.thread = "none" /\ ~b.table /\ ~b.started /\ b.run = at.run /\ b.stored = at.stored
      BY <1>1, <1>5
    <2>2. t = [b EXCEPT !.blocks = b.blocks \cap {}, !.result = "failed", !.worker = "store"]
      BY <1>5, <2>1 DEF Launcher!Failed, Launcher!Scoped
    <2> HIDE DEF Launcher!Failed
    <2> QED
      BY <2>1, <2>2 DEF AttemptSafe
  <1>6. ASSUME at.thread \in Launcher!Busy, NEW works \in BOOLEAN, NEW t, t = Launcher!Loaded(at, works)
        PROVE  t.run = at.run /\ t.stored = at.stored /\ t.result = at.result /\ t \in Launcher!Attempts /\ AttemptSafe(t, process)
    <2>1. at.blocks = Launcher!Blocks
      BY <1>6 DEF AttemptSafe
    <2>2. t \in {[at EXCEPT !.table = FALSE, !.thread = "failed"], [at EXCEPT !.thread = "table"],
                 [at EXCEPT !.table = TRUE, !.thread = "entry"], [at EXCEPT !.started = TRUE, !.thread = "complete"]}
      BY <1>6 DEF Launcher!Loaded
    <2> QED
      BY <2>1, <2>2 DEF AttemptSafe
  <1> HIDE DEF Launcher!Attempts, Launcher!Busy, Launcher!Blocks
  <1>7. ASSUME at.worker \in {"find", "wait", "load"}, NEW blocks \in SUBSET Launcher!Blocks
        PROVE  LET t == Launcher!Failed([at EXCEPT !.blocks = blocks]) IN
               t.run = at.run /\ t.stored = at.stored /\ t \in Launcher!Attempts /\ AttemptSafe(t, process)
    BY <1>5, <1>7
  <1>8. ASSUME at.worker \in {"find", "wait", "load"}
        PROVE  LET t == Launcher!Failed(at) IN
               t.run = at.run /\ t.stored = at.stored /\ t \in Launcher!Attempts /\ AttemptSafe(t, process)
    <2>1. {} \in SUBSET Launcher!Blocks
      OBVIOUS
    <2> QED
      BY <1>5, <1>8, <2>1
  <1>9. ASSUME at.thread \in Launcher!Busy, NEW works \in BOOLEAN
        PROVE  LET t == Launcher!Loaded(at, works) IN
               t.run = at.run /\ t.stored = at.stored /\ t.result = at.result /\ t \in Launcher!Attempts /\ AttemptSafe(t, process)
    BY <1>6, <1>9
  <1> QED
    BY <1>2, <1>3, <1>4, <1>7, <1>8, <1>9

\* The wait for the thread frees what its end leaves.
LEMMA AttemptsAwaited ==
  ASSUME NEW c, NEW at \in Launcher!Attempts, AttemptGood(at, c.process, c.games), AttemptSafe(at, c.process),
         at.worker = "await", NEW how \in Launcher!Outcomes(c, at), NEW t, t = Launcher!Awaited(at, how)
  PROVE  t.run = at.run /\ t.stored = at.stored /\ t \in Launcher!Attempts /\ AttemptSafe(t, c.process)
  <1> DEFINE result == CASE how = "failed" -> "failed" [] how = "whole" -> "success" [] OTHER -> "unsure"
             blocks == at.blocks \cap Launcher!Kept(how)
  <1>1. t = [at EXCEPT !.blocks = blocks, !.result = result, !.worker = "store"]
    BY DEF Launcher!Awaited, Launcher!Scoped, Launcher!Attempts
  <1>2. result \in {"failed", "success", "unsure"} /\ blocks \subseteq at.blocks
    OBVIOUS
  <1>3. at.thread \in Launcher!Busy => blocks = Launcher!Blocks
    BY DEF Launcher!Outcomes, Launcher!Kept, AttemptSafe, Launcher!Blocks
  <1>4. at.started \/ at.table => "image" \in blocks \/ at.process # c.process
    <2>1. how = "failed" => at.thread = "failed"
      BY DEF Launcher!Outcomes
    <2>2. how = "failed" => ~at.table /\ ~at.started
      BY <2>1 DEF AttemptGood
    <2>3. how # "failed" => "image" \in Launcher!Kept(how)
      BY DEF Launcher!Kept, Launcher!Blocks
    <2> QED
      BY <2>2, <2>3 DEF AttemptSafe
  <1> HIDE DEF result, blocks
  <1>5. /\ t \in Launcher!Attempts /\ t.run = at.run /\ t.stored = at.stored /\ t.thread = at.thread
        /\ t.blocks = blocks /\ t.table = at.table /\ t.started = at.started /\ t.process = at.process
    BY <1>1, <1>2 DEF Launcher!Attempts
  <1> QED
    BY <1>3, <1>4, <1>5 DEF AttemptSafe

LEMMA LauncherWorkBooks ==
  ASSUME LauncherGood(state), LauncherBooked(state), NEW a \in DOMAIN state.attempts, Launcher!Worker(a)
  PROVE  LauncherBooked(state')
  <1> DEFINE at == state.attempts[a]
             failed == Launcher!Failed(at)
             waits == [at EXCEPT !.worker = "wait"]
             found == [at EXCEPT !.process = state.process, !.worker = "load"]
             mapped == [at EXCEPT !.blocks = Launcher!Blocks, !.thread = "imports", !.worker = "await"]
             same(t) == t.run = at.run /\ t.stored = at.stored /\ t \in Launcher!Attempts /\ AttemptSafe(t, state.process)
  <1>1. AttemptGood(at, state.process, state.games) /\ at \in Launcher!Attempts /\ AttemptSafe(at, state.process)
        /\ state.process \in Nat
    BY AttemptAt DEF AttemptGood, LauncherBooked, LauncherGood
  <1>2. ASSUME NEW t, same(t), at.worker # "store", Launcher!With(a, t)
        PROVE  LauncherBooked(state')
    BY <1>2, LauncherGoesOn DEF Launcher!With
  <1>3. ASSUME at.worker \in {"find", "wait", "load"}
        PROVE  /\ same(failed) /\ same(waits) /\ same(found) /\ same(mapped)
               /\ \A blocks \in SUBSET Launcher!Blocks : same(Launcher!Failed([at EXCEPT !.blocks = blocks]))
    BY <1>1, <1>3, AttemptsStaySafe
  <1>4. CASE at.worker = "find"
    <2>1. PICK works \in {"list", "shell", "all"} : Launcher!With(a, Launcher!Found(state, at, works))
      BY <1>4 DEF Launcher!Worker
    <2>2. Launcher!Found(state, at, works) \in {failed, waits, found}
      BY DEF Launcher!Found, Launcher!NoGame
    <2> HIDE DEF failed, waits, found, mapped, same
    <2> QED
      BY <1>2, <1>3, <1>4, <2>1, <2>2
  <1>5. CASE at.worker = "wait"
    <2>1. PICK appears \in BOOLEAN : Launcher!With(a, Launcher!Waited(state, at, appears))
      BY <1>5 DEF Launcher!Worker
    <2>2. Launcher!Waited(state, at, appears) \in {failed, found}
      BY <2>1 DEF Launcher!Waited
    <2> HIDE DEF failed, waits, found, mapped, same
    <2> QED
      BY <1>2, <1>3, <1>5, <2>1, <2>2
  <1>6. CASE at.worker = "load"
    <2>1. PICK step \in DOMAIN Launcher!Before \cup {"none"} : Launcher!With(a, Launcher!Mapped(state, at, step))
      BY <1>6 DEF Launcher!Worker
    <2>2. \A s \in DOMAIN Launcher!Before : Launcher!Before[s] \in SUBSET Launcher!Blocks
      BY DEF Launcher!Before, Launcher!Blocks
    <2> DEFINE short(blocks) == Launcher!Failed([at EXCEPT !.blocks = blocks])
    <2>3. \/ Launcher!Mapped(state, at, step) \in {failed, mapped}
          \/ \E blocks \in SUBSET Launcher!Blocks : Launcher!Mapped(state, at, step) = short(blocks)
      BY <2>2 DEF Launcher!Mapped
    <2>4. \A blocks \in SUBSET Launcher!Blocks : same(short(blocks))
      BY <1>3, <1>6
    <2> HIDE DEF failed, waits, found, mapped, same, short
    <2> QED
      BY <1>2, <1>3, <1>6, <2>1, <2>3, <2>4
  <1>7. CASE at.worker = "await"
    <2>1. PICK how \in Launcher!Outcomes(state, at) : Launcher!With(a, Launcher!Awaited(at, how))
      BY <1>7 DEF Launcher!Worker
    <2> DEFINE t == Launcher!Awaited(at, how)
    <2>2. same(t)
      BY <1>1, <1>7, AttemptsAwaited
    <2> HIDE DEF t, same
    <2> QED
      BY <1>2, <1>7, <2>1, <2>2 DEF t
  <1>8. CASE at.worker = "store"
    <2> DEFINE t == [at EXCEPT !.stored = at.stored + 1]
               told == [state EXCEPT !.attempts[a] = t]
    <2>1. at.stored < 2 /\ state' = Launcher!Stored(state, a)
      BY <1>8 DEF Launcher!Worker
    <2>2. /\ t \in Launcher!Attempts /\ t.run = at.run /\ t.stored = at.stored + 1 /\ t.result = at.result
          /\ AttemptSafe(t, state.process) /\ at.stored \in {0, 1}
      BY <1>1, <2>1 DEF Launcher!Attempts, AttemptSafe
    <2> DEFINE attempts == [state.attempts EXCEPT ![a] = t]
    <2>3. /\ DOMAIN attempts = DOMAIN state.attempts /\ attempts[a] = t
          /\ \A b \in DOMAIN state.attempts \ {a} : attempts[b] = state.attempts[b]
      BY <2>2, AttemptAt
    <2>4. \/ state' = [state EXCEPT !.attempts = attempts]
          \/ state' = [[state EXCEPT !.attempts = attempts] EXCEPT !.message = a]
          \/ /\ at.run = state.run
             /\ state' = [[state EXCEPT !.attempts = attempts] EXCEPT !.state = IF at.result = "success" THEN "success" ELSE "error"]
      BY <2>1 DEF Launcher!Stored
    <2>5. state'.process = state.process /\ state'.latest = state.latest /\ state'.attempts = attempts /\ state'.loading = state.loading
          /\ \/ state'.state = state.state
             \/ at.run = state.run /\ state'.state \in {"success", "error"}
      <3> HIDE DEF attempts, at
      <3>1. DOMAIN state = LauncherFields
        BY DEF LauncherGood
      <3> QED
        BY <2>4, <3>1 DEF LauncherFields
    <2>6. at.run = state.run => state.loading
      <3>1. at.run = state.run => a = state.latest
        BY <2>1 DEF LauncherGood, LauncherRuns
      <3>2. a # 0
        BY AttemptAt
      <3> QED
        BY <2>1, <3>1, <3>2 DEF LauncherGood, LauncherRuns
    <2>7. \A b \in DOMAIN state.attempts : attempts[b].run = state.attempts[b].run /\ attempts[b].result = state.attempts[b].result
      <3> HIDE DEF attempts, t
      <3> QED
        BY <2>2, <2>3
    <2>8. \A b \in DOMAIN state.attempts : state.attempts[b].stored = 2 => attempts[b].stored = 2
      <3> HIDE DEF attempts, t
      <3> QED
        BY <2>2, <2>3
    <2>9. \A b \in DOMAIN state.attempts : AttemptSafe(attempts[b], state.process)
      <3> HIDE DEF attempts, t
      <3> QED
        BY <2>2, <2>3 DEF LauncherBooked
    <2> HIDE DEF attempts, t, at
    <2>10. state.state = "idle" /\ state.latest # 0 => state.latest \in DOMAIN state.attempts
      BY DEF LauncherGood, LauncherRuns
    <2>11. LauncherOnce(state')
      BY <2>3, <2>5, <2>6, <2>7, <2>8, <2>10 DEF LauncherOnce, LauncherBooked
    <2> QED
      BY <2>3, <2>5, <2>9, <2>11 DEF LauncherBooked
  <1> QED
    BY <1>1, <1>4, <1>5, <1>6, <1>7, <1>8 DEF Launcher!Attempts

LEMMA LauncherStepBooked ==
  ASSUME LauncherGood(state), LauncherBooked(state), [Launcher!Next]_all
  PROVE  LauncherBooked(state')
  <1>0. DOMAIN state = LauncherFields
    BY DEF LauncherGood
  <1>1. CASE Launcher!GameStarts
    <2> DEFINE n == state.games + 1
    <2>1. /\ state'.process = n /\ state'.latest = state.latest /\ state'.attempts = state.attempts
          /\ state'.loading = state.loading /\ state'.state = state.state
      BY <1>0, <1>1 DEF Launcher!GameStarts, LauncherFields
    <2>2. n \in Nat /\ state.games \in Nat /\ n > state.games
      BY DEF LauncherGood
    <2> HIDE DEF n
    <2>3. ASSUME NEW a \in DOMAIN state.attempts PROVE AttemptSafe(state.attempts[a], n)
      <3>1. AttemptGood(state.attempts[a], state.process, state.games) /\ AttemptSafe(state.attempts[a], state.process)
        BY AttemptAt DEF LauncherBooked
      <3>2. state.attempts[a].process # n
        BY <2>2, <3>1 DEF AttemptGood
      <3> QED
        BY <3>1, <3>2 DEF AttemptSafe
    <2>4. LauncherOnce(state')
      BY <2>1 DEF LauncherBooked, LauncherOnce
    <2> QED
      BY <2>1, <2>3, <2>4 DEF LauncherBooked
  <1>2. CASE Launcher!GameQuits
    <2> DEFINE attempts == [a \in DOMAIN state.attempts |->
                              IF state.attempts[a].process = state.process THEN Launcher!Ended(state.attempts[a])
                              ELSE state.attempts[a]]
    <2>1. state.process # 0 /\ state' = [state EXCEPT !.process = 0, !.attempts = attempts]
      BY <1>2 DEF Launcher!GameQuits, Launcher!NoGame
    <2>2. /\ state'.process = 0 /\ state'.latest = state.latest /\ state'.attempts = attempts
          /\ state'.loading = state.loading /\ state'.state = state.state
      <3> HIDE DEF attempts
      <3> QED
        BY <1>0, <2>1 DEF LauncherFields
    <2>3. ASSUME NEW a \in DOMAIN state.attempts
          PROVE  /\ AttemptSafe(attempts[a], 0)
                 /\ attempts[a].run = state.attempts[a].run /\ attempts[a].stored = state.attempts[a].stored
                 /\ attempts[a].result = state.attempts[a].result
      <3> DEFINE at == state.attempts[a]
                 thread == IF at.thread \in Launcher!Busy THEN "lost" ELSE at.thread
                 t == [at EXCEPT !.blocks = {}, !.table = FALSE, !.thread = thread]
      <3>1. AttemptGood(at, state.process, state.games) /\ at \in Launcher!Attempts /\ AttemptSafe(at, state.process)
        BY AttemptAt DEF LauncherBooked, AttemptGood
      <3>2. state.process \in Nat
        BY DEF LauncherGood
      <3>3. attempts[a] = IF at.process = state.process THEN t ELSE at
        BY DEF Launcher!Ended
      <3>4. thread \notin Launcher!Busy
        BY DEF Launcher!Busy
      <3> HIDE DEF at, thread, attempts
      <3>5. CASE at.process = state.process
        <4>1. /\ t.thread = thread /\ t.process = at.process /\ t.run = at.run /\ t.stored = at.stored /\ t.result = at.result
          BY <3>1 DEF Launcher!Attempts
        <4> HIDE DEF t
        <4>2. AttemptSafe(t, 0)
          BY <2>1, <3>4, <3>5, <4>1 DEF AttemptSafe
        <4> QED
          BY <3>3, <3>5, <4>1, <4>2 DEF at
      <3>6. CASE at.process # state.process
        <4>1. at.started \/ at.table => at.process # 0
          <5>1. at.started \/ at.table => at.thread # "none"
            BY <3>1 DEF AttemptGood
          <5> QED
            BY <3>1, <5>1 DEF AttemptGood
        <4>2. AttemptSafe(at, 0)
          BY <3>1, <4>1 DEF AttemptSafe
        <4> QED
          BY <3>3, <3>6, <4>2 DEF at
      <3> QED
        BY <3>5, <3>6
    <2>4. DOMAIN attempts = DOMAIN state.attempts
      OBVIOUS
    <2> HIDE DEF attempts
    <2>5. state.state = "idle" /\ state.latest # 0 => state.latest \in DOMAIN state.attempts
      BY DEF LauncherGood, LauncherRuns
    <2>6. LauncherOnce(state')
      BY <2>2, <2>3, <2>4, <2>5 DEF LauncherBooked, LauncherOnce
    <2> QED
      BY <2>2, <2>3, <2>4, <2>6 DEF LauncherBooked
  <1>3. CASE Launcher!Run
    <2>1. /\ state'.process = state.process /\ state'.latest = 0 /\ state'.attempts = state.attempts /\ state'.state = "idle"
      BY <1>0, <1>3 DEF Launcher!Run, Launcher!NoAttempt, LauncherFields
    <2>2. LauncherOnce(state')
      BY <2>1 DEF LauncherBooked, LauncherOnce
    <2> QED
      BY <2>1, <2>2 DEF LauncherBooked
  <1>5. CASE Launcher!Opens \/ Launcher!MouseDown
    <2>1. \/ state' = [state EXCEPT !.window = "open"]
          \/ \E target : state' = [state EXCEPT !.pressed = target]
      BY <1>5 DEF Launcher!Opens, Launcher!MouseDown
    <2> QED
      BY <1>0, <2>1, LauncherAsBooked DEF LauncherFields
  <1>6. CASE Launcher!MouseUp
    <2> DEFINE c == [state EXCEPT !.pressed = "None"]
    <2>1. PICK released \in Launcher!Targets(state) \cup {"None"} :
            state' = Launcher!Acted(c, Launcher!Action(state.pressed, released))
      BY <1>6 DEF Launcher!MouseUp
    <2>2. Launcher!Action(state.pressed, released) = "Load" => ~state.loading
      BY DEF Launcher!Action, Launcher!Targets
    <2>3. LauncherGood(c)
      BY <1>0, LauncherSame DEF LauncherFields
    <2>4. LauncherBooked(c) /\ c.loading = state.loading
      BY <1>0, LauncherAsBooked DEF LauncherFields
    <2> HIDE DEF c
    <2> QED
      BY <2>1, <2>2, <2>3, <2>4, LauncherClicks
  <1>7. CASE Launcher!Enter
    BY <1>7, LauncherFollows DEF Launcher!Enter
  <1>8. CASE Launcher!Escape
    <2>1. state' \in {Launcher!Closed(state), [state EXCEPT !.page = "details"]}
      BY <1>8 DEF Launcher!Escape
    <2>2. LauncherBooked([state EXCEPT !.page = "details"])
      BY <1>0, LauncherAsBooked DEF LauncherFields
    <2>3. LauncherBooked(Launcher!Closed(state))
      BY LauncherClicks
    <2> QED
      BY <2>1, <2>2, <2>3
  <1>9. CASE Launcher!Close \/ Launcher!Tick
    <2>1. LauncherBooked(Launcher!Closed(state))
      BY LauncherClicks
    <2> QED
      BY <1>9, <2>1 DEF Launcher!Close, Launcher!Tick
  <1>10. CASE Launcher!Paint
    <2>1. PICK works : state' = Launcher!Painted(state, works)
      BY <1>10 DEF Launcher!Paint
    <2>2. \/ \E made, blind : state' = [state EXCEPT !.blind = blind, !.made = made]
          \/ \E made, spoilt : state' = [state EXCEPT !.made = made, !.spoilt = spoilt]
      BY <2>1 DEF Launcher!Painted
    <2> QED
      BY <1>0, <2>2, LauncherAsBooked DEF LauncherFields
  <1>11. ASSUME NEW a \in DOMAIN state.attempts, Launcher!Loader(a) PROVE LauncherBooked(state')
    <2> DEFINE at == state.attempts[a]
    <2>1. PICK works \in BOOLEAN : state' = [state EXCEPT !.attempts[a] = Launcher!Loaded(at, works)]
      BY <1>11 DEF Launcher!Loader, Launcher!With
    <2> DEFINE t == Launcher!Loaded(at, works)
    <2>2. AttemptGood(at, state.process, state.games) /\ at \in Launcher!Attempts /\ AttemptSafe(at, state.process)
      BY AttemptAt DEF LauncherBooked, AttemptGood
    <2>3. t \in Launcher!Attempts /\ t.run = at.run /\ t.stored = at.stored /\ t.result = at.result /\ AttemptSafe(t, state.process)
      BY <1>11, <2>2, AttemptsStaySafe DEF Launcher!Loader
    <2> HIDE DEF t
    <2>4. LauncherBooked([state EXCEPT !.attempts[a] = t])
      BY <2>3, LauncherGoesOn
    <2> QED
      BY <2>1, <2>4 DEF t
  <1>12. CASE UNCHANGED all
    BY <1>12 DEF all
  <1> QED
    BY <1>1, <1>2, <1>3, <1>5, <1>6, <1>7, <1>8, <1>9, <1>10, <1>11, <1>12, LauncherWorkBooks DEF Launcher!Next

\* What painting needs is made before it, all or nothing unless it fails.
LEMMA LauncherStepPaints ==
  ASSUME LauncherGood(state), LauncherPaints(state), [Launcher!Next]_all
  PROVE  LauncherPaints(state')
  <1>0. DOMAIN state = LauncherFields
    BY DEF LauncherGood
  <1>1. ASSUME NEW c, LauncherPaints(c), NEW d, d.made \in {c.made, {}}, d.blind = c.blind, d.spoilt = c.spoilt
        PROVE  LauncherPaints(d)
    BY <1>1 DEF LauncherPaints
  <1>2. ASSUME NEW c, DOMAIN c = LauncherFields, LauncherPaints(c), NEW action
        PROVE  /\ LauncherPaints(Launcher!Acted(c, action)) /\ LauncherPaints(Launcher!Closed(c))
               /\ LauncherPaints(Launcher!Loading(c))
    <2>1. LauncherPaints(Launcher!Closed(c))
      <3> DEFINE d == [c EXCEPT !.window = "closed", !.made = {}]
      <3>1. d.made = {} /\ d.blind = c.blind /\ d.spoilt = c.spoilt
        BY <1>2 DEF LauncherFields
      <3> HIDE DEF d
      <3>2. LauncherPaints(d)
        BY <1>1, <1>2, <3>1
      <3> QED
        BY <3>2 DEF Launcher!Closed, d
    <2>2. LauncherPaints(Launcher!Loading(c))
      <3>1. Launcher!Loading(c) = c \/ \E n, attempts :
              Launcher!Loading(c) = [c EXCEPT !.loading = TRUE, !.state = "running", !.latest = n, !.attempts = attempts]
        BY DEF Launcher!Loading
      <3>2. ASSUME NEW n, NEW attempts, NEW d, d = [c EXCEPT !.loading = TRUE, !.state = "running", !.latest = n, !.attempts = attempts]
            PROVE  LauncherPaints(d)
        <4>1. d.made = c.made /\ d.blind = c.blind /\ d.spoilt = c.spoilt
          BY <1>2, <3>2 DEF LauncherFields
        <4> QED
          BY <1>1, <1>2, <4>1
      <3> QED
        BY <1>2, <3>1, <3>2
    <2>3. \/ Launcher!Acted(c, action) \in {c, Launcher!Closed(c), Launcher!Loading(c)}
          \/ \E page : Launcher!Acted(c, action) = [c EXCEPT !.page = page]
          \/ Launcher!Acted(c, action) = [c EXCEPT !.loading = FALSE, !.state = "idle"]
      BY DEF Launcher!Acted
    <2>4. ASSUME NEW d, (\E page : d = [c EXCEPT !.page = page]) \/ d = [c EXCEPT !.loading = FALSE, !.state = "idle"]
          PROVE  LauncherPaints(d)
      <3>1. d.made = c.made /\ d.blind = c.blind /\ d.spoilt = c.spoilt
        BY <1>2, <2>4 DEF LauncherFields
      <3> QED
        BY <1>1, <1>2, <3>1
    <2> QED
      BY <1>2, <2>1, <2>2, <2>3, <2>4
  <1>3. ASSUME NEW games, NEW process, NEW attempts, NEW window, NEW target, NEW state1,
               \/ state' = [state EXCEPT !.process = process, !.games = games]
               \/ state' = [state EXCEPT !.process = process, !.attempts = attempts]
               \/ state' = [state EXCEPT !.window = window]
               \/ state' = [state EXCEPT !.page = window]
               \/ state' = [state EXCEPT !.pressed = target]
               \/ state' = [state EXCEPT !.attempts = attempts]
               \/ state' = [[state EXCEPT !.attempts = attempts] EXCEPT !.message = target]
               \/ state' = [[state EXCEPT !.attempts = attempts] EXCEPT !.state = state1]
        PROVE  LauncherPaints(state')
    <2>1. state'.made = state.made /\ state'.blind = state.blind /\ state'.spoilt = state.spoilt
      BY <1>0, <1>3 DEF LauncherFields
    <2> QED
      BY <1>1, <2>1
  <1>4. ASSUME NEW a, NEW t, Launcher!With(a, t) PROVE LauncherPaints(state')
    <2>1. \E attempts : state' = [state EXCEPT !.attempts = attempts]
      BY <1>4 DEF Launcher!With
    <2> QED
      BY <1>3, <2>1
  <1>5. CASE Launcher!GameStarts
    <2>1. \E process, games : state' = [state EXCEPT !.process = process, !.games = games]
      BY <1>0, <1>5 DEF Launcher!GameStarts, LauncherFields
    <2> QED
      BY <1>3, <2>1
  <1>6. CASE Launcher!GameQuits
    <2>1. \E process, attempts : state' = [state EXCEPT !.process = process, !.attempts = attempts]
      BY <1>6 DEF Launcher!GameQuits
    <2> QED
      BY <1>3, <2>1
  <1>7. CASE Launcher!Run
    <2>1. state'.made = {} /\ state'.blind = FALSE /\ state'.spoilt = FALSE
      BY <1>0, <1>7 DEF Launcher!Run, LauncherFields
    <2> QED
      BY <2>1 DEF LauncherPaints
  <1>8. CASE Launcher!Opens \/ Launcher!MouseDown
    BY <1>3, <1>8 DEF Launcher!Opens, Launcher!MouseDown
  <1>9. CASE Launcher!MouseUp
    <2> DEFINE c == [state EXCEPT !.pressed = "None"]
    <2>1. PICK action : state' = Launcher!Acted(c, action)
      BY <1>9 DEF Launcher!MouseUp
    <2>2. DOMAIN c = LauncherFields /\ LauncherPaints(c)
      BY SMTT(30), <1>0, <1>1 DEF LauncherFields
    <2> HIDE DEF c
    <2> QED
      BY <1>2, <2>1, <2>2
  <1>10. CASE Launcher!Enter \/ Launcher!Escape \/ Launcher!Close \/ Launcher!Tick
    <2>1. state' \in {Launcher!Closed(state), Launcher!Loading(state)} \/ state' = [state EXCEPT !.page = "details"]
      BY <1>10 DEF Launcher!Enter, Launcher!Escape, Launcher!Close, Launcher!Tick
    <2> QED
      BY <1>0, <1>2, <1>3, <2>1
  <1>11. CASE Launcher!Paint
    <2>1. PICK works : state' = Launcher!Painted(state, works)
      BY <1>11 DEF Launcher!Paint
    <2> DEFINE made == Launcher!Created(state.made, works)
    <2>2. CASE Launcher!Paints(state.made, works)
      <3>1. made = Launcher!Resources \/ ("target" \in state.made /\ made = state.made)
        BY <2>2 DEF Launcher!Paints, Launcher!Created, Launcher!Resources
      <3> DEFINE kept == IF works = "lost" THEN {} ELSE made
                 blind == state.blind \/ made # Launcher!Resources
      <3>2. state' = [state EXCEPT !.blind = blind, !.made = kept]
        BY <1>0, <2>1, <2>2 DEF Launcher!Painted, LauncherFields
      <3>3. kept \in {{}, made} /\ (blind => state.spoilt) /\ blind \in BOOLEAN
        BY <3>1 DEF LauncherPaints
      <3> HIDE DEF kept, made, blind
      <3>4. state'.made = kept /\ state'.blind = blind /\ state'.spoilt = state.spoilt
        BY <1>0, <3>2 DEF LauncherFields
      <3> QED
        BY <3>1, <3>3, <3>4 DEF LauncherPaints
    <2>3. CASE ~Launcher!Paints(state.made, works)
      <3> DEFINE spoilt == state.spoilt \/ "target" \in made
      <3>1. state' = [state EXCEPT !.made = made, !.spoilt = spoilt]
        BY <1>0, <2>1, <2>3 DEF Launcher!Painted, LauncherFields
      <3>2. spoilt \in BOOLEAN /\ ("target" \in made => spoilt) /\ (state.spoilt => spoilt)
        BY DEF LauncherPaints
      <3> HIDE DEF made, spoilt
      <3>3. state'.made = made /\ state'.blind = state.blind /\ state'.spoilt = spoilt
        BY <1>0, <3>1 DEF LauncherFields
      <3> QED
        BY <3>2, <3>3 DEF LauncherPaints
    <2> QED
      BY <2>2, <2>3
  <1>12. ASSUME NEW a, Launcher!Worker(a) PROVE LauncherPaints(state')
    <2>1. (\E t : Launcher!With(a, t)) \/ state' = Launcher!Stored(state, a)
      BY SMTT(30), <1>12 DEF Launcher!Worker
    <2>2. ASSUME state' = Launcher!Stored(state, a) PROVE LauncherPaints(state')
      <3>1. \E attempts, target, state1 :
              \/ state' = [state EXCEPT !.attempts = attempts]
              \/ state' = [[state EXCEPT !.attempts = attempts] EXCEPT !.message = target]
              \/ state' = [[state EXCEPT !.attempts = attempts] EXCEPT !.state = state1]
        BY <2>2 DEF Launcher!Stored
      <3> QED
        BY <1>3, <3>1
    <2> QED
      BY <1>4, <2>1, <2>2
  <1>13. ASSUME NEW a, Launcher!Loader(a) PROVE LauncherPaints(state')
    BY <1>4, <1>13 DEF Launcher!Loader
  <1>14. CASE UNCHANGED all
    BY <1>14 DEF all
  <1> QED
    BY <1>5, <1>6, <1>7, <1>8, <1>9, <1>10, <1>11, <1>12, <1>13, <1>14 DEF Launcher!Next

LEMMA LauncherBooksStep == LauncherInv /\ LauncherBooks /\ [Launcher!Next]_all => LauncherBooks'
  BY LauncherStepBooked, LauncherStepPaints DEF LauncherInv, LauncherBooks

LEMMA LauncherBooksKept ==
  LauncherInv /\ LauncherBooks => Launcher!NothingInUseIsFreed /\ Launcher!LoadedOnce /\ Launcher!PaintedWhole
  BY DEF LauncherBooks, LauncherBooked, LauncherOnce, LauncherPaints, AttemptSafe,
         Launcher!NothingInUseIsFreed, Launcher!LoadedOnce, Launcher!PaintedWhole
=============================================================================
