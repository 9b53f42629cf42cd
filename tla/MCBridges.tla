----------------------------- MODULE MCBridges ------------------------------
(***************************************************************************)
(* The bridges between the menu and the game, with the scripts' part of    *)
(* the menu, what aims in the game and paints over it, and the launcher.   *)
(* Each behaviour exercises one of them: they share nothing but the game   *)
(* session, so that nothing one does can disturb another.                  *)
(*                                                                         *)
(* First come the invariants from which it follows that a component that   *)
(* is off has left the game as it was, then those from which it follows    *)
(* that what a delivery reports has arrived.  They are laid out as in      *)
(* BridgeInvariants, and some rest on an invariant of the component there  *)
(* or in BridgeBooks.  The instances that neither has are made here, and   *)
(* the theorems about the sum put everything together.                     *)
(***************************************************************************)
EXTENDS BridgeInvariants, BridgeBooks

\* The most items that are asked for, that a carrier holds, and that a corpse has kinds of.
CONSTANTS MaxQuantity, MaxItems, MaxKinds

ASSUME DeliveryAssumption == {MaxQuantity, MaxItems, MaxKinds} \subseteq Nat

-----------------------------------------------------------------------------
(* PlayerHealth: a player whose flags are not his own is the one whose are remembered. *)

GuardGood(h) ==
  /\ DOMAIN h = HealthFields /\ DOMAIN h.guard = Players
  /\ h.owner \in IF h.applied THEN Players ELSE {NoPlayer}
  /\ \A p \in Players \ h.lost :
       IF h.owner = p THEN h.previous = h.own[p] ELSE h.guard[p] = h.own[p]

GuardInv == GuardGood(state) /\ met \subseteq Players /\ player \in met \cup {NoPlayer}

LEMMA GuardInit == Health!Init => GuardInv
  <1> SUFFICES ASSUME Health!Init PROVE GuardInv
    OBVIOUS
  <1>1. PICK own \in [Players -> BOOLEAN] :
       state = [wanted |-> FALSE, initialized |-> FALSE, available |-> FALSE,
                 applied |-> FALSE, owner |-> NoPlayer, previous |-> FALSE,
                 guard |-> own, own |-> own, lost |-> {},
                 infinite |-> FALSE, hurt |-> FALSE, hurtOnServer |-> FALSE,
                 recent |-> FALSE, swallowed |-> FALSE]
    BY DEF Health!Init
  <1>2. /\ DOMAIN state = HealthFields /\ state.guard = own /\ state.own = own
        /\ state.applied = FALSE /\ state.owner = NoPlayer
    BY <1>1 DEF HealthFields
  <1>3. met = {} /\ player = NoPlayer
    BY DEF Health!Init, Health!GameInit
  <1> QED
    BY <1>2, <1>3, PlayerAssumption DEF GuardInv, GuardGood

\* Fields that the property does not read.
GuardLike(t, h) ==
  /\ DOMAIN t = HealthFields
  /\ t.guard = h.guard /\ t.own = h.own /\ t.applied = h.applied /\ t.owner = h.owner
  /\ t.previous = h.previous /\ t.lost = h.lost

LEMMA GuardSame ==
  ASSUME NEW h, NEW t, GuardGood(h), GuardLike(t, h)
  PROVE  GuardGood(t)
  BY DEF GuardGood, GuardLike

\* What was remembered of a player is put back, or the player is lost.
LEMMA GuardRemoved ==
  ASSUME NEW h, GuardGood(h), NEW ok \in BOOLEAN
  PROVE  LET r == Health!Removed(h, ok) IN GuardGood(r) /\ r.applied = FALSE
  <1> DEFINE r == Health!Removed(h, ok)
  <1>1. CASE ~h.applied
    BY <1>1 DEF Health!Removed, GuardGood
  <1>2. CASE h.applied
    <2> DEFINE value == IF ok THEN h.previous ELSE h.guard[h.owner]
               guard == [h.guard EXCEPT ![h.owner] = value]
               lost == IF ok THEN h.lost ELSE h.lost \cup {h.owner}
    <2>1. r = [h EXCEPT !.applied = FALSE, !.owner = NoPlayer, !.guard = guard, !.lost = lost]
      <3> HIDE DEF lost
      <3> QED
        BY <1>2 DEF Health!Removed, GuardGood, HealthFields, lost
    <2>2. h.owner \in Players
      BY <1>2 DEF GuardGood
    <2>3. guard[h.owner] = value /\ DOMAIN guard = Players /\ \A p \in Players \ {h.owner} : guard[p] = h.guard[p]
      BY <2>2 DEF GuardGood
    <2>4. h.owner \notin lost => value = h.own[h.owner]
      BY <2>2 DEF GuardGood
    <2>5. \A p \in Players \ lost : p # h.owner => guard[p] = h.own[p]
      BY <2>3 DEF GuardGood
    <2> HIDE DEF guard, lost, value, r
    <2>6. /\ DOMAIN r = HealthFields /\ r.guard = guard /\ r.own = h.own /\ r.applied = FALSE
          /\ r.owner = NoPlayer /\ r.lost = lost
      BY <2>1 DEF GuardGood, HealthFields
    <2>7. GuardGood(r) /\ r.applied = FALSE
      BY <2>2, <2>3, <2>4, <2>5, <2>6, PlayerAssumption DEF GuardGood
    <2> QED
      BY <2>7 DEF r
  <1> QED
    BY <1>1, <1>2

LEMMA GuardTaken ==
  ASSUME NEW h, GuardGood(h)
  PROVE  LET t == Health!Taken(h) IN GuardGood(t) /\ (t.applied => t.owner = player)
  BY GuardRemoved DEF Health!Taken

\* A player is protected, or a call for it failed: what the player had is remembered.
LEMMA GuardProtected ==
  ASSUME NEW h, GuardGood(h), player \in Players
  PROVE  /\ GuardGood(Health!Protected(h))
         /\ GuardGood([Health!Protected(h) EXCEPT !.guard[player] = Health!Taken(h).guard[player]])
  <1> DEFINE t == Health!Taken(h)
             previous == IF t.applied THEN t.previous ELSE t.guard[player]
             p == Health!Protected(h)
             q == [p EXCEPT !.guard[player] = t.guard[player]]
  <1>1. GuardGood(t) /\ (t.applied => t.owner = player)
    BY GuardTaken
  <1> HIDE DEF t
  <1>2. p = [t EXCEPT !.previous = previous, !.applied = TRUE, !.owner = player, !.guard[player] = TRUE]
    BY DEF Health!Protected, t
  <1>3. player \notin t.lost => previous = t.own[player]
    BY <1>1, PlayerAssumption DEF GuardGood
  <1>4. \A x \in Players \ t.lost : x # player => t.guard[x] = t.own[x]
    BY <1>1, PlayerAssumption DEF GuardGood
  <1> HIDE DEF previous, p
  <1>5. /\ DOMAIN p = HealthFields /\ p.previous = previous /\ p.applied = TRUE /\ p.owner = player
        /\ p.own = t.own /\ p.lost = t.lost /\ p.guard = [t.guard EXCEPT ![player] = TRUE]
    BY <1>1, <1>2 DEF GuardGood, HealthFields
  <1>6. GuardGood(p)
    BY ZenonT(60), <1>1, <1>3, <1>4, <1>5 DEF GuardGood
  <1>7. /\ DOMAIN q = HealthFields /\ q.previous = previous /\ q.applied = TRUE /\ q.owner = player
        /\ q.own = t.own /\ q.lost = t.lost /\ q.guard = [p.guard EXCEPT ![player] = t.guard[player]]
    BY <1>5 DEF HealthFields
  <1> HIDE DEF q
  <1>8. GuardGood(q)
    BY <1>1, <1>3, <1>4, <1>5, <1>7 DEF GuardGood
  <1> QED
    BY <1>6, <1>8 DEF p, q, t

LEMMA GuardProtection ==
  ASSUME NEW h, GuardGood(h), player \in Players \cup {NoPlayer}, NEW fails \in BOOLEAN
  PROVE  \A t \in Health!Protection(h, fails) : GuardGood(t)
  <1>1. GuardGood(Health!Removed(h, TRUE)) /\ GuardGood(Health!Removed(h, FALSE)) /\ GuardGood(Health!Removed(h, ~fails))
    BY GuardRemoved
  <1>2. GuardGood(Health!Taken(h))
    BY GuardTaken
  <1>3. player # NoPlayer => /\ GuardGood(Health!Protected(h))
                             /\ GuardGood([Health!Protected(h) EXCEPT !.guard[player] = Health!Taken(h).guard[player]])
    BY GuardProtected
  <1> HIDE DEF GuardGood
  <1> QED
    BY <1>1, <1>2, <1>3 DEF Health!Protection

\* A healthy body changes no flags.
LEMMA GuardBody ==
  ASSUME NEW h, GuardGood(h), NEW fails
  PROVE  \A t \in Health!Body(h, fails) : GuardGood(t)
  <1>1. \A told : GuardLike(Health!Restored(h, told), h)
    BY DEF Health!Restored, GuardGood, GuardLike, HealthFields
  <1>2. GuardLike([Health!Restored(h, FALSE) EXCEPT !.swallowed = Health!Online], h)
    BY <1>1 DEF GuardLike, HealthFields
  <1> HIDE DEF GuardGood, GuardLike
  <1> QED
    BY <1>1, <1>2, GuardSame DEF Health!Body

LEMMA GuardStep == GuardInv /\ [Health!Next]_all => GuardInv'
  <1> SUFFICES ASSUME GuardInv, [Health!Next]_all PROVE GuardInv'
    OBVIOUS
  <1>0. /\ GuardGood(state) /\ DOMAIN state = HealthFields /\ GuardLike(state, state)
        /\ player \in Players \cup {NoPlayer}
    BY DEF GuardInv, GuardGood, GuardLike
  <1>1. CASE Health!Live
    <2>1. GuardLike(state', state)
      BY <1>0, <1>1 DEF Health!Live, GuardLike, HealthFields
    <2>2. met' \subseteq Players /\ player' \in met' \cup {NoPlayer}
      BY <1>1 DEF GuardInv, Health!Live, Health!Play, Health!LeaveWorld, Health!Respawn, Health!EnterWorld
    <2> QED
      BY <1>0, <2>1, <2>2, GuardSame DEF GuardInv
  <1>2. ASSUME Health!Damage \/ Health!Elapse
                \/ \E on \in BOOLEAN : Health!SetInfiniteHealthEnabled(on) \/ Health!SetInvincibilityEnabled(on)
        PROVE  GuardInv'
    <2>1. GuardLike(state', state)
      BY <1>0, <1>2 DEF Health!Damage, Health!Elapse, Health!SetInfiniteHealthEnabled, Health!SetInvincibilityEnabled, GuardLike, HealthFields
    <2>2. UNCHANGED <<player, met>>
      BY <1>2 DEF Health!Damage, Health!Elapse, Health!SetInfiniteHealthEnabled, Health!SetInvincibilityEnabled, Health!game
    <2> QED
      BY <1>0, <2>1, <2>2, GuardSame DEF GuardInv
  <1>3. ASSUME Health!Update PROVE GuardInv'
    <2>1. UNCHANGED <<player, met>>
      BY <1>3 DEF Health!Update, Health!game
    <2>2. CASE Health!UpdateUninitialized
      <3>1. GuardLike(state', state)
        BY <1>0, <2>2 DEF Health!UpdateUninitialized, GuardLike, HealthFields
      <3> QED
        BY <1>0, <2>1, <3>1, GuardSame DEF GuardInv
    <2>3. CASE Health!UpdateReady
      <3>1. PICK available \in BOOLEAN, failing \in {"nothing", "flags", "body"} :
              \E h \in Health!Protection(Health!Ready(available), failing = "flags") :
                state' \in Health!Body(h, failing = "body")
        BY <2>3 DEF Health!UpdateReady
      <3>2. GuardGood(Health!Ready(available))
        <4>1. GuardLike(Health!Ready(available), state)
          BY <1>0 DEF Health!Ready, GuardLike, HealthFields
        <4> QED
          BY <1>0, <4>1, GuardSame
      <3>3. \A h \in Health!Protection(Health!Ready(available), failing = "flags") : GuardGood(h)
        BY <1>0, <3>2, GuardProtection
      <3>4. GuardGood(state')
        BY <3>1, <3>3, GuardBody
      <3> QED
        BY <2>1, <3>4 DEF GuardInv
    <2> QED
      BY <1>3, <2>2, <2>3 DEF Health!Update
  <1>4. ASSUME UNCHANGED all PROVE GuardInv'
    BY <1>4 DEF all, game, GuardInv, GuardGood
  <1> QED
    BY <1>1, <1>2, <1>3, <1>4 DEF Health!Next

LEMMA GuardKept == GuardInv => Health!OnlyTheOwnerIsProtected
  BY PlayerAssumption DEF GuardInv, GuardGood, Health!OnlyTheOwnerIsProtected

-----------------------------------------------------------------------------
(* PlayerResource: a state that eases the endurance on the server is taken back: the bridge
   knows that it has to be, or a plain one is on its way. *)

\* undone: a state was lost, overtaken, or under way when the world was entered.
PlainGood(r, there, online) ==
  /\ DOMAIN r = ResourceFields
  /\ r.seen # "plain" => there /\ online
  /\ r.seen # "plain" => r.undone \/ r.was \/ r.restoring \/ (r.stage # "Idle" /\ r.pending = "plain")
  /\ there /\ online /\ r.stage # "Idle" /\ r.pending # "plain" => r.undone \/ r.was \/ r.restoring
  /\ r.stage = "SendingPacket" /\ r.call = "done" /\ r.pending = "plain" => r.undone \/ r.seen = "plain"

PlainInv == PlainGood(state, player # NoPlayer, session = "multiplayer")

LEMMA PlainInit == Resource!Init => PlainInv
  BY DEF Resource!Init, PlainInv, PlainGood, ResourceFields

\* What differs in neither the submissions nor what they are about.
PlainLike(s, r) ==
  /\ DOMAIN s = ResourceFields
  /\ s.seen = r.seen /\ s.was = r.was /\ s.restoring = r.restoring /\ s.stage = r.stage
  /\ s.pending = r.pending /\ s.call = r.call /\ s.undone = r.undone

LEMMA PlainSame ==
  ASSUME NEW r, NEW s, NEW there, NEW online, PlainGood(r, there, online), PlainLike(s, r)
  PROVE  PlainGood(s, there, online)
  BY DEF PlainGood, PlainLike

PlainFit(r) == PlainGood(r, player # NoPlayer, Resource!Online)

LEMMA PlainReset ==
  ASSUME NEW r, PlainFit(r), r.stage # "Idle"
  PROVE  LET s == Resource!Reset(r) IN
         PlainFit(s) /\ s.stage = "Idle" /\ s.was = r.was /\ s.restoring = r.restoring
  <1> DEFINE late == IF r.stage = "SendingPacket" /\ r.call \in {"queued", "overdue"}
                     THEN r.late \cup {r.pending} ELSE r.late
             undone == r.undone \/ (r.pending = "plain" /\ ~(r.stage = "SendingPacket" /\ r.call = "done"))
             s == Resource!Reset(r)
  <1>1. s = [r EXCEPT !.stage = "Idle", !.call = "none", !.late = late, !.undone = undone]
    BY DEF Resource!Reset
  <1>2. r.undone \/ (r.pending = "plain" /\ r.seen # "plain") => undone
    BY DEF PlainFit, PlainGood
  <1> HIDE DEF late, undone, s
  <1>3. /\ DOMAIN s = ResourceFields /\ s.stage = "Idle" /\ s.undone = undone /\ s.seen = r.seen
        /\ s.was = r.was /\ s.restoring = r.restoring
    BY <1>1 DEF PlainFit, PlainGood, ResourceFields
  <1>4. PlainFit(s)
    BY <1>2, <1>3 DEF PlainFit, PlainGood
  <1> QED
    BY <1>3, <1>4 DEF s

LEMMA PlainPolled ==
  ASSUME NEW r, PlainFit(r), NEW fails
  PROVE  PlainFit(Resource!Polled(r, fails))
  <1>1. CASE r.stage = "Idle"
    BY <1>1 DEF Resource!Polled
  <1>2. CASE r.stage # "Idle"
    <2> DEFINE s == [r EXCEPT !.stage = "SendingPacket", !.call = "queued"]
    <2>1. /\ DOMAIN s = ResourceFields /\ s.stage = "SendingPacket" /\ s.call = "queued"
          /\ s.seen = r.seen /\ s.was = r.was /\ s.restoring = r.restoring /\ s.pending = r.pending
          /\ s.undone = r.undone
      BY DEF PlainFit, PlainGood, ResourceFields
    <2> HIDE DEF s
    <2>2. PlainFit(s)
      BY <1>2, <2>1 DEF PlainFit, PlainGood
    <2>3. PlainFit(Resource!Reset(r))
      BY <1>2, PlainReset
    <2> HIDE DEF PlainFit
    <2> QED
      BY <2>2, <2>3 DEF Resource!Polled, s
  <1> QED
    BY <1>1, <1>2

\* A plain state may be submitted at any time, one that eases while the feature is on.
LEMMA PlainSubmitted ==
  ASSUME NEW r, PlainFit(r), r.stage = "Idle", NEW what, NEW fails,
         what = "plain" \/ r.was
  PROVE  PlainFit(Resource!Submitted(r, what, fails))
  <1> DEFINE s == [r EXCEPT !.stage = "SettingPacket", !.call = "queued", !.pending = what]
  <1>1. /\ DOMAIN s = ResourceFields /\ s.stage = "SettingPacket" /\ s.call = "queued"
        /\ s.seen = r.seen /\ s.was = r.was /\ s.restoring = r.restoring /\ s.pending = what
        /\ s.undone = r.undone
    BY DEF PlainFit, PlainGood, ResourceFields
  <1> HIDE DEF s
  <1>2. PlainFit(s)
    BY <1>1 DEF PlainFit, PlainGood
  <1> QED
    BY <1>2 DEF Resource!Submitted, s

LEMMA PlainTurnedOff ==
  ASSUME NEW r, PlainFit(r), NEW fails
  PROVE  PlainFit(Resource!TurnedOff(r, fails))
  <1> DEFINE restoring == r.restoring \/ r.was
             local == [r EXCEPT !.was = FALSE, !.due = TRUE, !.restoring = FALSE]
             off == [r EXCEPT !.was = FALSE, !.due = TRUE, !.restoring = restoring]
             asked == [off EXCEPT !.restoring = fails]
  <1>1. /\ ~Resource!Online => Resource!TurnedOff(r, fails) = local
        /\ Resource!Online =>
             \/ Resource!TurnedOff(r, fails) = off
             \/ r.stage = "Idle" /\ Resource!TurnedOff(r, fails) = Resource!Submitted(asked, "plain", fails)
    BY DEF Resource!TurnedOff, PlainFit, PlainGood, ResourceFields
  <1>2. CASE ~Resource!Online
    <2>1. /\ DOMAIN local = ResourceFields /\ local.was = FALSE /\ local.restoring = FALSE
          /\ local.seen = r.seen /\ local.stage = r.stage /\ local.pending = r.pending
          /\ local.call = r.call /\ local.undone = r.undone
      BY DEF PlainFit, PlainGood, ResourceFields
    <2> HIDE DEF local
    <2> QED
      BY <1>1, <1>2, <2>1 DEF PlainFit, PlainGood
  <1>3. CASE Resource!Online
    <2>1. restoring <=> r.restoring \/ r.was
      OBVIOUS
    <2> HIDE DEF restoring
    <2>2. /\ DOMAIN off = ResourceFields /\ off.was = FALSE /\ off.restoring = restoring
          /\ off.seen = r.seen /\ off.stage = r.stage /\ off.pending = r.pending
          /\ off.call = r.call /\ off.undone = r.undone
      BY DEF PlainFit, PlainGood, ResourceFields
    <2> HIDE DEF off
    <2>3. PlainFit(off)
      BY <2>1, <2>2 DEF PlainFit, PlainGood
    <2>4. ASSUME r.stage = "Idle" PROVE PlainFit(Resource!Submitted(asked, "plain", fails))
      <3>1. CASE fails
        <4>1. /\ DOMAIN asked = ResourceFields /\ asked.was = FALSE /\ asked.restoring = fails
              /\ asked.seen = r.seen /\ asked.stage = r.stage /\ asked.undone = r.undone
              /\ asked.pending = r.pending
          BY <2>2 DEF ResourceFields
        <4> HIDE DEF asked
        <4> QED
          BY <2>3, <2>4, <3>1, <4>1 DEF PlainFit, PlainGood, Resource!Submitted
      <3>2. CASE ~fails
        <4> DEFINE s == [asked EXCEPT !.stage = "SettingPacket", !.call = "queued", !.pending = "plain"]
        <4>1. /\ DOMAIN s = ResourceFields /\ s.stage = "SettingPacket" /\ s.call = "queued"
              /\ s.seen = r.seen /\ s.pending = "plain"
          BY <2>2 DEF ResourceFields
        <4>2. s = Resource!Submitted(asked, "plain", fails)
          BY <3>2 DEF Resource!Submitted
        <4> HIDE DEF s
        <4> QED
          BY <4>1, <4>2 DEF PlainFit, PlainGood
      <3> QED
        BY <3>1, <3>2
    <2> HIDE DEF asked
    <2> QED
      BY <1>1, <1>3, <2>3, <2>4
  <1> QED
    BY <1>2, <1>3

LEMMA PlainTurnedOn ==
  ASSUME NEW r, PlainFit(r), NEW fails
  PROVE  PlainFit(Resource!TurnedOn(r, fails))
  <1> DEFINE on == [r EXCEPT !.was = TRUE, !.restoring = FALSE]
             due == [on EXCEPT !.due = FALSE]
  <1>1. /\ DOMAIN on = ResourceFields /\ on.was = TRUE /\ on.restoring = FALSE
        /\ on.seen = r.seen /\ on.stage = r.stage /\ on.pending = r.pending
        /\ on.call = r.call /\ on.undone = r.undone
    BY DEF PlainFit, PlainGood, ResourceFields
  <1>2. Resource!TurnedOn(r, fails) = on \/ (r.stage = "Idle" /\ Resource!TurnedOn(r, fails) = Resource!Submitted(due, "eased", fails))
    BY DEF Resource!TurnedOn
  <1> HIDE DEF on
  <1>3. PlainFit(on)
    BY <1>1 DEF PlainFit, PlainGood
  <1>4. PlainLike(due, on)
    BY <1>1 DEF PlainLike, ResourceFields
  <1>5. PlainFit(due) /\ due.was = TRUE /\ due.stage = r.stage
    BY <1>1, <1>3, <1>4, PlainSame DEF PlainFit, PlainLike
  <1> HIDE DEF due
  <1> QED
    BY <1>2, <1>3, <1>5, PlainSubmitted

LEMMA PlainItems ==
  ASSUME NEW r, DOMAIN r = ResourceFields, NEW fails
  PROVE  \A t \in Resource!Items(r, fails) : PlainLike(t, r)
  <1>1. ASSUME NEW s, PlainLike(s, r), NEW hands, NEW sent
        PROVE  PlainLike(Resource!Repaired(s, hands, sent), r)
    <2> DEFINE there == IF sent THEN s.wornOnServer \ hands ELSE s.wornOnServer
               unsent == IF sent THEN s.unsent \ hands ELSE IF Resource!Online THEN s.unsent \cup hands ELSE s.unsent
    <2>1. Resource!Repaired(s, hands, sent) = [s EXCEPT !.worn = s.worn \ hands, !.wornOnServer = there, !.unsent = unsent]
      BY DEF Resource!Repaired
    <2> HIDE DEF there, unsent
    <2> QED
      BY <1>1, <2>1 DEF PlainLike, ResourceFields
  <1>2. PlainLike(r, r)
    BY DEF PlainLike
  <1> HIDE DEF PlainLike
  <1>3. ASSUME NEW sent, NEW kept PROVE PlainLike(Resource!PartlyRepaired(r, sent, kept), r)
    <2>1. PlainLike(Resource!Repaired(r, sent, Resource!Online), r)
      BY <1>1, <1>2
    <2> QED
      BY <1>1, <2>1 DEF Resource!PartlyRepaired
  <1>4. PlainLike(Resource!Repaired(r, r.worn, Resource!Online), r)
    BY <1>1, <1>2
  <1> QED
    BY <1>2, <1>3, <1>4 DEF Resource!Items

\* The game's thread runs a call that sends a state.
LEMMA PlainReceived ==
  ASSUME NEW r, PlainFit(r), NEW what
  PROVE  LET s == Resource!Received(r, what) IN
         /\ DOMAIN s = ResourceFields /\ s.was = r.was /\ s.restoring = r.restoring /\ s.stage = r.stage
         /\ s.pending = r.pending /\ s.call = r.call /\ s.undone = r.undone
         /\ s.seen # "plain" => player # NoPlayer /\ Resource!Online /\ s.seen = what
         /\ s.seen = r.seen \/ s.seen = what
  BY DEF Resource!Received, PlainFit, PlainGood, ResourceFields

LEMMA PlainStep == PlainInv /\ [Resource!Next]_all => PlainInv'
  <1> SUFFICES ASSUME PlainFit(state), [Resource!Next]_all PROVE PlainInv'
    BY DEF PlainInv, PlainFit, Resource!Online
  <1> DEFINE Stays == PlainFit(state') /\ UNCHANGED game
  <1>0. DOMAIN state = ResourceFields /\ PlainLike(state, state)
    BY DEF PlainFit, PlainGood, PlainLike
  <1>1. CASE Resource!Live
    <2> DEFINE seen == IF player' = NoPlayer THEN "plain" ELSE state.seen
               undone == player' # NoPlayer /\ (state.undone \/ (player = NoPlayer /\ state.stage # "Idle"))
    <2>1. state' = [state EXCEPT !.worn = {}, !.wornOnServer = {}, !.unsent = {}, !.fast = FALSE,
                      !.seen = seen, !.undone = undone]
      BY <1>1 DEF Resource!Live
    <2>2. \/ player # NoPlayer /\ player' = NoPlayer
          \/ player # NoPlayer /\ session' = session
          \/ player = NoPlayer
      BY <1>1 DEF Resource!Live, Resource!Play, Resource!LeaveWorld, Resource!Respawn, Resource!EnterWorld
    <2>3. /\ player' = NoPlayer => seen = "plain"
          /\ player = NoPlayer => seen = "plain"
          /\ player' # NoPlayer => seen = state.seen /\ (state.undone \/ (player = NoPlayer /\ state.stage # "Idle") => undone)
      BY DEF PlainFit, PlainGood
    <2> HIDE DEF seen, undone
    <2>4. /\ DOMAIN state' = ResourceFields /\ state'.seen = seen /\ state'.undone = undone
          /\ state'.was = state.was /\ state'.restoring = state.restoring /\ state'.stage = state.stage
          /\ state'.pending = state.pending /\ state'.call = state.call
      BY <1>0, <2>1 DEF ResourceFields
    <2> QED
      BY <2>2, <2>3, <2>4 DEF PlainInv, PlainFit, PlainGood, Resource!Online
  <1>2. CASE Resource!Run
    <2>1. \E t : state' = [state EXCEPT !.fast = t]
      BY <1>2 DEF Resource!Run
    <2>2. PlainLike(state', state)
      BY <1>0, <2>1 DEF PlainLike, ResourceFields
    <2> QED
      BY <1>2, <2>2, PlainSame DEF PlainInv, PlainFit, Resource!Run, Resource!game, Resource!Online
  <1>3. CASE \E hand \in Hands : Resource!Wear(hand)
    <2>1. UNCHANGED game /\ \E a, b : state' = [state EXCEPT !.worn = a, !.wornOnServer = b]
      BY <1>3 DEF Resource!Wear, Resource!game, game
    <2>2. PlainLike(state', state)
      BY <1>0, <2>1 DEF PlainLike, ResourceFields
    <2> QED
      BY <2>1, <2>2, PlainSame DEF PlainInv, PlainFit, game, Resource!Online
  <1>4. ASSUME Resource!Serve PROVE Stays
    <2> DEFINE r == IF state.stage = "SendingPacket" THEN Resource!Received(state, state.pending) ELSE state
    <2>1. state' = [r EXCEPT !.call = "done"] /\ UNCHANGED game /\ state.call # "done"
      BY <1>4 DEF Resource!Serve, Resource!game, game
    <2>2. /\ DOMAIN r = ResourceFields /\ r.was = state.was /\ r.restoring = state.restoring
          /\ r.stage = state.stage /\ r.pending = state.pending /\ r.undone = state.undone
      BY <1>0, PlainReceived
    <2>3. /\ state.stage # "SendingPacket" => r.seen = state.seen
          /\ state.stage = "SendingPacket" /\ r.seen # "plain" => player # NoPlayer /\ Resource!Online /\ r.seen = state.pending
      BY PlainReceived
    <2> HIDE DEF r
    <2>4. /\ DOMAIN state' = ResourceFields /\ state'.was = state.was /\ state'.restoring = state.restoring
          /\ state'.stage = state.stage /\ state'.pending = state.pending /\ state'.undone = state.undone
          /\ state'.seen = r.seen
      BY <2>1, <2>2 DEF ResourceFields
    <2>5. PlainFit(state')
      BY <2>3, <2>4 DEF PlainFit, PlainGood
    <2> QED
      BY <2>1, <2>5
  <1>5. ASSUME NEW what \in state.late, Resource!ServeLate(what) PROVE Stays
    <2> DEFINE r == Resource!Received(state, what)
               late == r.late \ {what}
               undone == r.undone \/ what # "plain"
    <2>1. state' = [r EXCEPT !.late = late, !.undone = undone] /\ UNCHANGED game
      BY <1>5 DEF Resource!ServeLate, Resource!game, game
    <2>2. /\ DOMAIN r = ResourceFields /\ r.was = state.was /\ r.restoring = state.restoring
          /\ r.stage = state.stage /\ r.pending = state.pending /\ r.undone = state.undone /\ r.call = state.call
          /\ r.seen # "plain" => player # NoPlayer /\ Resource!Online /\ r.seen = what
          /\ r.seen = state.seen \/ r.seen = what
      BY PlainReceived
    <2>3. /\ state.undone => undone
          /\ what # "plain" => undone
      BY <2>2
    <2> HIDE DEF r, late, undone
    <2>4. /\ DOMAIN state' = ResourceFields /\ state'.was = state.was /\ state'.restoring = state.restoring
          /\ state'.stage = state.stage /\ state'.pending = state.pending /\ state'.undone = undone
          /\ state'.seen = r.seen /\ state'.call = state.call
      BY <2>1, <2>2 DEF ResourceFields
    <2>5. PlainFit(state')
      BY <2>2, <2>3, <2>4 DEF PlainFit, PlainGood
    <2> QED
      BY <2>1, <2>5
  <1>6. ASSUME Resource!Elapse PROVE Stays
    <2>1. UNCHANGED game
      BY <1>6 DEF Resource!Elapse, Resource!game, game
    <2>2. CASE state' = [state EXCEPT !.call = "overdue"]
      <3>1. /\ DOMAIN state' = ResourceFields /\ state'.was = state.was /\ state'.restoring = state.restoring
            /\ state'.stage = state.stage /\ state'.pending = state.pending /\ state'.undone = state.undone
            /\ state'.seen = state.seen /\ state'.call = "overdue"
        BY <1>0, <2>2 DEF ResourceFields
      <3> QED
        BY <2>1, <3>1 DEF PlainFit, PlainGood
    <2>3. CASE state' = [state EXCEPT !.due = TRUE]
      <3>1. PlainLike(state', state)
        BY <1>0, <2>3 DEF PlainLike, ResourceFields
      <3> QED
        BY <2>1, <3>1, PlainSame DEF PlainFit
    <2> QED
      BY <1>6, <2>2, <2>3 DEF Resource!Elapse
  <1>7. ASSUME NEW on \in BOOLEAN, Resource!SetEnduranceRecoveryEnabled(on) \/ Resource!SetDurabilityProtectionEnabled(on)
        PROVE  Stays
    <2>1. UNCHANGED game
      BY <1>7 DEF Resource!SetEnduranceRecoveryEnabled, Resource!SetDurabilityProtectionEnabled, Resource!game, game
    <2>2. PlainLike(state', state)
      BY <1>0, <1>7 DEF Resource!SetEnduranceRecoveryEnabled, Resource!SetDurabilityProtectionEnabled, PlainLike, ResourceFields
    <2> QED
      BY <2>1, <2>2, PlainSame DEF PlainFit
  <1>8. ASSUME Resource!Update PROVE Stays
    <2>1. UNCHANGED game
      BY <1>8 DEF Resource!Update, Resource!game, game
    <2>2. PICK failing \in {"nothing", "submission", "items"} :
            state' \in Resource!Items(Resource!Compensated(failing = "submission"), failing = "items")
      BY <1>8 DEF Resource!Update
    <2>3. PlainFit(Resource!Compensated(failing = "submission"))
      BY PlainPolled, PlainTurnedOn, PlainTurnedOff DEF Resource!Compensated
    <2> DEFINE r == Resource!Compensated(failing = "submission")
    <2>4. DOMAIN r = ResourceFields
      BY <2>3 DEF PlainFit, PlainGood
    <2> HIDE DEF r
    <2>5. PlainLike(state', r)
      BY <2>2, <2>4, PlainItems DEF r
    <2> QED
      BY <2>1, <2>3, <2>5, PlainSame DEF PlainFit, r
  <1>9. ASSUME UNCHANGED all PROVE Stays
    BY <1>9 DEF all
  <1>10. Stays => PlainInv'
    BY DEF PlainInv, PlainFit, Resource!Online, game
  <1> HIDE DEF Stays
  <1> QED
    BY <1>1, <1>2, <1>3, <1>4, <1>5, <1>6, <1>7, <1>8, <1>9, <1>10 DEF Resource!Next

LEMMA PlainKept == PlainInv => Resource!OffEndsPlain
  BY DEF PlainInv, PlainGood, Resource!OffEndsPlain

-----------------------------------------------------------------------------
(* WorldVisuals: after a frame that went well, what is overridden is what is turned on. *)

ObeyedInv ==
  state.obeyed =>
    \A c \in Visuals!Climate \ state.broken : c \in state.forced <=> Visuals!Wanted(state, c)

ObeyedRight(v, c) == c \in v.broken \/ (c \in v.forced <=> Visuals!Wanted(v, c))

\* What is turned on, and what has failed, is the same.
ObeyedLike(t, v) ==
  /\ VisualsGood(t) /\ t.broken = v.broken
  /\ t.daylight = v.daylight /\ t.vision = v.vision /\ t.fog = v.fog /\ t.rain = v.rain

LEMMA ObeyedInit == Visuals!Init => ObeyedInv
  BY DEF Visuals!Init, ObeyedInv

LEMMA ObeyedWanted ==
  ASSUME NEW v, NEW t, ObeyedLike(t, v), NEW c
  PROVE  Visuals!Wanted(t, c) = Visuals!Wanted(v, c)
  BY DEF ObeyedLike, Visuals!Wanted

LEMMA ObeyedOnward ==
  ASSUME NEW v, NEW t, NEW c, ObeyedLike(t, v), c \in t.forced <=> c \in v.forced, ObeyedRight(v, c)
  PROVE  ObeyedRight(t, c)
  <1>1. Visuals!Wanted(t, c) = Visuals!Wanted(v, c)
    BY ObeyedWanted
  <1> QED
    BY <1>1 DEF ObeyedRight, ObeyedLike

LEMMA ObeyedSteered ==
  ASSUME NEW v, VisualsGood(v), NEW c \in Visuals!Climate
  PROVE  LET t == Visuals!Steered(v, c, Visuals!Wanted(v, c)) IN
         /\ ObeyedLike(t, v) /\ ObeyedRight(t, c)
         /\ \A x : x # c => (x \in t.forced <=> x \in v.forced)
  <1> DEFINE wanted == Visuals!Wanted(v, c)
             t == Visuals!Steered(v, c, wanted)
             Like == /\ t.broken = v.broken /\ t.daylight = v.daylight /\ t.vision = v.vision
                     /\ t.fog = v.fog /\ t.rain = v.rain
  <1>0. wanted \in BOOLEAN /\ v \in VisualsStates
    BY VisualsWanted DEF VisualsGood
  <1>1. VisualsGood(t)
    BY <1>0, VisualsSteered
  <1>2. CASE wanted
    <2> DEFINE k == Visuals!Taken(v, c)
    <2>1. k \in VisualsStates /\ k.forced = v.forced /\ k.broken = v.broken /\ k.daylight = v.daylight
          /\ k.vision = v.vision /\ k.fog = v.fog /\ k.rain = v.rain
      <3>1. k \in VisualsStates
        BY VisualsTaken DEF VisualsGood
      <3>2. \E right : k \in {v, [v EXCEPT !.taken = @ \cup {c}, !.right = right]}
        BY DEF Visuals!Taken
      <3> HIDE DEF k
      <3> QED
        BY <1>0, <3>1, <3>2 DEF VisualsStates
    <2>2. t = [k EXCEPT !.forced = @ \cup {c}]
      BY <1>2 DEF Visuals!Steered, Visuals!Forced
    <2> HIDE DEF k, t
    <2>3. Like /\ t.forced = v.forced \cup {c}
      BY <2>1, <2>2 DEF VisualsStates
    <2>4. ObeyedLike(t, v)
      BY <1>1, <2>3 DEF ObeyedLike
    <2>5. Visuals!Wanted(t, c) = wanted
      BY <2>4, ObeyedWanted
    <2> HIDE DEF wanted
    <2>6. ObeyedRight(t, c)
      BY <1>2, <2>3, <2>5 DEF ObeyedRight
    <2> QED
      BY <2>3, <2>4, <2>6 DEF t, wanted
  <1>3. CASE ~wanted
    <2>0. t = Visuals!Restored(v, c)
      BY <1>3 DEF Visuals!Steered
    <2>1. Like /\ (c \in t.forced => c \in v.broken) /\ (\A x : x # c => (x \in t.forced <=> x \in v.forced))
      <3>1. CASE c \notin v.taken
        BY <2>0, <3>1 DEF Visuals!Restored, VisualsGood
      <3>2. CASE c \in v.taken
        <4> DEFINE forced == IF c \in v.right THEN v.forced \ {c} ELSE v.forced \cup {c}
        <4>1. t = [v EXCEPT !.taken = @ \ {c}, !.forced = forced]
          BY <2>0, <3>2 DEF Visuals!Restored
        <4>2. /\ c \in forced => c \in v.taken \ v.right
              /\ \A x : x # c => (x \in forced <=> x \in v.forced)
          BY <3>2
        <4> HIDE DEF forced, t
        <4>3. Like /\ t.forced = forced
          BY <1>0, <4>1 DEF VisualsStates
        <4> QED
          BY <4>2, <4>3 DEF VisualsGood
      <3> QED
        BY <3>1, <3>2
    <2> HIDE DEF t
    <2>2. ObeyedLike(t, v)
      BY <1>1, <2>1 DEF ObeyedLike
    <2>3. Visuals!Wanted(t, c) = wanted
      BY <2>2, ObeyedWanted
    <2> HIDE DEF wanted
    <2>4. ObeyedRight(t, c)
      BY <1>3, <2>1, <2>3 DEF ObeyedRight
    <2> QED
      BY <2>1, <2>2, <2>4 DEF t, wanted
  <1> QED
    BY <1>0, <1>2, <1>3

LEMMA ObeyedLight ==
  ASSUME NEW v, VisualsGood(v)
  PROVE  ObeyedLike(Visuals!UpdateLocalLight(v), v) /\ Visuals!UpdateLocalLight(v).forced = v.forced
  <1> DEFINE t == Visuals!UpdateLocalLight(v)
             off == Visuals!RemoveLocalLight(v)
             lit == [off EXCEPT !.lamp = v.square, !.lamps = @ \cup {v.square}]
             Like(x) == /\ x.broken = v.broken /\ x.daylight = v.daylight /\ x.vision = v.vision
                        /\ x.fog = v.fog /\ x.rain = v.rain /\ x.forced = v.forced
  <1>1. VisualsGood(t)
    BY VisualsLight DEF Visuals!Lit
  <1>2. t \in {off, v, lit}
    BY DEF Visuals!UpdateLocalLight
  <1>3. off \in VisualsStates /\ Like(off)
    BY DEF VisualsGood, VisualsStates, Visuals!RemoveLocalLight
  <1> HIDE DEF off, t
  <1>4. Like(lit)
    BY <1>3 DEF VisualsStates
  <1> QED
    BY <1>1, <1>2, <1>3, <1>4 DEF ObeyedLike, t

\* A frame in which nothing fails goes through the variables one after the other.
LEMMA ObeyedFrame ==
  ASSUME NEW v, VisualsGood(v), NEW d, NEW s, NEW f,
         d = Visuals!Steered(v, "daylight", Visuals!Wanted(v, "daylight")),
         NEW l, l = Visuals!UpdateLocalLight(d),
         s = Visuals!Steered(l, "vision", Visuals!Wanted(l, "vision")),
         f = Visuals!Steered(s, "fog", Visuals!Wanted(s, "fog"))
  PROVE  VisualsGood(Visuals!Precipitation(f)) /\ \A c \in Visuals!Climate : ObeyedRight(Visuals!Precipitation(f), c)
  <1> DEFINE p == Visuals!Steered(f, "precipitation", Visuals!Wanted(f, "precipitation"))
             r == Visuals!Precipitation(f)
  <1>0. /\ "daylight" \in Visuals!Climate /\ "vision" \in Visuals!Climate /\ "fog" \in Visuals!Climate
        /\ "precipitation" \in Visuals!Climate /\ "snow" \in Visuals!Climate
        /\ \A c \in Visuals!Climate : c \in {"daylight", "vision", "fog", "precipitation", "snow"}
    BY DEF Visuals!Climate
  <1>1. /\ ObeyedLike(d, v) /\ ObeyedRight(d, "daylight")
    BY <1>0, ObeyedSteered
  <1>2. ObeyedLike(l, d) /\ l.forced = d.forced
    BY <1>1, ObeyedLight DEF ObeyedLike
  <1>3. ObeyedRight(l, "daylight")
    BY <1>1, <1>2, ObeyedOnward
  <1>4. /\ ObeyedLike(s, l) /\ ObeyedRight(s, "vision")
        /\ \A x : x # "vision" => (x \in s.forced <=> x \in l.forced)
    <2>1. VisualsGood(l)
      BY <1>2 DEF ObeyedLike
    <2> QED
      BY <1>0, <2>1, ObeyedSteered
  <1>5. ObeyedRight(s, "daylight")
    BY <1>3, <1>4, ObeyedOnward
  <1>6. /\ ObeyedLike(f, s) /\ ObeyedRight(f, "fog")
        /\ \A x : x # "fog" => (x \in f.forced <=> x \in s.forced)
    <2>1. VisualsGood(s)
      BY <1>4 DEF ObeyedLike
    <2> QED
      BY <1>0, <2>1, ObeyedSteered
  <1>7. ObeyedRight(f, "daylight") /\ ObeyedRight(f, "vision")
    BY <1>4, <1>5, <1>6, ObeyedOnward
  <1>8. /\ ObeyedLike(p, f) /\ ObeyedRight(p, "precipitation")
        /\ \A x : x # "precipitation" => (x \in p.forced <=> x \in f.forced)
    <2>1. VisualsGood(f)
      BY <1>6 DEF ObeyedLike
    <2> QED
      BY <1>0, <2>1, ObeyedSteered
  <1>9. r = Visuals!Steered(p, "snow", Visuals!Wanted(p, "snow"))
    <2>1. Visuals!Wanted(p, "snow") = Visuals!Wanted(f, "snow")
      BY <1>8, ObeyedWanted
    <2> QED
      BY <2>1 DEF Visuals!Precipitation
  <1> HIDE DEF p, r
  <1>10. ObeyedRight(p, "daylight") /\ ObeyedRight(p, "vision") /\ ObeyedRight(p, "fog")
    BY <1>6, <1>7, <1>8, ObeyedOnward
  <1>11. /\ ObeyedLike(r, p) /\ ObeyedRight(r, "snow")
         /\ \A x : x # "snow" => (x \in r.forced <=> x \in p.forced)
    <2>1. VisualsGood(p)
      BY <1>8 DEF ObeyedLike
    <2> QED
      BY <1>0, <1>9, <2>1, ObeyedSteered
  <1>12. ObeyedRight(r, "daylight") /\ ObeyedRight(r, "vision") /\ ObeyedRight(r, "fog")
         /\ ObeyedRight(r, "precipitation")
    BY <1>8, <1>10, <1>11, ObeyedOnward
  <1> QED
    BY <1>0, <1>11, <1>12 DEF ObeyedLike, r

LEMMA ObeyedStep == VisualsInv /\ ObeyedInv /\ [Visuals!Next]_all => ObeyedInv'
  <1> SUFFICES ASSUME VisualsInv, ObeyedInv, [Visuals!Next]_all, state'.obeyed
               PROVE  \A c \in Visuals!Climate : ObeyedRight(state', c)
    BY DEF ObeyedInv, ObeyedRight, Visuals!Climate, Visuals!Wanted
  <1>0. VisualsGood(state) /\ state \in VisualsStates
    BY DEF VisualsInv, VisualsGood
  <1>1. ASSUME UNCHANGED state PROVE \A c \in Visuals!Climate : ObeyedRight(state', c)
    BY SMTT(30), <1>1 DEF ObeyedInv, ObeyedRight
  <1>2. ~Visuals!Leave /\ ~Visuals!Enter /\ ~Visuals!Set /\ \A s : ~Visuals!Walk(s)
    BY <1>0 DEF Visuals!Leave, Visuals!Enter, Visuals!Set, Visuals!Walk,
       Visuals!SetRevealUnexploredEnabled, VisualsStates
  <1>3. ~Visuals!UpdateWithoutWorld
    <2> SUFFICES ASSUME Visuals!UpdateWithoutWorld PROVE FALSE
      OBVIOUS
    <2> DEFINE forced == (state.forced \ state.taken) \cup (state.taken \ state.right)
               clean == [state EXCEPT !.taken = {}, !.forced = forced, !.masked = FALSE, !.ended = FALSE, !.obeyed = FALSE]
               left == clean.lamps \ {clean.lamp}
    <2>1. state' = [clean EXCEPT !.lamp = NoWeapon, !.lamps = left]
      BY DEF Visuals!UpdateWithoutWorld, Visuals!Ended, Visuals!RemoveLocalLight
    <2> HIDE DEF forced, left
    <2> QED
      BY <1>0, <2>1 DEF VisualsStates
  <1>4. ASSUME Visuals!UpdateInWorld PROVE \A c \in Visuals!Climate : ObeyedRight(state', c)
    <2> DEFINE begun == [state EXCEPT !.masked = state.reveal]
    <2>1. begun \in VisualsStates /\ VisualsGood(begun)
      <3>1. begun \in VisualsStates
        BY <1>0 DEF VisualsStates
      <3>2. begun.forced = state.forced /\ begun.taken = state.taken /\ begun.right = state.right
            /\ begun.broken = state.broken
        BY <1>0 DEF VisualsStates
      <3> QED
        BY <1>0, <3>1, <3>2, VisualsSame
    <2>2. state' # [begun EXCEPT !.obeyed = FALSE]
      BY <1>0 DEF VisualsStates
    <2> DEFINE Ends(v, failing) == state' = [v EXCEPT !.obeyed = failing = "nothing"]
               Rest(l, failing) == \E s \in Visuals!After(l, "vision", failing) : \E f \in Visuals!After(s, "fog", failing) :
                                     \E r \in Visuals!Rained(f, failing) : Ends(r, failing)
    <2>3. \E failing \in {"nothing", "light"} \cup Visuals!Climate :
            \E d \in Visuals!After(begun, "daylight", failing) : \E l \in Visuals!Lit(d, failing) : Rest(l, failing)
      BY <1>4, <2>2 DEF Visuals!UpdateInWorld
    <2> HIDE DEF begun
    <2>4. PICK failing \in {"nothing", "light"} \cup Visuals!Climate :
            \E d \in Visuals!After(begun, "daylight", failing) : \E l \in Visuals!Lit(d, failing) : Rest(l, failing)
      BY <2>3
    <2>5. PICK d \in Visuals!After(begun, "daylight", failing) : \E l \in Visuals!Lit(d, failing) : Rest(l, failing)
      BY <2>4
    <2>6. PICK l \in Visuals!Lit(d, failing) : Rest(l, failing)
      BY <2>5
    <2>7. PICK s \in Visuals!After(l, "vision", failing) : \E f \in Visuals!After(s, "fog", failing) :
            \E r \in Visuals!Rained(f, failing) : Ends(r, failing)
      BY <2>6
    <2>8. PICK f \in Visuals!After(s, "fog", failing) : \E r \in Visuals!Rained(f, failing) : Ends(r, failing)
      BY <2>7
    <2>9. PICK r \in Visuals!Rained(f, failing) : Ends(r, failing)
      BY <2>8
    <2>10. /\ "daylight" \in Visuals!Climate /\ "vision" \in Visuals!Climate /\ "fog" \in Visuals!Climate
      BY DEF Visuals!Climate
    <2>11. VisualsGood(r)
      <3>1. VisualsGood(d)
        BY <2>1, <2>10, VisualsAfter
      <3>2. VisualsGood(l)
        BY <3>1, VisualsLight
      <3>3. VisualsGood(s)
        BY <2>10, <3>2, VisualsAfter
      <3>4. VisualsGood(f)
        BY <2>10, <3>3, VisualsAfter
      <3> QED
        BY <3>4, VisualsRained
    <2> DEFINE ok == failing = "nothing"
    <2>12. state' = [r EXCEPT !.obeyed = ok]
      BY <2>9
    <2> HIDE DEF ok
    <2>13. /\ state'.obeyed = ok /\ state'.forced = r.forced /\ state'.broken = r.broken /\ state'.daylight = r.daylight
           /\ state'.vision = r.vision /\ state'.fog = r.fog /\ state'.rain = r.rain
      BY <2>11, <2>12 DEF VisualsGood, VisualsStates
    <2>14. failing = "nothing"
      BY <2>13 DEF ok
    <2>15. /\ d = Visuals!Steered(begun, "daylight", Visuals!Wanted(begun, "daylight"))
           /\ l = Visuals!UpdateLocalLight(d)
           /\ s = Visuals!Steered(l, "vision", Visuals!Wanted(l, "vision"))
           /\ f = Visuals!Steered(s, "fog", Visuals!Wanted(s, "fog"))
           /\ r = Visuals!Precipitation(f)
      BY <2>14 DEF Visuals!After, Visuals!Lit, Visuals!Rained
    <2>16. \A c \in Visuals!Climate : ObeyedRight(r, c)
      BY <2>1, <2>15, ObeyedFrame
    <2> QED
      BY <2>13, <2>16 DEF ObeyedRight, Visuals!Wanted
  <1>5. UNCHANGED all => UNCHANGED state
    BY DEF all
  <1>6. Visuals!Die => UNCHANGED state
    BY DEF Visuals!Die
  <1> QED
    BY <1>1, <1>2, <1>3, <1>4, <1>5, <1>6 DEF Visuals!Next, Visuals!Update

LEMMA ObeyedKept == ObeyedInv => Visuals!FrameObeys
  BY DEF ObeyedInv, Visuals!FrameObeys

-----------------------------------------------------------------------------
(* ZombieTools: who is not seen, and that the zombies do not attack, is marked, with what the
   game had. *)

MarkedGood(z) ==
  /\ DOMAIN z = ZombieFields
  /\ z.invisible \subseteq {z.seenOff} /\ NoPlayer \notin z.invisible
  /\ z.seenOff # NoPlayer => ~z.invisibleOriginal
  /\ IF z.passiveApplied THEN z.passiveOriginal = z.passiveOwn ELSE z.passive = z.passiveOwn

MarkedInv == MarkedGood(state)

MarkedLike(t, z) ==
  /\ DOMAIN t = ZombieFields /\ t.invisible = z.invisible /\ t.seenOff = z.seenOff
  /\ t.invisibleOriginal = z.invisibleOriginal /\ t.passive = z.passive /\ t.passiveOwn = z.passiveOwn
  /\ t.passiveApplied = z.passiveApplied /\ t.passiveOriginal = z.passiveOriginal

LEMMA MarkedInit == Zombie!Init => MarkedInv
  <1> SUFFICES ASSUME Zombie!Init PROVE MarkedInv
    OBVIOUS
  <1>1. DOMAIN state = ZombieFields
    BY DEF Zombie!Init, ZombieFields
  <1>2. /\ state.invisible = {} /\ state.seenOff = NoPlayer /\ state.passive = state.passiveOwn
        /\ ~state.passiveApplied
    BY DEF Zombie!Init
  <1> QED
    BY <1>1, <1>2 DEF MarkedInv, MarkedGood

LEMMA MarkedSame ==
  ASSUME NEW z, NEW t, MarkedGood(z), MarkedLike(t, z)
  PROVE  MarkedGood(t)
  BY DEF MarkedGood, MarkedLike

LEMMA MarkedPassive ==
  ASSUME NEW z, MarkedGood(z)
  PROVE  MarkedGood(Zombie!Passive(z))
  <1> DEFINE original == IF z.passiveApplied THEN z.passiveOriginal ELSE z.passive
             on == [z EXCEPT !.passiveOriginal = original, !.passiveApplied = TRUE, !.passive = TRUE]
             off == [z EXCEPT !.passive = z.passiveOriginal, !.passiveApplied = FALSE]
  <1>1. \/ Zombie!Passive(z) \in {on, z}
        \/ z.passiveApplied /\ Zombie!Passive(z) = off
    BY DEF Zombie!Passive
  <1>2. original = z.passiveOwn
    BY DEF MarkedGood
  <1> HIDE DEF original
  <1>3. MarkedGood(on)
    BY <1>2 DEF MarkedGood, ZombieFields
  <1>4. z.passiveApplied => MarkedGood(off)
    BY DEF MarkedGood, ZombieFields
  <1> QED
    BY <1>1, <1>3, <1>4

LEMMA MarkedSeen ==
  ASSUME NEW z, MarkedGood(z)
  PROVE  MarkedGood(Zombie!Seen(z)) /\ Zombie!Seen(z).seenOff = NoPlayer /\ Zombie!Seen(z).invisible = {}
         /\ Zombie!Seen(z).passiveApplied = z.passiveApplied
         /\ Zombie!Seen(z).passiveOriginal = z.passiveOriginal
         /\ Zombie!Seen(z).passiveOwn = z.passiveOwn
         /\ Zombie!Seen(z).passive = z.passive
  <1>1. CASE z.seenOff = NoPlayer
    BY <1>1 DEF Zombie!Seen, MarkedGood
  <1>2. CASE z.seenOff # NoPlayer
    <2> DEFINE left == z.invisible \ {z.seenOff}
               t == [z EXCEPT !.invisible = left, !.seenOff = NoPlayer]
    <2>1. Zombie!Seen(z) = t
      BY <1>2 DEF Zombie!Seen, MarkedGood
    <2>2. left = {}
      BY DEF MarkedGood
    <2> HIDE DEF left
    <2>3. /\ DOMAIN t = ZombieFields /\ t.invisible = {} /\ t.seenOff = NoPlayer
          /\ t.passiveApplied = z.passiveApplied /\ t.passiveOriginal = z.passiveOriginal
          /\ t.passiveOwn = z.passiveOwn /\ t.passive = z.passive
      BY <2>2 DEF MarkedGood, ZombieFields
    <2> HIDE DEF t
    <2>4. MarkedGood(t)
      BY <2>3 DEF MarkedGood
    <2> QED
      BY <2>1, <2>3, <2>4
  <1> QED
    BY <1>1, <1>2

LEMMA MarkedInvisible ==
  ASSUME NEW z, MarkedGood(z), player # NoPlayer
  PROVE  MarkedGood(Zombie!Invisible(z))
  <1> DEFINE seen == IF "invisible" \notin z.flags \/ z.seenOff # player THEN Zombie!Seen(z) ELSE z
             original == IF seen.seenOff = NoPlayer THEN player \in seen.invisible ELSE seen.invisibleOriginal
             t == [seen EXCEPT !.invisibleOriginal = original, !.seenOff = player, !.invisible = @ \cup {player}]
  <1>1. Zombie!Invisible(z) \in {seen, t}
    BY DEF Zombie!Invisible
  <1>2. MarkedGood(seen)
    BY MarkedSeen
  <1>3. "invisible" \in z.flags \/ Zombie!Invisible(z) = seen
    BY DEF Zombie!Invisible
  <1>4. "invisible" \in z.flags => seen.seenOff \in {NoPlayer, player}
    BY MarkedSeen
  <1> HIDE DEF seen
  <1>5. ASSUME seen.seenOff \in {NoPlayer, player} PROVE MarkedGood(t)
    <2>1. ~original
      BY <1>2, <1>5 DEF MarkedGood
    <2>2. seen.invisible \cup {player} = {player}
      BY <1>2, <1>5 DEF MarkedGood
    <2> HIDE DEF original
    <2>3. /\ DOMAIN t = ZombieFields /\ t.invisible = {player} /\ t.seenOff = player
          /\ t.invisibleOriginal = original
          /\ t.passiveApplied = seen.passiveApplied /\ t.passiveOriginal = seen.passiveOriginal
          /\ t.passiveOwn = seen.passiveOwn /\ t.passive = seen.passive
      BY <1>2, <2>2 DEF MarkedGood, ZombieFields
    <2> HIDE DEF t
    <2> QED
      BY <1>2, <2>1, <2>3 DEF MarkedGood
  <1> QED
    BY <1>1, <1>2, <1>3, <1>4, <1>5

\* What is held still, struck and published is not what is marked.
LEMMA MarkedFrame ==
  ASSUME NEW z, DOMAIN z = ZombieFields
  PROVE  /\ MarkedLike(Zombie!Forgotten(z), z) /\ MarkedLike(Zombie!Released(z), z)
         /\ MarkedLike(Zombie!Held(z), z) /\ \A near : MarkedLike(Zombie!Struck(z, near), z)
         /\ \A t \in Zombie!Publish(z) : MarkedLike(t, z)
         /\ \A l : MarkedLike([z EXCEPT !.retained = l], z)
         /\ \A p, l : MarkedLike([z EXCEPT !.previous = p, !.previousLink = l], z)
  <1>1. \A set : MarkedLike(Zombie!GivenBack(z, set), z)
    <2> TAKE set
    <2>1. \E u, p : Zombie!GivenBack(z, set) = [z EXCEPT !.useless = u, !.pending = p]
      BY DEF Zombie!GivenBack
    <2> QED
      BY <2>1 DEF MarkedLike, ZombieFields
  <1>2. MarkedLike(Zombie!Forgotten(z), z)
    <2> DEFINE b == Zombie!GivenBack(z, {x \in z.known : Zombie!Owned(x)})
    <2>1. MarkedLike(b, z)
      BY <1>1
    <2>2. Zombie!Forgotten(z) = [b EXCEPT !.known = {}]
      BY DEF Zombie!Forgotten
    <2> HIDE DEF b
    <2> QED
      BY <2>1, <2>2 DEF MarkedLike, ZombieFields
  <1>3. MarkedLike(Zombie!Released(z), z)
    <2> DEFINE gone == {x \in z.known : "useless" \notin z.flags \/ x \notin z.present \/ ~Zombie!Owned(x)}
               b == Zombie!GivenBack(z, {x \in gone : Zombie!Owned(x)})
    <2>1. MarkedLike(b, z)
      BY <1>1
    <2>2. Zombie!Released(z) = [b EXCEPT !.known = @ \ gone]
      BY DEF Zombie!Released
    <2> HIDE DEF b, gone
    <2> QED
      BY <2>1, <2>2 DEF MarkedLike, ZombieFields
  <1>4. MarkedLike(Zombie!Held(z), z)
    <2>1. \E k, o, u, p : Zombie!Held(z) = [z EXCEPT !.known = k, !.original = o, !.useless = u, !.pending = p]
      BY DEF Zombie!Held
    <2> QED
      BY <2>1 DEF MarkedLike, ZombieFields
  <1>5. ASSUME NEW near PROVE MarkedLike(Zombie!Struck(z, near), z)
    <2>1. \E s, p : Zombie!Struck(z, near) = [z EXCEPT !.struck = s, !.pending = p]
      BY DEF Zombie!Struck
    <2> QED
      BY <2>1 DEF MarkedLike, ZombieFields
  <1>6. ASSUME NEW t \in Zombie!Publish(z) PROVE MarkedLike(t, z)
    <2>1. CASE t \in {z, [z EXCEPT !.pending = {}]}
      BY <2>1 DEF MarkedLike, ZombieFields
    <2>2. CASE \E sent : t = Zombie!Published(z, sent)
      <3>1. \E p, w : t = [z EXCEPT !.pending = p, !.told = w]
        BY <2>2 DEF Zombie!Published
      <3> QED
        BY <3>1 DEF MarkedLike, ZombieFields
    <2> QED
      BY <1>6, <2>1, <2>2 DEF Zombie!Publish
  <1>7. \A l : MarkedLike([z EXCEPT !.retained = l], z)
    BY DEF MarkedLike, ZombieFields
  <1>8. \A p, l : MarkedLike([z EXCEPT !.previous = p, !.previousLink = l], z)
    BY DEF MarkedLike, ZombieFields
  <1> QED
    BY <1>2, <1>3, <1>4, <1>5, <1>6, <1>7, <1>8

LEMMA MarkedFramed ==
  ASSUME NEW z, MarkedGood(z)
  PROVE  /\ MarkedGood(Zombie!Forgotten(z)) /\ MarkedGood(Zombie!Released(z))
         /\ MarkedGood(Zombie!Held(z)) /\ \A near : MarkedGood(Zombie!Struck(z, near))
         /\ \A t \in Zombie!Publish(z) : MarkedGood(t)
         /\ \A l : MarkedGood([z EXCEPT !.retained = l])
         /\ \A p, l : MarkedGood([z EXCEPT !.previous = p, !.previousLink = l])
  <1>1. DOMAIN z = ZombieFields
    BY DEF MarkedGood
  <1>2. \A t : MarkedLike(t, z) => MarkedGood(t)
    BY MarkedSame
  <1>3. \A p, l : MarkedLike([z EXCEPT !.previous = p, !.previousLink = l], z)
    BY <1>1, MarkedFrame
  <1>4. \A l : MarkedLike([z EXCEPT !.retained = l], z)
    BY <1>1, MarkedFrame
  <1> QED
    BY <1>1, <1>2, <1>3, <1>4, MarkedFrame

LEMMA MarkedRestored ==
  ASSUME NEW z, MarkedGood(z)
  PROVE  \A t \in Zombie!Restored(z) : MarkedGood(t)
  <1> DEFINE passive(x) == IF x.passiveApplied THEN x.passiveOriginal ELSE Zombie!Seen(x).passive
             back(x) == [Zombie!Seen(x) EXCEPT !.passive = passive(x), !.passiveApplied = FALSE]
             f == Zombie!Forgotten(z)
             g == [f EXCEPT !.missed = @ \cup f.pending, !.pending = {}]
  <1>1. MarkedGood(f)
    BY MarkedFramed
  <1>2. \A t \in Zombie!Restored(z) : t = back(g) \/ \E x \in Zombie!Publish(f) : t = back(x)
    <2>1. \A x : MarkedGood(x) => back(x) = [Zombie!Seen(x) EXCEPT !.passive = IF x.passiveApplied THEN x.passiveOriginal ELSE @,
                                 !.passiveApplied = FALSE]
      BY MarkedSeen DEF MarkedGood, ZombieFields
    <2>2. MarkedGood(g)
      <3>1. MarkedLike(g, f)
        BY <1>1 DEF MarkedLike, MarkedGood, ZombieFields
      <3> QED
        BY <1>1, <3>1, MarkedSame
    <2>3. \A x \in Zombie!Publish(f) : MarkedGood(x)
      BY <1>1, MarkedFramed
    <2> DEFINE old(x) == [Zombie!Seen(x) EXCEPT !.passive = IF x.passiveApplied THEN x.passiveOriginal ELSE @,
                                 !.passiveApplied = FALSE]
    <2>4. \A t \in Zombie!Restored(z) : t = old(g) \/ \E x \in Zombie!Publish(f) : t = old(x)
      BY DEF Zombie!Restored
    <2>5. \A x : MarkedGood(x) => back(x) = old(x)
      BY <2>1
    <2> HIDE DEF old, back, f, g
    <2> QED
      BY <2>2, <2>3, <2>4, <2>5
  <1>3. ASSUME NEW x, MarkedGood(x) PROVE MarkedGood(back(x))
    <2> DEFINE s == Zombie!Seen(x)
               p == passive(x)
    <2>1. /\ MarkedGood(s) /\ s.passiveApplied = x.passiveApplied /\ s.passiveOriginal = x.passiveOriginal
          /\ s.passiveOwn = x.passiveOwn /\ s.passive = x.passive
      BY <1>3, MarkedSeen
    <2>2. p = s.passiveOwn
      BY <1>3, <2>1 DEF MarkedGood
    <2>3. back(x) = [s EXCEPT !.passive = p, !.passiveApplied = FALSE]
      OBVIOUS
    <2> HIDE DEF s, p, passive, back
    <2> QED
      BY <2>1, <2>2, <2>3 DEF MarkedGood, ZombieFields
  <1>4. MarkedGood(g)
    <2> HIDE DEF f
    <2>1. MarkedLike(g, f)
      BY SMTT(30), <1>1 DEF MarkedLike, MarkedGood, ZombieFields
    <2> QED
      BY <1>1, <2>1, MarkedSame
  <1>5. \A x \in Zombie!Publish(f) : MarkedGood(x)
    BY <1>1, MarkedFramed
  <1> HIDE DEF back, f, g
  <1> QED
    BY <1>2, <1>3, <1>4, <1>5

LEMMA MarkedRun ==
  ASSUME MarkedGood(state), Zombie!Run
  PROVE  MarkedGood(state')
  <1>1. \A z \in Zombie!Begun : MarkedGood(z)
    <2> SUFFICES ASSUME NEW z \in Zombie!Begun PROVE MarkedGood(z)
      OBVIOUS
    <2>1. \/ z = state
          \/ \E x \in Zombie!Restored(state) : \E p, l : z = [x EXCEPT !.previous = p, !.previousLink = l]
      BY DEF Zombie!Begun
    <2>2. CASE \E x \in Zombie!Restored(state) : \E p, l : z = [x EXCEPT !.previous = p, !.previousLink = l]
      <3>1. PICK x \in Zombie!Restored(state) : \E p, l : z = [x EXCEPT !.previous = p, !.previousLink = l]
        BY <2>2
      <3>2. MarkedGood(x)
        BY MarkedRestored
      <3>3. PICK p, l : z = [x EXCEPT !.previous = p, !.previousLink = l]
        BY <3>1
      <3>4. MarkedLike(z, x)
        BY <3>2, <3>3 DEF MarkedLike, MarkedGood, ZombieFields
      <3> QED
        BY <3>2, <3>4, MarkedSame
    <2> QED
      BY <2>1, <2>2
  <1>2. ASSUME NEW z, MarkedGood(z), NEW near, Zombie!Ready PROVE MarkedGood(Zombie!Worked(z, near))
    <2> DEFINE a == [z EXCEPT !.retained = z.link]
               b == Zombie!Passive(a)
               c == Zombie!Invisible(b)
               d == Zombie!Released(c)
               e == Zombie!Held(d)
    <2>1. MarkedGood(a)
      <3>1. \A l : MarkedGood([z EXCEPT !.retained = l])
        BY <1>2, MarkedFramed
      <3> QED
        BY <3>1
    <2>2. player # NoPlayer
      BY <1>2 DEF Zombie!Ready
    <2> HIDE DEF a
    <2>3. MarkedGood(b)
      BY <2>1, MarkedPassive
    <2> HIDE DEF b
    <2>4. MarkedGood(c)
      BY <2>2, <2>3, MarkedInvisible
    <2> HIDE DEF c
    <2>5. MarkedGood(d)
      BY <2>4, MarkedFramed
    <2> HIDE DEF d
    <2>6. MarkedGood(e)
      BY <2>5, MarkedFramed
    <2> HIDE DEF e
    <2>7. MarkedGood(Zombie!Struck(e, near))
      BY <2>6, MarkedFramed
    <2> QED
      BY <2>7 DEF Zombie!Worked, a, b, c, d, e
  <1>3. \/ state' \in Zombie!Begun
        \/ Zombie!Ready /\ \E z \in Zombie!Begun : \E near : state' \in Zombie!Publish(Zombie!Worked(z, near))
        \/ state' = Zombie!Forgotten(state)
        \/ Zombie!Ready /\ \E z \in Zombie!Begun : \E near : state' = Zombie!Worked(z, near)
    BY DEF Zombie!Run
  <1>4. CASE Zombie!Ready /\ \E z \in Zombie!Begun : \E near : state' \in Zombie!Publish(Zombie!Worked(z, near))
    <2>1. PICK z \in Zombie!Begun : \E near : state' \in Zombie!Publish(Zombie!Worked(z, near))
      BY <1>4
    <2>2. PICK near : state' \in Zombie!Publish(Zombie!Worked(z, near))
      BY <2>1
    <2>3. MarkedGood(Zombie!Worked(z, near))
      BY <1>1, <1>2, <1>4
    <2> QED
      BY <2>2, <2>3, MarkedFramed
  <1>5. CASE state' = Zombie!Forgotten(state)
    BY <1>5, MarkedFramed
  <1> QED
    BY <1>1, <1>2, <1>3, <1>4, <1>5

LEMMA MarkedStep == MarkedInv /\ [Zombie!Next]_all => MarkedInv'
  <1> SUFFICES ASSUME MarkedInv, [Zombie!Next]_all PROVE MarkedGood(state')
    BY DEF MarkedInv
  <1>0. MarkedGood(state) /\ DOMAIN state = ZombieFields
    BY DEF MarkedInv, MarkedGood
  <1>1. CASE Zombie!Live
    <2>1. \E l, p, o : state' \in {[state EXCEPT !.link = l, !.present = p, !.local = o], [state EXCEPT !.link = l]}
      BY <1>1 DEF Zombie!Live
    <2>2. PICK l, p, o : state' \in {[state EXCEPT !.link = l, !.present = p, !.local = o], [state EXCEPT !.link = l]}
      BY <2>1
    <2>3. MarkedLike(state', state)
      BY <1>0, <2>2 DEF MarkedLike, ZombieFields
    <2> QED
      BY <1>0, <2>3, MarkedSame
  <1>2. CASE Zombie!Disconnect
    <2>1. MarkedLike(state', state)
      BY <1>0, <1>2 DEF Zombie!Disconnect, MarkedLike, ZombieFields
    <2> QED
      BY <1>0, <2>1, MarkedSame
  <1>3. ASSUME NEW z \in Things, Zombie!PassOn(z) \/ Zombie!TakeOver(z) \/ Zombie!Unload(z)
        PROVE  MarkedGood(state')
    <2>1. \E l, s, w, p : state' \in {[state EXCEPT !.local = l, !.strayed = s], [state EXCEPT !.local = l, !.told = w],
                                      [state EXCEPT !.present = p]}
      BY <1>3 DEF Zombie!PassOn, Zombie!TakeOver, Zombie!Unload
    <2>2. PICK l, s, w, p : state' \in {[state EXCEPT !.local = l, !.strayed = s], [state EXCEPT !.local = l, !.told = w],
                                      [state EXCEPT !.present = p]}
      BY <2>1
    <2>3. MarkedLike(state', state)
      BY <1>0, <2>2 DEF MarkedLike, ZombieFields
    <2> QED
      BY <1>0, <2>3, MarkedSame
  <1>4. ASSUME NEW f, Zombie!Switch(f) PROVE MarkedGood(state')
    <2>1. \E l : state' = [state EXCEPT !.flags = l]
      BY <1>4 DEF Zombie!Switch
    <2>2. MarkedLike(state', state)
      BY <1>0, <2>1 DEF MarkedLike, ZombieFields
    <2> QED
      BY <1>0, <2>2, MarkedSame
  <1>5. CASE Zombie!Run
    BY <1>0, <1>5, MarkedRun
  <1>6. CASE UNCHANGED all
    BY <1>0, <1>6 DEF all
  <1> QED
    BY <1>1, <1>2, <1>3, <1>4, <1>5, <1>6 DEF Zombie!Next

LEMMA MarkedKept == MarkedInv => Zombie!ChangesAreMarked
  BY DEF MarkedInv, MarkedGood, Zombie!ChangesAreMarked

-----------------------------------------------------------------------------
(* AimOverrides: a frame that ends the aiming leaves nothing in force, nor a request that the
   game's thread would still act on. *)

OffRecord(z) == DOMAIN z = AimFields /\ z.calls \in [Aim!Calls -> {"none", "queued", "done"}]

\* The release of the forced aim is under way, could not be queued, or is not called for.
OffReleased(z) ==
  z.actor = NoPlayer \/ z.calls["release"] = "queued" \/ "release" \in z.strays \/ z.unsent

OffSettled(z) ==
  /\ z.weapon = NoWeapon /\ ~z.published /\ ~z.pending /\ ~z.requested.fresh
  /\ z.making # Aim!NoRequest => z.caught
  /\ OffReleased(z) \/ z.caught

OffGood(z) ==
  /\ OffRecord(z)
  /\ z.frame \in {"settled", "idle"} => z.walker = NoPlayer
  /\ z.frame = "settled" => OffSettled(z)

OffInv == OffGood(state)

\* What every step of a frame keeps; what those keep that are about the calls; and what those
\* keep that give something back.
OffOn(t, z) == OffRecord(t) /\ t.making = z.making

OffSame(t, z) ==
  /\ OffOn(t, z) /\ t.walker = z.walker /\ t.weapon = z.weapon /\ t.published = z.published
  /\ t.requested = z.requested /\ t.pending = z.pending

OffBack(t, z) ==
  /\ OffOn(t, z) /\ t.published = z.published /\ t.requested = z.requested
  /\ OffReleased(z) => OffReleased(t)

LEMMA OffInit == Aim!Init => OffInv
  <1> SUFFICES ASSUME Aim!Init PROVE OffInv
    OBVIOUS
  <1>1. DOMAIN state = AimFields
    BY DEF Aim!Init, AimFields
  <1>2. state.calls = [call \in Aim!Calls |-> "none"] /\ state.frame = "none"
    BY DEF Aim!Init
  <1> QED
    BY <1>1, <1>2 DEF OffInv, OffGood, OffRecord

LEMMA OffForgotten ==
  ASSUME NEW z, OffRecord(z), NEW call
  PROVE  /\ OffSame(Aim!Forgotten(z, call), z)
         /\ call \in Aim!Calls => Aim!Forgotten(z, call).calls[call] = "none"
         /\ OffReleased(z) /\ call = "attack" => OffReleased(Aim!Forgotten(z, call))
  <1> DEFINE a == [z.calls EXCEPT ![call] = "none"]
             b == IF z.calls[call] = "queued" /\ call # "attack" THEN z.strays \cup {call} ELSE z.strays
             t == [z EXCEPT !.calls = a, !.strays = b]
  <1>1. Aim!Forgotten(z, call) = t
    BY DEF Aim!Forgotten
  <1>2. /\ a \in [Aim!Calls -> {"none", "queued", "done"}]
        /\ call \in Aim!Calls => a[call] = "none"
        /\ call = "attack" => a["release"] = z.calls["release"] /\ b = z.strays
    BY DEF OffRecord, Aim!Calls
  <1> HIDE DEF a, b
  <1>3. /\ DOMAIN t = AimFields /\ t.calls = a /\ t.strays = b /\ t.making = z.making /\ t.walker = z.walker
        /\ t.weapon = z.weapon /\ t.published = z.published /\ t.requested = z.requested
        /\ t.pending = z.pending /\ t.actor = z.actor /\ t.unsent = z.unsent
    BY DEF OffRecord, AimFields
  <1> HIDE DEF t
  <1> QED
    BY <1>1, <1>2, <1>3 DEF OffSame, OffOn, OffRecord, OffReleased

LEMMA OffPolled ==
  ASSUME NEW z, OffRecord(z), NEW call \in Aim!Calls, NEW bad
  PROVE  /\ OffSame(Aim!Polled(z, call, bad), z)
         /\ Aim!Polled(z, call, bad).calls[call] \in {"none", "queued"}
  BY OffForgotten DEF Aim!Polled, OffSame, OffOn, OffRecord

LEMMA OffQueued ==
  ASSUME NEW z, OffRecord(z), NEW call \in Aim!Calls, NEW bad
  PROVE  /\ OffSame(Aim!Queued(z, call, bad), z)
         /\ call = "release" => OffReleased(Aim!Queued(z, call, bad))
  <1> DEFINE a == [z.calls EXCEPT ![call] = IF bad = "queue" THEN @ ELSE "queued"]
             b == z.unsent \/ (bad = "queue" /\ call = "release")
             t == [z EXCEPT !.calls = a, !.unsent = b]
  <1>1. Aim!Queued(z, call, bad) = t
    BY DEF Aim!Queued
  <1>2. /\ a \in [Aim!Calls -> {"none", "queued", "done"}]
        /\ call = "release" => b \/ a["release"] = "queued"
    BY DEF OffRecord
  <1> HIDE DEF a, b
  <1>3. /\ DOMAIN t = AimFields /\ t.calls = a /\ t.making = z.making /\ t.walker = z.walker
        /\ t.weapon = z.weapon /\ t.published = z.published /\ t.requested = z.requested
        /\ t.pending = z.pending /\ t.unsent = b
    BY DEF OffRecord, AimFields
  <1> HIDE DEF t
  <1> QED
    BY <1>1, <1>2, <1>3 DEF OffSame, OffOn, OffRecord, OffReleased

\* After a call that releases the aim it is released, or on its way to be.
LEMMA OffRelease ==
  ASSUME NEW z, OffRecord(z), NEW bad
  PROVE  OffSame(Aim!Release(z, bad), z) /\ OffReleased(Aim!Release(z, bad))
  <1> DEFINE polled == Aim!Polled(z, "release", bad)
             queued == Aim!Queued(polled, "release", bad)
  <1>0. "release" \in Aim!Calls
    BY DEF Aim!Calls
  <1>1. OffSame(polled, z) /\ OffRecord(polled) /\ polled.calls["release"] \in {"none", "queued"}
    BY <1>0, OffPolled DEF OffSame, OffOn
  <1>2. polled.actor = z.actor
    <2>1. \E a, b : polled \in {z, [z EXCEPT !.calls = a, !.strays = b]}
      BY DEF Aim!Polled, Aim!Forgotten
    <2> HIDE DEF polled
    <2> QED
      BY <2>1 DEF OffRecord, AimFields
  <1>3. Aim!Release(z, bad) = IF z.actor # NoPlayer /\ polled.calls["release"] = "none" THEN queued ELSE polled
    BY DEF Aim!Release
  <1> HIDE DEF polled
  <1>4. OffSame(queued, polled) /\ OffReleased(queued)
    BY <1>0, <1>1, OffQueued
  <1> HIDE DEF queued
  <1>5. OffSame(queued, z)
    BY <1>1, <1>4 DEF OffSame, OffOn
  <1>6. z.actor = NoPlayer \/ polled.calls["release"] # "none" => OffReleased(polled)
    BY <1>1, <1>2 DEF OffReleased
  <1> QED
    BY <1>1, <1>3, <1>4, <1>5, <1>6

LEMMA OffReleaseForced ==
  ASSUME NEW z, OffRecord(z), NEW busy, NEW bad
  PROVE  LET t == Aim!ReleaseForced(z, busy, bad) IN OffSame(t, z) /\ (OffReleased(z) => OffReleased(t))
  <1> DEFINE r == Aim!Release(z, bad)
             f == [r EXCEPT !.forced = FALSE]
  <1>1. Aim!ReleaseForced(z, busy, bad) \in {z, f}
    BY DEF Aim!ReleaseForced
  <1>2. OffSame(r, z) /\ OffReleased(r)
    BY OffRelease
  <1> HIDE DEF r
  <1>3. OffSame(f, z) /\ OffReleased(f)
    BY <1>2 DEF OffSame, OffOn, OffRecord, OffReleased, AimFields
  <1>4. OffSame(z, z)
    BY DEF OffSame, OffOn
  <1> QED
    BY <1>1, <1>3, <1>4

\* The target is taken back, and with it what is asked of the game's thread.
LEMMA OffWithdrawn ==
  ASSUME NEW z, OffRecord(z), NEW bad
  PROVE  LET t == Aim!Cleared(Aim!Unpublished(z), bad) IN
         /\ OffOn(t, z) /\ t.walker = z.walker /\ ~t.published /\ ~t.requested.fresh /\ OffReleased(t)
  <1> DEFINE u == [z EXCEPT !.published = FALSE]
             said == [u EXCEPT !.requested = Aim!NoRequest, !.prepared = Aim!NoRequest]
             t == Aim!Release(said, bad)
  <1>0. t = Aim!Cleared(Aim!Unpublished(z), bad)
    BY DEF Aim!Cleared, Aim!Unpublished
  <1>1. ~Aim!NoRequest.fresh
    BY DEF Aim!NoRequest
  <1>2. OffOn(said, z) /\ said.walker = z.walker /\ ~said.published /\ said.requested = Aim!NoRequest
    BY DEF OffOn, OffRecord, AimFields
  <1> HIDE DEF said
  <1>3. OffSame(t, said) /\ OffReleased(t)
    BY <1>2, OffRelease DEF OffOn
  <1> HIDE DEF t
  <1> QED
    BY <1>0, <1>1, <1>2, <1>3 DEF OffSame, OffOn

LEMMA OffRestored ==
  ASSUME NEW z, OffRecord(z), NEW bad
  PROVE  /\ OffBack(Aim!RestoreWeapon(z, bad), z) /\ Aim!RestoreWeapon(z, bad).walker = z.walker
         /\ Aim!RestoreWeapon(z, bad).weapon = NoWeapon
         /\ OffBack(Aim!RestoreMovement(z, bad), z) /\ Aim!RestoreMovement(z, bad).walker = NoPlayer
  <1>1. \E v, s : Aim!RestoreWeapon(z, bad) = [z EXCEPT !.values = v, !.spoiltWeapons = s, !.weapon = NoWeapon]
                  \/ (z.weapon = NoWeapon /\ Aim!RestoreWeapon(z, bad) = z)
    BY DEF Aim!RestoreWeapon
  <1>2. \E v, s : Aim!RestoreMovement(z, bad) = [z EXCEPT !.moves = v, !.spoiltPlayers = s, !.walker = NoPlayer]
                  \/ (z.walker = NoPlayer /\ Aim!RestoreMovement(z, bad) = z)
    BY DEF Aim!RestoreMovement
  <1>3. OffBack(z, z)
    BY DEF OffBack, OffOn
  <1>4. /\ OffBack(Aim!RestoreWeapon(z, bad), z) /\ Aim!RestoreWeapon(z, bad).walker = z.walker
        /\ Aim!RestoreWeapon(z, bad).weapon = NoWeapon
    BY <1>1, <1>3 DEF OffBack, OffOn, OffRecord, OffReleased, AimFields
  <1>5. OffBack(Aim!RestoreMovement(z, bad), z) /\ Aim!RestoreMovement(z, bad).walker = NoPlayer
    BY <1>2, <1>3 DEF OffBack, OffOn, OffRecord, OffReleased, AimFields
  <1> QED
    BY <1>4, <1>5

\* The frames that end the aiming.
OffEnded(t, z) ==
  /\ OffOn(t, z) /\ t.frame = "settled" /\ t.walker = NoPlayer /\ t.weapon = NoWeapon
  /\ ~t.published /\ ~t.pending /\ ~t.requested.fresh /\ OffReleased(t)

LEMMA OffReset ==
  ASSUME NEW z, OffRecord(z), NEW busy, NEW bad
  PROVE  OffEnded(Aim!Reset(z, busy, bad), z)
  <1> DEFINE w == Aim!Cleared(Aim!Unpublished(z), bad)
             r == Aim!ReleaseForced(w, busy, bad)
             f == IF player = NoPlayer THEN [r EXCEPT !.forced = FALSE] ELSE r
             a == Aim!RestoreMovement(f, bad)
             b == Aim!RestoreWeapon(a, bad)
             c == Aim!Forgotten(b, "attack")
             d == [[c EXCEPT !.frame = "settled"] EXCEPT !.pending = FALSE]
  <1>0. Aim!Reset(z, busy, bad) = d
    BY DEF Aim!Reset, Aim!NoSecond
  <1>1. OffOn(w, z) /\ ~w.published /\ ~w.requested.fresh /\ OffReleased(w)
    BY OffWithdrawn
  <1> HIDE DEF w
  <1>2. OffOn(r, z) /\ ~r.published /\ ~r.requested.fresh /\ OffReleased(r)
    <2>1. OffSame(r, w) /\ OffReleased(r)
      BY <1>1, OffReleaseForced DEF OffOn
    <2> HIDE DEF r
    <2> QED
      BY <1>1, <2>1 DEF OffSame, OffOn
  <1> HIDE DEF r
  <1>3. OffOn(f, z) /\ ~f.published /\ ~f.requested.fresh /\ OffReleased(f)
    BY <1>2 DEF OffOn, OffRecord, OffReleased, AimFields
  <1> HIDE DEF f
  <1>4. OffOn(a, z) /\ ~a.published /\ ~a.requested.fresh /\ OffReleased(a) /\ a.walker = NoPlayer
    <2>1. OffBack(a, f) /\ a.walker = NoPlayer
      BY <1>3, OffRestored DEF OffOn
    <2> HIDE DEF a
    <2> QED
      BY <1>3, <2>1 DEF OffBack, OffOn
  <1> HIDE DEF a
  <1>5. OffOn(b, z) /\ ~b.published /\ ~b.requested.fresh /\ OffReleased(b) /\ b.walker = NoPlayer /\ b.weapon = NoWeapon
    <2>1. OffBack(b, a) /\ b.walker = a.walker /\ b.weapon = NoWeapon
      BY <1>4, OffRestored DEF OffOn
    <2> HIDE DEF b
    <2> QED
      BY <1>4, <2>1 DEF OffBack, OffOn
  <1> HIDE DEF b
  <1>6. OffOn(c, z) /\ ~c.published /\ ~c.requested.fresh /\ OffReleased(c) /\ c.walker = NoPlayer /\ c.weapon = NoWeapon
    <2>1. OffSame(c, b) /\ OffReleased(c)
      BY <1>5, OffForgotten DEF OffOn
    <2> HIDE DEF c
    <2> QED
      BY <1>5, <2>1 DEF OffSame, OffOn
  <1> HIDE DEF c
  <1>7. OffEnded(d, z)
    BY <1>6 DEF OffEnded, OffOn, OffRecord, OffReleased, AimFields
  <1> QED
    BY <1>0, <1>7

LEMMA OffPaused ==
  ASSUME NEW z, OffRecord(z), NEW busy, NEW bad
  PROVE  OffEnded(Aim!Paused(z, busy, bad), z)
  <1> DEFINE w == Aim!Cleared(Aim!Unpublished(z), bad)
             r == Aim!ReleaseForced(w, busy, bad)
             a == Aim!RestoreMovement(r, bad)
             b == Aim!RestoreWeapon(a, bad)
             d == [[b EXCEPT !.frame = "settled"] EXCEPT !.pending = FALSE]
  <1>0. Aim!Paused(z, busy, bad) = d
    BY DEF Aim!Paused, Aim!NoSecond
  <1>1. OffOn(w, z) /\ ~w.published /\ ~w.requested.fresh /\ OffReleased(w)
    BY OffWithdrawn
  <1> HIDE DEF w
  <1>2. OffOn(r, z) /\ ~r.published /\ ~r.requested.fresh /\ OffReleased(r)
    <2>1. OffSame(r, w) /\ OffReleased(r)
      BY <1>1, OffReleaseForced DEF OffOn
    <2> HIDE DEF r
    <2> QED
      BY <1>1, <2>1 DEF OffSame, OffOn
  <1> HIDE DEF r
  <1>4. OffOn(a, z) /\ ~a.published /\ ~a.requested.fresh /\ OffReleased(a) /\ a.walker = NoPlayer
    <2>1. OffBack(a, r) /\ a.walker = NoPlayer
      BY <1>2, OffRestored DEF OffOn
    <2> HIDE DEF a
    <2> QED
      BY <1>2, <2>1 DEF OffBack, OffOn
  <1> HIDE DEF a
  <1>5. OffOn(b, z) /\ ~b.published /\ ~b.requested.fresh /\ OffReleased(b) /\ b.walker = NoPlayer /\ b.weapon = NoWeapon
    <2>1. OffBack(b, a) /\ b.walker = a.walker /\ b.weapon = NoWeapon
      BY <1>4, OffRestored DEF OffOn
    <2> HIDE DEF b
    <2> QED
      BY <1>4, <2>1 DEF OffBack, OffOn
  <1> HIDE DEF b
  <1>7. OffEnded(d, z)
    BY <1>5 DEF OffEnded, OffOn, OffRecord, OffReleased, AimFields
  <1> QED
    BY <1>0, <1>7

\* The others leave nobody stopped, or have a target.
OffIdle(t, z) ==
  OffOn(t, z) /\ (t.frame = "aiming" \/ (t.frame = "idle" /\ t.walker = NoPlayer))

LEMMA OffFramed ==
  ASSUME NEW z, NEW t, OffOn(t, z)
  PROVE  /\ OffOn(Aim!Unpublished(t), z) /\ Aim!Unpublished(t).walker = t.walker
         /\ OffOn(Aim!NoSecond(t), z) /\ Aim!NoSecond(t).walker = t.walker
         /\ Aim!NoSecond(t).frame = t.frame
         /\ \A f : OffOn([t EXCEPT !.frame = f], z) /\ [t EXCEPT !.frame = f].walker = t.walker
                   /\ [t EXCEPT !.frame = f].frame = f
  BY DEF Aim!Unpublished, Aim!NoSecond, OffOn, OffRecord, AimFields

LEMMA OffUnarmed ==
  ASSUME NEW z, OffRecord(z), NEW busy, NEW bad
  PROVE  OffIdle(Aim!Unarmed(z, busy, bad), z)
  <1> DEFINE a == Aim!Unpublished(z)
             b == Aim!RestoreWeapon(a, bad)
             c == Aim!RestoreMovement(b, bad)
             d == Aim!ReleaseForced(c, busy, bad)
             e == [d EXCEPT !.frame = "idle"]
  <1>0. Aim!Unarmed(z, busy, bad) = e
    BY DEF Aim!Unarmed
  <1>1. OffOn(a, z)
    BY OffFramed DEF OffOn
  <1> HIDE DEF a
  <1>2. OffOn(b, z)
    BY <1>1, OffRestored DEF OffBack, OffOn
  <1> HIDE DEF b
  <1>3. OffOn(c, z) /\ c.walker = NoPlayer
    BY <1>2, OffRestored DEF OffBack, OffOn
  <1> HIDE DEF c
  <1>4. OffOn(d, z) /\ d.walker = NoPlayer
    BY <1>3, OffReleaseForced DEF OffSame, OffOn
  <1> HIDE DEF d
  <1>5. OffIdle(e, z)
    BY <1>4, OffFramed DEF OffIdle
  <1> QED
    BY <1>0, <1>5

LEMMA OffStopped ==
  ASSUME NEW z, OffRecord(z), NEW bad
  PROVE  OffOn(Aim!Stopped(z, bad), z)
  <1> DEFINE before == IF z.walker = player THEN z ELSE Aim!RestoreMovement(z, bad)
  <1>1. OffOn(before, z)
    BY OffRestored DEF OffBack, OffOn
  <1>2. \E m, s, h : Aim!Stopped(z, bad) \in {[before EXCEPT !.moves = m, !.spoiltPlayers = s],
                                             [before EXCEPT !.walker = player, !.moves = m, !.walkerHad = h]}
    BY DEF Aim!Stopped
  <1> HIDE DEF before
  <1> QED
    BY <1>1, <1>2 DEF OffOn, OffRecord, AimFields

LEMMA OffApplied ==
  ASSUME NEW z, OffRecord(z), NEW w, NEW bad
  PROVE  OffOn(Aim!Applied(z, w, bad), z)
  <1> DEFINE before == IF z.weapon = w THEN z ELSE Aim!RestoreWeapon(z, bad)
             m == Aim!Remembered(before, w)
  <1>1. OffOn(before, z)
    BY OffRestored DEF OffBack, OffOn
  <1>2. \E v, s : Aim!Applied(z, w, bad) \in {[before EXCEPT !.values = v, !.spoiltWeapons = s],
                                             [m EXCEPT !.values = v]}
    BY DEF Aim!Applied
  <1> HIDE DEF before
  <1>3. OffOn(m, z)
    <2>1. \E h : m \in {before, [before EXCEPT !.weapon = w, !.weaponHad = h]}
      BY DEF Aim!Remembered
    <2> HIDE DEF m
    <2> QED
      BY <1>1, <2>1 DEF OffOn, OffRecord, AimFields
  <1> HIDE DEF m
  <1> QED
    BY <1>1, <1>2, <1>3 DEF OffOn, OffRecord, AimFields

LEMMA OffRequested ==
  ASSUME NEW z, OffRecord(z), NEW bad
  PROVE  OffOn(Aim!Requested(z, bad), z)
  <1> DEFINE r == [who |-> player, automatic |-> "automatic" \in z.options, fresh |-> TRUE]
             said == [z EXCEPT !.requested = r]
             polled == Aim!Polled(said, "prepare", bad)
             queued == Aim!Queued(polled, "prepare", bad)
  <1>0. Aim!Requested(z, bad) \in {z, polled, queued} /\ "prepare" \in Aim!Calls
    BY DEF Aim!Requested, Aim!Calls
  <1> HIDE DEF r
  <1>1. OffOn(said, z)
    BY DEF OffOn, OffRecord, AimFields
  <1> HIDE DEF said
  <1>2. OffOn(polled, z)
    BY <1>0, <1>1, OffPolled DEF OffSame, OffOn
  <1> HIDE DEF polled
  <1>3. OffOn(queued, z)
    BY <1>0, <1>2, OffQueued DEF OffSame, OffOn
  <1> HIDE DEF queued
  <1> QED
    BY <1>0, <1>2, <1>3 DEF OffOn

LEMMA OffAimed ==
  ASSUME NEW z, OffRecord(z), NEW near, NEW bad
  PROVE  OffOn(Aim!Aimed(z, near, bad), z)
  <1> DEFINE h == Aim!Hooked(z, bad)
             p == h.published \/ h.hooks = "ready"
             t == [h EXCEPT !.published = p]
  <1>1. Aim!Aimed(z, near, bad) \in {z, Aim!Unpublished(z), t}
    BY DEF Aim!Aimed
  <1>2. \E k : h = [z EXCEPT !.hooks = k]
    BY DEF Aim!Hooked
  <1> HIDE DEF h, p
  <1>3. OffOn(h, z)
    BY <1>2 DEF OffOn, OffRecord, AimFields
  <1>4. OffOn(t, z)
    BY <1>3 DEF OffOn, OffRecord, AimFields
  <1> HIDE DEF t
  <1>5. OffOn(z, z) /\ OffOn(Aim!Unpublished(z), z)
    BY OffFramed DEF OffOn
  <1> QED
    BY <1>1, <1>4, <1>5

LEMMA OffFired ==
  ASSUME NEW z, OffRecord(z), NEW due, NEW bad
  PROVE  OffOn(Aim!Fired(z, due, bad), z)
  <1> DEFINE q == Aim!Queued(z, "attack", bad)
  <1>1. OffOn(q, z)
    <2>1. "attack" \in Aim!Calls
      BY DEF Aim!Calls
    <2> QED
      BY <2>1, OffQueued DEF OffSame
  <1>2. \E p, e, f : Aim!Fired(z, due, bad) \in {z, q, [q EXCEPT !.pending = p, !.extra = e, !.followed = f],
                                                [q EXCEPT !.pending = p, !.followed = f]}
    BY DEF Aim!Fired, Aim!Second, Aim!First
  <1> HIDE DEF q
  <1> QED
    BY <1>1, <1>2 DEF OffOn, OffRecord, AimFields

LEMMA OffTargeted ==
  ASSUME NEW z, OffRecord(z), NEW s, NEW bad
  PROVE  OffIdle(Aim!Targeted(z, s, bad), z)
  <1> DEFINE moved == IF "stop" \in z.options THEN Aim!Stopped(z, bad) ELSE Aim!RestoreMovement(z, bad)
             p == moved.forced \/ s.view = "aimed"
             forced == [moved EXCEPT !.forced = p]
             entered == IF "automatic" \in z.options THEN forced ELSE Aim!ReleaseForced(moved, s.busy, bad)
             aimed == IF s.view = "aimed" THEN Aim!Aimed(entered, s.near, bad) ELSE Aim!Unpublished(entered)
             back == Aim!RestoreMovement(moved, bad)
             fired == IF s.view = "aimed" THEN Aim!Fired(aimed, s.due, bad) ELSE aimed
  <1>0. Aim!Targeted(z, s, bad) \in {[back EXCEPT !.frame = "idle"], [fired EXCEPT !.frame = "aiming"]}
    BY DEF Aim!Targeted
  <1>1. OffOn(moved, z)
    BY OffStopped, OffRestored DEF OffBack
  <1> HIDE DEF moved, p
  <1>2. OffOn(back, z) /\ back.walker = NoPlayer
    BY <1>1, OffRestored DEF OffBack, OffOn
  <1> HIDE DEF back
  <1>3. OffOn(forced, z)
    BY <1>1 DEF OffOn, OffRecord, AimFields
  <1> HIDE DEF forced
  <1>4. OffOn(entered, z)
    BY <1>1, <1>3, OffReleaseForced DEF OffSame, OffOn
  <1> HIDE DEF entered
  <1>5. OffOn(aimed, z)
    <2>1. OffOn(Aim!Aimed(entered, s.near, bad), z)
      BY <1>4, OffAimed DEF OffOn
    <2> QED
      BY <1>4, <2>1, OffFramed
  <1> HIDE DEF aimed
  <1>6. OffOn(fired, z)
    BY <1>5, OffFired DEF OffOn
  <1> HIDE DEF fired
  <1>7. OffIdle([back EXCEPT !.frame = "idle"], z)
    BY <1>2, OffFramed DEF OffIdle
  <1>8. OffIdle([fired EXCEPT !.frame = "aiming"], z)
    BY <1>6, OffFramed DEF OffIdle
  <1> QED
    BY <1>0, <1>7, <1>8

LEMMA OffUntargeted ==
  ASSUME NEW z, OffRecord(z), NEW s, NEW bad
  PROVE  OffIdle(Aim!Untargeted(z, s, bad), z)
  <1> DEFINE a == Aim!RestoreMovement(z, bad)
             b == Aim!ReleaseForced(a, s.busy, bad)
             c == Aim!Cleared(Aim!Unpublished(b), bad)
             d == [c EXCEPT !.frame = "idle"]
  <1>0. Aim!Untargeted(z, s, bad) = Aim!NoSecond(d)
    BY DEF Aim!Untargeted
  <1>1. OffOn(a, z) /\ a.walker = NoPlayer
    BY OffRestored DEF OffBack
  <1> HIDE DEF a
  <1>2. OffOn(b, z) /\ b.walker = NoPlayer
    BY <1>1, OffReleaseForced DEF OffSame, OffOn
  <1> HIDE DEF b
  <1>3. OffOn(c, z) /\ c.walker = NoPlayer
    BY <1>2, OffWithdrawn DEF OffOn
  <1> HIDE DEF c
  <1>4. OffOn(d, z) /\ d.walker = NoPlayer /\ d.frame = "idle"
    BY <1>3, OffFramed
  <1> HIDE DEF d
  <1>5. OffIdle(Aim!NoSecond(d), z)
    BY <1>4, OffFramed DEF OffIdle
  <1> QED
    BY <1>0, <1>5

LEMMA OffArmed ==
  ASSUME NEW z, OffRecord(z), NEW s, NEW bad
  PROVE  OffIdle(Aim!Armed(z, s, bad), z) \/ OffEnded(Aim!Armed(z, s, bad), z)
  <1> DEFINE due == IF "double" \notin z.options \/ s.expired THEN Aim!NoSecond(z) ELSE z
             sees == s.view # "nothing" \/ due.pending
             stopped == IF sees /\ "stop" \in z.options THEN Aim!Stopped(due, bad) ELSE due
             asked == IF sees THEN Aim!Requested(stopped, bad) ELSE stopped
             applied == Aim!Applied(asked, z.hand, bad)
             u == Aim!Unpublished(asked)
             missed == [u EXCEPT !.frame = "aiming"]
             v == Aim!RestoreMovement(Aim!Unpublished(applied), bad)
             unread == [v EXCEPT !.frame = "idle"]
  <1>0. Aim!Armed(z, s, bad) \in {missed, unread, Aim!Reset(applied, s.busy, bad),
                                  Aim!Targeted(applied, s, bad), Aim!Untargeted(applied, s, bad)}
    BY DEF Aim!Armed
  <1>1. OffOn(z, z)
    BY DEF OffOn
  <1>2. OffOn(due, z)
    BY <1>1, OffFramed
  <1> HIDE DEF due
  <1>3. OffOn(stopped, z)
    BY <1>2, OffStopped DEF OffOn
  <1> HIDE DEF stopped
  <1>4. OffOn(asked, z)
    BY <1>3, OffRequested DEF OffOn
  <1> HIDE DEF asked
  <1>5. OffOn(applied, z)
    BY <1>4, OffApplied DEF OffOn
  <1> HIDE DEF applied
  <1>6. OffOn(u, z)
    BY <1>4, OffFramed
  <1> HIDE DEF u
  <1>7. OffIdle(missed, z)
    BY <1>6, OffFramed DEF OffIdle
  <1> HIDE DEF missed
  <1>8. OffOn(v, z) /\ v.walker = NoPlayer
    <2>1. OffOn(Aim!Unpublished(applied), z)
      BY <1>5, OffFramed
    <2> QED
      BY <2>1, OffRestored DEF OffBack, OffOn
  <1> HIDE DEF v
  <1>9. OffIdle(unread, z)
    BY <1>8, OffFramed DEF OffIdle
  <1> HIDE DEF unread
  <1>10. /\ OffEnded(Aim!Reset(applied, s.busy, bad), z)
         /\ OffIdle(Aim!Targeted(applied, s, bad), z) /\ OffIdle(Aim!Untargeted(applied, s, bad), z)
    <2>1. OffRecord(applied) /\ applied.making = z.making
      BY <1>5 DEF OffOn
    <2>2. /\ OffEnded(Aim!Reset(applied, s.busy, bad), applied)
          /\ OffIdle(Aim!Targeted(applied, s, bad), applied) /\ OffIdle(Aim!Untargeted(applied, s, bad), applied)
      BY <2>1, OffReset, OffTargeted, OffUntargeted
    <2> QED
      BY <2>1, <2>2 DEF OffEnded, OffIdle, OffOn
  <1> QED
    BY <1>0, <1>7, <1>9, <1>10

LEMMA OffUpdated ==
  ASSUME NEW z, OffRecord(z), NEW s, NEW bad
  PROVE  OffIdle(Aim!Updated(z, s, bad), z) \/ OffEnded(Aim!Updated(z, s, bad), z)
  <1> DEFINE p == Aim!Polled(z, "attack", bad)
             t == Aim!Updated(z, s, bad)
  <1>1. t \in {Aim!Reset(p, s.busy, bad), Aim!Unarmed(p, s.busy, bad), Aim!Paused(p, s.busy, bad), Aim!Armed(p, s, bad)}
    BY DEF Aim!Updated
  <1>2. OffRecord(p) /\ p.making = z.making
    <2>1. "attack" \in Aim!Calls
      BY DEF Aim!Calls
    <2> QED
      BY <2>1, OffPolled DEF OffSame, OffOn
  <1> HIDE DEF p, t
  <1>3. OffIdle(t, p) \/ OffEnded(t, p)
    BY <1>1, <1>2, OffReset, OffUnarmed, OffPaused, OffArmed
  <1>4. OffIdle(t, z) \/ OffEnded(t, z)
    BY <1>2, <1>3 DEF OffEnded, OffIdle, OffOn
  <1> QED
    BY <1>4 DEF t

\* What the game's thread makes leaves the frame, and what it has ended.
OffThread(t, z) ==
  /\ OffRecord(t) /\ t.frame = z.frame /\ t.walker = z.walker /\ t.weapon = z.weapon
  /\ t.published = z.published /\ t.pending = z.pending /\ t.requested = z.requested /\ t.caught = z.caught
  /\ t.making \in {z.making, Aim!NoRequest} \/ z.requested.fresh

LEMMA OffLater ==
  ASSUME NEW z, NEW t, OffGood(z), OffThread(t, z), OffReleased(z) => OffReleased(t) \/ t.caught
  PROVE  OffGood(t)
  BY DEF OffGood, OffThread, OffSettled

LEMMA OffDone ==
  ASSUME NEW z, OffRecord(z), NEW call \in Aim!Calls, Aim!Done(z, call)
  PROVE  /\ OffThread(state', z)
         /\ OffReleased(z) /\ (call # "release" \/ z.actor = NoPlayer) => OffReleased(state')
  <1> DEFINE a == [z.calls EXCEPT ![call] = "done"]
             b == z.strays \ {call}
             t == [z EXCEPT !.calls = a]
             u == [z EXCEPT !.strays = b]
  <1>1. state' \in {t, u}
    BY DEF Aim!Done
  <1>2. /\ a \in [Aim!Calls -> {"none", "queued", "done"}]
        /\ call # "release" => a["release"] = z.calls["release"]
        /\ call # "release" /\ "release" \in z.strays => "release" \in b
    BY DEF OffRecord
  <1> HIDE DEF a, b
  <1>3. OffThread(t, z) /\ t.calls = a /\ t.strays = z.strays /\ t.unsent = z.unsent /\ t.actor = z.actor
    BY <1>2 DEF OffThread, OffRecord, AimFields
  <1>4. OffThread(u, z) /\ u.calls = z.calls /\ u.strays = b /\ u.unsent = z.unsent /\ u.actor = z.actor
    BY DEF OffThread, OffRecord, AimFields
  <1> HIDE DEF t, u
  <1> QED
    BY <1>1, <1>2, <1>3, <1>4 DEF OffThread, OffReleased

LEMMA OffGameThread ==
  ASSUME OffGood(state), Aim!GameThread
  PROVE  OffGood(state')
  <1>0. OffRecord(state) /\ "prepare" \in Aim!Calls /\ "release" \in Aim!Calls /\ "attack" \in Aim!Calls
    BY DEF OffGood, Aim!Calls
  <1>1. CASE state.making = Aim!NoRequest /\ Aim!Begin
    <2> DEFINE t == [state EXCEPT !.making = state.requested]
               u == [state EXCEPT !.prepared = Aim!NoRequest]
    <2>1. (state.requested.fresh /\ state' = t) \/ Aim!Done(u, "prepare")
      BY <1>1 DEF Aim!Begin
    <2>2. state.requested.fresh => OffThread(t, state) /\ (OffReleased(state) => OffReleased(t))
      BY <1>0 DEF OffThread, OffRecord, OffReleased, AimFields
    <2>3. OffThread(u, state) /\ (OffReleased(state) => OffReleased(u))
      BY <1>0 DEF OffThread, OffRecord, OffReleased, AimFields
    <2> HIDE DEF t, u
    <2>4. CASE state.requested.fresh /\ state' = t
      BY <2>2, <2>4, OffLater
    <2>5. CASE Aim!Done(u, "prepare")
      <3>1. OffThread(state', u) /\ (OffReleased(u) => OffReleased(state'))
        BY <1>0, <2>3, <2>5, OffDone DEF OffThread
      <3>2. OffThread(state', state)
        BY <2>3, <3>1 DEF OffThread
      <3> QED
        BY <2>3, <3>1, <3>2, OffLater
    <2> QED
      BY <2>1, <2>4, <2>5
  <1>2. CASE Aim!Done(Aim!ReleaseAim(state), "release")
    <2> DEFINE f == IF state.actor # NoPlayer /\ state.actor = player
                    THEN [state.force EXCEPT ![player] = state.previous] ELSE state.force
               r == [state EXCEPT !.actor = NoPlayer, !.force = f]
    <2>1. Aim!Done(r, "release")
      BY <1>2 DEF Aim!ReleaseAim
    <2> HIDE DEF f
    <2>2. OffThread(r, state) /\ r.actor = NoPlayer
      BY <1>0 DEF OffThread, OffRecord, AimFields
    <2> HIDE DEF r
    <2>3. OffThread(state', r) /\ (OffReleased(r) => OffReleased(state'))
      BY <1>0, <2>1, <2>2, OffDone DEF OffThread
    <2>4. OffThread(state', state) /\ OffReleased(state')
      BY <2>2, <2>3 DEF OffThread, OffReleased
    <2> QED
      BY <2>4, OffLater
  <1>3. CASE Aim!Done(state, "attack")
    <2>1. OffThread(state', state) /\ (OffReleased(state) => OffReleased(state'))
      BY <1>0, <1>3, OffDone
    <2> QED
      BY <2>1, OffLater
  <1>4. ASSUME state.making # Aim!NoRequest, NEW found \in BOOLEAN, Aim!Prepare(found)
        PROVE  OffGood(state')
    <2> DEFINE want == state.making
               forced == IF want.automatic THEN Aim!ForceAim(state, want.who) ELSE Aim!ReleaseAim(state)
               ready == found /\ Aim!Same(want, state.requested)
               given == IF ready THEN want ELSE Aim!NoRequest
               t == [forced EXCEPT !.making = Aim!NoRequest, !.prepared = given]
    <2>1. Aim!Done(t, "prepare")
      BY <1>4 DEF Aim!Prepare
    <2>2. \E a, p, f : forced \in {[state EXCEPT !.actor = a, !.previous = p, !.force = f],
                                   [state EXCEPT !.actor = a, !.force = f]}
      BY DEF Aim!ForceAim, Aim!ReleaseAim
    <2> HIDE DEF forced, given
    <2>3. OffThread(forced, state)
      BY <1>0, <2>2 DEF OffThread, OffRecord, AimFields
    <2>4. OffThread(t, state)
      BY <2>3 DEF OffThread, OffRecord, AimFields
    <2> HIDE DEF t
    <2>5. OffThread(state', state)
      <3>1. OffThread(state', t)
        BY <1>0, <2>1, <2>4, OffDone DEF OffThread
      <3> QED
        BY <2>4, <3>1 DEF OffThread
    <2>6. state.frame = "settled" => state'.caught
      BY <1>4, <2>5 DEF OffGood, OffSettled, OffThread
    <2> QED
      BY <2>5, <2>6 DEF OffGood, OffThread, OffSettled
  <1> QED
    BY <1>1, <1>2, <1>3, <1>4 DEF Aim!GameThread

LEMMA OffStep == OffInv /\ [Aim!Next]_all => OffInv'
  <1> SUFFICES ASSUME OffGood(state), [Aim!Next]_all PROVE OffGood(state')
    BY DEF OffInv
  <1>0. OffRecord(state)
    BY DEF OffGood
  <1> DEFINE Kept == OffThread(state', state) /\ (OffReleased(state) => OffReleased(state'))
  <1>1. ASSUME Kept PROVE OffGood(state')
    BY <1>1, OffLater
  <1>2. ASSUME NEW w, state' = [state EXCEPT !.hand = w] PROVE OffGood(state')
    BY <1>0, <1>1, <1>2 DEF OffThread, OffRecord, OffReleased, AimFields
  <1>3. Aim!Live \/ Aim!Take => OffGood(state')
    BY <1>2 DEF Aim!Live, Aim!Take
  <1>4. Aim!Set => OffGood(state')
    <2> SUFFICES ASSUME NEW a, state' = [state EXCEPT !.options = a] PROVE OffGood(state')
      BY DEF Aim!Set
    <2> QED
      BY <1>0, <1>1 DEF OffThread, OffRecord, OffReleased, AimFields
  <1>5. Aim!Expire => OffGood(state')
    <2>1. CASE state.requested.fresh /\ state' = [state EXCEPT !.requested.fresh = FALSE]
      <3> DEFINE r == [state.requested EXCEPT !.fresh = FALSE]
      <3>1. state' = [state EXCEPT !.requested = r]
        BY <2>1
      <3> HIDE DEF r
      <3>2. OffRecord(state') /\ state'.frame = state.frame /\ state'.walker = state.walker
        BY <1>0, <3>1 DEF OffRecord, AimFields
      <3> QED
        BY <2>1, <3>2 DEF OffGood, OffSettled
    <2>2. CASE state' = [state EXCEPT !.prepared = Aim!NoRequest]
      BY <1>0, <1>1, <2>2 DEF OffThread, OffRecord, OffReleased, AimFields
    <2> QED
      BY <2>1, <2>2 DEF Aim!Expire
  <1>6. Aim!Frame => OffGood(state')
    <2> SUFFICES ASSUME NEW s, NEW bad,
                        state' = [Aim!Updated(state, s, bad) EXCEPT
                                    !.caught = state.making # Aim!NoRequest /\ Aim!Updated(state, s, bad).frame = "settled"]
                 PROVE OffGood(state')
      BY DEF Aim!Frame
    <2> DEFINE u == Aim!Updated(state, s, bad)
               caught == state.making # Aim!NoRequest /\ u.frame = "settled"
    <2>1. state' = [u EXCEPT !.caught = caught]
      OBVIOUS
    <2>2. OffIdle(u, state) \/ OffEnded(u, state)
      BY <1>0, OffUpdated
    <2>3. caught <=> state.making # Aim!NoRequest /\ u.frame = "settled"
      OBVIOUS
    <2> HIDE DEF u, caught
    <2>4. /\ OffRecord(state') /\ state'.caught = caught /\ state'.frame = u.frame /\ state'.walker = u.walker
          /\ state'.weapon = u.weapon /\ state'.published = u.published /\ state'.pending = u.pending
          /\ state'.requested = u.requested /\ state'.making = u.making
          /\ OffReleased(u) => OffReleased(state')
      BY <2>1, <2>2 DEF OffIdle, OffEnded, OffOn, OffRecord, OffReleased, AimFields
    <2> QED
      BY <2>2, <2>3, <2>4 DEF OffIdle, OffEnded, OffOn, OffGood, OffSettled
  <1>7. CASE UNCHANGED all
    BY <1>7 DEF all
  <1> QED
    BY <1>3, <1>4, <1>5, <1>6, <1>7, OffGameThread DEF Aim!Next

LEMMA OffKept == AimInv /\ OffInv => Aim!OffIsOff /\ Aim!StoppedForATarget
  <1> SUFFICES ASSUME AimInv, OffInv PROVE Aim!OffIsOff /\ Aim!StoppedForATarget
    OBVIOUS
  <1>1. Aim!OffIsOff
    BY DEF OffInv, OffGood, OffSettled, OffReleased, Aim!OffIsOff
  <1>2. Aim!StoppedForATarget
    BY PlayerAssumption, PersonAssumption DEF AimInv, AimGood, AimMoves, OffInv, OffGood, Aim!StoppedForATarget
  <1> QED
    BY <1>1, <1>2

-----------------------------------------------------------------------------
(* ItemDelivery: the report of a task follows what the world was given. *)

Item == INSTANCE ItemDelivery WITH item <- state, MaxRequests <- SomeRequests, MaxFaults <- FewFaults

ItemFields ==
  {"active", "stage", "call", "prepared", "destination", "requested", "created", "succeeded", "given",
   "struck", "late", "overwritten", "cooling", "passes", "refresh", "shown", "excused"}

ItemShape(i) ==
  /\ DOMAIN i = ItemFields
  /\ i.stage \in Item!Stages /\ i.call \in Item!Calls
  /\ {i.requested, i.created, i.given, i.struck} \subseteq Nat /\ i.passes \in Int
  /\ i.active \/ i.call = "none"
  /\ i.active => i.shown /\ i.requested > 0 /\ i.destination \in Item!Destinations

\* A pass that will draw the inventory again is to come.
ItemRefreshes(i) ==
  i.succeeded => i.shown \/ i.excused \/ (i.passes >= 1 /\ (i.refresh = "failed" => i.passes >= 2))

\* The item that is being made was given by the call that gives it.
ItemCounts(i) ==
  i.requested > 0 /\ ~i.overwritten =>
     /\ i.succeeded => i.given = i.requested + i.struck /\ i.created = i.requested /\ ~i.late
     /\ i.given - (i.created + i.struck) \in {0, 1}
     /\ i.late => i.given = i.created + i.struck /\ i.created < i.requested
     /\ i.active =>
        /\ ~i.succeeded /\ ~i.late /\ i.created < i.requested
        /\ i.stage \in {"Inventory", "Create", "Square"} => i.given = i.created + i.struck
        /\ Item!Gives(i.stage) /\ i.call \in {"none", "queued"} => i.given = i.created + i.struck
        /\ Item!Gives(i.stage) /\ i.call = "succeeded" => i.given = i.created + i.struck + 1
        /\ i.stage = "ValidateInventory" => i.given = i.created + i.struck + 1

ItemGood(i) == ItemShape(i) /\ ItemRefreshes(i) /\ ItemCounts(i)

ItemInv == ItemGood(state)

LEMMA ItemInit == Item!Init => ItemInv
  BY DEF Item!Init, Item!NoTask, ItemInv, ItemGood, ItemShape, ItemRefreshes, ItemCounts, ItemFields, Item!Stages, Item!Calls

LEMMA ItemFailed ==
  ASSUME NEW i, ItemGood(i)
  PROVE  /\ ItemGood(Item!FailLocalSpawnTask(i))
         /\ i.active /\ i.call = "queued" => ItemGood(Item!TimedOut(i))
  <1>0. DOMAIN i = ItemFields
    BY DEF ItemGood, ItemShape
  <1>1. ItemGood(Item!FailLocalSpawnTask(i))
    BY <1>0 DEF Item!FailLocalSpawnTask, ItemGood, ItemShape, ItemRefreshes, ItemCounts, ItemFields, Item!Calls
  <1>2. ASSUME i.active, i.call = "queued" PROVE ItemGood(Item!TimedOut(i))
    <2> DEFINE late == Item!Gives(i.stage)
               t == [i EXCEPT !.active = FALSE, !.call = "none", !.succeeded = FALSE, !.late = late]
    <2>1. Item!TimedOut(i) = t
      BY <1>0 DEF Item!TimedOut, Item!FailLocalSpawnTask, ItemFields
    <2>2. i.requested > 0 /\ ~i.overwritten /\ late =>
            i.given = i.created + i.struck /\ i.created < i.requested
      BY <1>2 DEF ItemGood, ItemCounts
    <2> HIDE DEF late
    <2>3. ItemGood(t)
      BY <1>0, <2>2 DEF ItemGood, ItemShape, ItemRefreshes, ItemCounts, ItemFields, Item!Calls
    <2> QED
      BY <2>1, <2>3
  <1> QED
    BY <1>1, <1>2

\* The call of a stage ran: whether it gave an item is known when it succeeded.
LEMMA ItemRan ==
  ASSUME NEW i, ItemGood(i), i.call = "queued"
  PROVE  /\ ItemGood([i EXCEPT !.call = "failed"])
         /\ Item!Gives(i.stage) => /\ ItemGood([Item!Given(i) EXCEPT !.call = "failed"])
                                   /\ ItemGood([Item!Given(i) EXCEPT !.call = "succeeded"])
         /\ ~Item!Gives(i.stage) => ItemGood([i EXCEPT !.call = "succeeded"])
  <1>0. DOMAIN i = ItemFields /\ i.active
    BY DEF ItemGood, ItemShape
  <1>1. ItemGood([i EXCEPT !.call = "failed"])
    BY <1>0 DEF ItemGood, ItemShape, ItemRefreshes, ItemCounts, ItemFields, Item!Calls
  <1>2. ASSUME ~Item!Gives(i.stage) PROVE ItemGood([i EXCEPT !.call = "succeeded"])
    BY <1>0, <1>2 DEF ItemGood, ItemShape, ItemRefreshes, ItemCounts, ItemFields, Item!Calls
  <1>3. ASSUME Item!Gives(i.stage), NEW call \in {"failed", "succeeded"}
        PROVE  ItemGood([Item!Given(i) EXCEPT !.call = call])
    <2> DEFINE given == i.given + 1
    <2>1. Item!Given(i) = [i EXCEPT !.given = given]
      BY DEF Item!Given
    <2>2. given \in Nat /\ (i.requested > 0 /\ ~i.overwritten => given = i.created + i.struck + 1)
      BY <1>0, <1>3 DEF ItemGood, ItemShape, ItemCounts
    <2> HIDE DEF given
    <2> DEFINE t == [i EXCEPT !.given = given, !.call = call]
    <2>3. [Item!Given(i) EXCEPT !.call = call] = t
      BY <1>0, <2>1 DEF ItemFields
    <2>4. /\ DOMAIN t = ItemFields /\ t.given = given /\ t.call = call /\ t.stage = i.stage /\ t.requested = i.requested
          /\ t.created = i.created /\ t.succeeded = i.succeeded /\ t.late = i.late /\ t.struck = i.struck /\ t.overwritten = i.overwritten
          /\ t.active = i.active /\ t.passes = i.passes /\ t.refresh = i.refresh /\ t.shown = i.shown /\ t.excused = i.excused /\ t.destination = i.destination
      BY <1>0 DEF ItemFields
    <2> HIDE DEF t
    <2>5. ItemShape(t) /\ ItemRefreshes(t)
      BY <1>0, <1>3, <2>2, <2>4 DEF ItemGood, ItemShape, ItemRefreshes, Item!Calls
    <2>6. ItemCounts(t)
      BY <1>0, <1>3, <2>2, <2>4 DEF ItemGood, ItemShape, ItemCounts, Item!Gives
    <2> QED
      BY <2>3, <2>5, <2>6 DEF ItemGood
  <1> QED
    BY <1>1, <1>2, <1>3

\* What follows a call that succeeded: the next stage, the next item or the end.
LEMMA ItemProceeded ==
  ASSUME NEW i, ItemGood(i), i.active, i.call = "succeeded"
  PROVE  ItemGood(Item!Proceeded(i))
  <1>0. DOMAIN i = ItemFields
    BY DEF ItemGood, ItemShape
  <1>1. Item!FirstStage(i) \in {"Create", "AddDirectToInventory", "SpawnGround"}
    BY DEF Item!FirstStage
  <1>2. CASE ~Item!Finishes(i)
    <2> DEFINE stage == Item!NextStage(i)
    <2>1. Item!Proceeded(i) = [i EXCEPT !.call = "none", !.stage = stage]
      BY <1>2 DEF Item!Proceeded
    <2>2. /\ stage \in Item!Stages
          /\ i.stage # "AddDirectToInventory" => stage # "ValidateInventory"
          /\ i.stage = "AddDirectToInventory" => stage = "ValidateInventory"
      BY <1>1, <1>2 DEF Item!NextStage, Item!Finishes, ItemGood, ItemShape, Item!Stages
    <2> HIDE DEF stage
    <2>3. ItemGood([i EXCEPT !.call = "none", !.stage = stage])
      BY <1>0, <1>2, <2>2 DEF ItemGood, ItemShape, ItemRefreshes, ItemCounts, ItemFields, Item!Calls, Item!Stages, Item!Gives, Item!Finishes
    <2> QED
      BY <2>1, <2>3
  <1>3. CASE Item!Finishes(i)
    <2> DEFINE n == i.created + 1
               j == [i EXCEPT !.call = "none", !.created = n]
    <2>1. Item!Proceeded(i) = IF Item!Last(j) THEN Item!Completed(j) ELSE [j EXCEPT !.stage = Item!FirstStage(j)]
      BY <1>3 DEF Item!Proceeded, Item!FinishLocalSpawnItem
    <2>2. /\ DOMAIN j = ItemFields /\ j.call = "none" /\ j.created = n /\ j.stage = i.stage /\ j.requested = i.requested
          /\ j.given = i.given /\ j.succeeded = i.succeeded /\ j.late = i.late /\ j.struck = i.struck /\ j.overwritten = i.overwritten
          /\ j.active = i.active /\ j.passes = i.passes /\ j.refresh = i.refresh /\ j.shown = i.shown /\ j.excused = i.excused
          /\ j.prepared = i.prepared /\ j.destination = i.destination
      BY <1>0 DEF ItemFields
    <2>3. /\ {i.requested, i.given, i.struck, n} \subseteq Nat /\ i.requested > 0 /\ i.shown
          /\ ~i.overwritten => i.given = n + i.struck /\ n <= i.requested /\ ~i.succeeded /\ ~i.late
      BY <1>3 DEF ItemGood, ItemShape, ItemCounts, Item!Finishes, Item!Gives
    <2> HIDE DEF n, j
    <2>4. CASE Item!Last(j)
      <3> DEFINE passes == IF j.destination = "Backpack" THEN 4 ELSE 0
                 shown == j.destination = "Ground"
                 t == [j EXCEPT !.active = FALSE, !.succeeded = TRUE, !.shown = shown, !.excused = FALSE, !.passes = passes]
      <3>1. Item!Completed(j) = t
        BY DEF Item!Completed, Item!RefreshPasses
      <3>2. passes \in Int /\ (shown \/ passes = 4)
        BY <2>2 DEF ItemGood, ItemShape, Item!Destinations
      <3> HIDE DEF passes, shown
      <3>3. ItemGood(t)
        BY <2>2, <2>3, <2>4, <3>2 DEF Item!Last, ItemGood, ItemShape, ItemRefreshes, ItemCounts, ItemFields, Item!Calls
      <3> QED
        BY <2>1, <2>4, <3>1, <3>3
    <2>5. CASE ~Item!Last(j)
      <3> DEFINE stage == Item!FirstStage(j)
      <3>1. stage \in {"Create", "AddDirectToInventory", "SpawnGround"}
        BY DEF Item!FirstStage
      <3> HIDE DEF stage
      <3> DEFINE t == [j EXCEPT !.stage = stage]
      <3>2. /\ DOMAIN t = ItemFields /\ t.call = "none" /\ t.created = n /\ t.stage = stage /\ t.requested = i.requested
            /\ t.given = i.given /\ t.succeeded = i.succeeded /\ t.late = i.late /\ t.struck = i.struck /\ t.overwritten = i.overwritten
            /\ t.active = i.active /\ t.passes = i.passes /\ t.refresh = i.refresh /\ t.shown = i.shown
            /\ t.excused = i.excused /\ t.destination = i.destination
        BY <2>2 DEF ItemFields
      <3> HIDE DEF t
      <3>3. ItemShape(t) /\ ItemRefreshes(t)
        BY <2>3, <3>1, <3>2 DEF ItemGood, ItemShape, ItemRefreshes, Item!Calls, Item!Stages
      <3>4. ~i.overwritten => n < i.requested
        BY <2>2, <2>3, <2>5 DEF Item!Last
      <3>5. ItemCounts(t)
        BY <2>3, <3>1, <3>2, <3>4 DEF ItemCounts, Item!Gives
      <3> QED
        BY <2>1, <2>5, <3>3, <3>5 DEF stage, t, ItemGood
    <2> QED
      BY <2>4, <2>5
  <1> QED
    BY <1>2, <1>3

\* A frame that advances the task.
LEMMA ItemAdvanced ==
  ASSUME NEW i, ItemGood(i)
  PROVE  ItemGood(Item!Advanced(i))
  <1>0. DOMAIN i = ItemFields
    BY DEF ItemGood, ItemShape
  <1>1. CASE i.active /\ i.call = "none"
    <2>1. Item!Advanced(i) = [i EXCEPT !.call = "queued"]
      BY <1>1 DEF Item!Advanced
    <2> QED
      BY <1>0, <1>1, <2>1 DEF ItemGood, ItemShape, ItemRefreshes, ItemCounts, ItemFields, Item!Calls
  <1>2. CASE i.active /\ i.call = "succeeded"
    BY <1>2, ItemProceeded DEF Item!Advanced
  <1>3. CASE i.active /\ i.call = "failed"
    BY <1>3, ItemFailed DEF Item!Advanced
  <1>4. CASE ~i.active \/ i.call \notin {"none", "succeeded", "failed"}
    BY <1>4 DEF Item!Advanced
  <1> QED
    BY <1>1, <1>2, <1>3, <1>4

\* A pass of the refresh, which leaves the task alone.
LEMMA ItemRefreshed ==
  ASSUME NEW i, ItemGood(i)
  PROVE  ItemGood(Item!Refreshed(i))
  <1>0. DOMAIN i = ItemFields /\ i.passes \in Int
    BY DEF ItemGood, ItemShape
  <1> DEFINE passes == i.passes - 1
             shown == i.shown \/ i.refresh = "succeeded"
  <1>1. passes \in Int /\ passes = i.passes - 1 /\ (i.shown \/ i.refresh = "succeeded" => shown)
    BY <1>0
  <1> HIDE DEF passes, shown
  <1>2. CASE i.refresh \in {"succeeded", "failed"}
    <2>1. Item!Refreshed(i) = [i EXCEPT !.refresh = "none", !.passes = passes, !.shown = shown]
      BY <1>2 DEF Item!Refreshed, passes, shown
    <2> QED
      BY <1>0, <1>1, <1>2, <2>1 DEF ItemGood, ItemShape, ItemRefreshes, ItemCounts, ItemFields
  <1>3. ItemGood([i EXCEPT !.passes = passes, !.excused = TRUE])
    BY <1>0, <1>1 DEF ItemGood, ItemShape, ItemRefreshes, ItemCounts, ItemFields
  <1>4. ASSUME i.refresh = "none" PROVE ItemGood([i EXCEPT !.refresh = "queued"])
    BY <1>0, <1>4 DEF ItemGood, ItemShape, ItemRefreshes, ItemCounts, ItemFields
  <1>5. CASE i.refresh \notin {"succeeded", "failed"}
    <2>1. \/ Item!Refreshed(i) = i
          \/ i.refresh = "none" /\ Item!Refreshed(i) = [i EXCEPT !.refresh = "queued"]
          \/ Item!Refreshed(i) = [i EXCEPT !.passes = passes, !.excused = TRUE]
      BY <1>5 DEF Item!Refreshed, passes
    <2> QED
      BY <1>3, <1>4, <2>1
  <1> QED
    BY <1>2, <1>5

\* A request that a payload bridge answers at once.
LEMMA ItemAnswered ==
  ASSUME NEW i, ItemGood(i), ~i.active, i.shown, i.requested = 0, NEW quantity, NEW accepted \in Nat,
         NEW overwritten
  PROVE  ItemGood([Item!Answered(i, quantity, accepted) EXCEPT !.overwritten = overwritten])
         /\ ItemGood(Item!Answered(i, quantity, accepted))
  <1> DEFINE succeeded == accepted = quantity
             t == [i EXCEPT !.created = accepted, !.succeeded = succeeded, !.cooling = TRUE]
  <1>0. DOMAIN i = ItemFields
    BY DEF ItemGood, ItemShape
  <1>1. Item!Answered(i, quantity, accepted) = t
    BY DEF Item!Answered
  <1> HIDE DEF succeeded
  <1>2. ItemGood(t) /\ ItemGood([t EXCEPT !.overwritten = overwritten])
    BY <1>0 DEF ItemGood, ItemShape, ItemRefreshes, ItemCounts, ItemFields
  <1> QED
    BY <1>1, <1>2

LEMMA ItemReset ==
  ASSUME NEW i, ItemGood(i), ~i.active
  PROVE  LET r == Item!Reset(i) IN
         /\ DOMAIN r = ItemFields /\ r.stage \in Item!Stages /\ r.call = "none" /\ r.passes \in Int /\ r.requested = 0
         /\ ~r.active /\ r.shown = TRUE /\ r.given = 0 /\ r.created = 0 /\ r.struck = 0 /\ r.succeeded = FALSE /\ r.late = FALSE
         /\ ItemGood(r)
  BY DEF Item!Reset, ItemGood, ItemShape, ItemRefreshes, ItemCounts, ItemFields, Item!Calls

\* A delivery under way counts from zero again, or another request takes its report.
LEMMA ItemStruck ==
  ASSUME NEW i, ItemGood(i), i.active, NEW quantity \in Nat, quantity > 0, NEW n \in Nat,
         NEW overwritten, overwritten <=> i.overwritten \/ n > 0
  PROVE  /\ ItemGood(Item!Struck(i))
         /\ ItemGood([Item!Answered(Item!Struck(i), quantity, n) EXCEPT !.overwritten = overwritten])
  <1>0. DOMAIN i = ItemFields
    BY DEF ItemGood, ItemShape
  <1> DEFINE struck == i.struck + i.created
             succeeded == n = quantity
             s == [i EXCEPT !.created = 0, !.succeeded = FALSE, !.struck = struck]
             t == [s EXCEPT !.created = n, !.succeeded = succeeded, !.cooling = TRUE, !.overwritten = overwritten]
  <1>1. Item!Struck(i) = s
    BY DEF Item!Struck
  <1>2. [Item!Answered(s, quantity, n) EXCEPT !.overwritten = overwritten] = t
    BY <1>0 DEF Item!Answered, ItemFields
  <1>3. struck \in Nat /\ struck = i.struck + i.created /\ (n = 0 => succeeded = FALSE)
    BY DEF ItemGood, ItemShape
  <1> HIDE DEF struck, succeeded
  <1>4. ItemGood(s)
    BY <1>0, <1>3 DEF ItemGood, ItemShape, ItemRefreshes, ItemCounts, ItemFields
  <1>5. /\ DOMAIN t = ItemFields /\ t.call = s.call /\ t.created = n /\ t.stage = s.stage /\ t.requested = s.requested
        /\ t.given = s.given /\ t.struck = s.struck /\ t.succeeded = succeeded /\ t.late = s.late
        /\ t.overwritten = overwritten /\ t.active = s.active /\ t.passes = s.passes /\ t.refresh = s.refresh
        /\ t.shown = s.shown /\ t.excused = s.excused /\ t.destination = s.destination
        /\ s.active /\ s.created = 0 /\ (s.overwritten <=> i.overwritten)
    BY <1>0 DEF ItemFields
  <1> HIDE DEF s, t
  <1>6. ItemShape(t) /\ ItemRefreshes(t)
    BY <1>4, <1>5 DEF ItemGood, ItemShape, ItemRefreshes
  <1>7. ItemCounts(t)
    <2>1. CASE overwritten
      BY <1>5, <2>1 DEF ItemCounts
    <2>2. CASE ~overwritten
      <3>1. n = 0 /\ ~s.overwritten
        BY <1>5, <2>2
      <3> QED
        BY <1>3, <1>4, <1>5, <3>1 DEF ItemGood, ItemCounts
    <2> QED
      BY <2>1, <2>2
  <1> QED
    BY <1>1, <1>2, <1>4, <1>6, <1>7 DEF ItemGood

LEMMA ItemStep == ItemInv /\ [Item!Next]_all => ItemInv'
  <1> SUFFICES ASSUME ItemGood(state), [Item!Next]_all PROVE ItemGood(state')
    BY DEF ItemInv, ItemGood, ItemShape, ItemRefreshes, ItemCounts, ItemFields, Item!Stages, Item!Calls, Item!Destinations, Item!Gives
  <1>0. DOMAIN state = ItemFields
    BY DEF ItemGood, ItemShape
  <1>1. CASE Item!Live
    BY <1>0, <1>1 DEF Item!Live, ItemGood, ItemShape, ItemRefreshes, ItemCounts, ItemFields
  <1>2. CASE Item!Runs
    <2> DEFINE done == IF Item!Gives(state.stage) THEN Item!Given(state) ELSE state
    <2>1. \/ state' = [done EXCEPT !.call = "succeeded"]
          \/ \E i \in {state, done} : state' = [i EXCEPT !.call = "failed"]
      BY <1>2 DEF Item!Runs
    <2>2. state.call = "queued"
      BY <1>2 DEF Item!Runs
    <2>3. ItemGood([done EXCEPT !.call = "succeeded"]) /\ ItemGood([done EXCEPT !.call = "failed"])
          /\ ItemGood([state EXCEPT !.call = "failed"])
      BY <2>2, ItemRan
    <2> QED
      BY <2>1, <2>3
  <1>3. CASE Item!RunsLate
    <2> DEFINE i == [state EXCEPT !.late = FALSE]
    <2>1. state.late /\ state' = Item!Given(i)
      BY <1>3 DEF Item!RunsLate
    <2> DEFINE given == state.given + 1
    <2>2. state' = [state EXCEPT !.late = FALSE, !.given = given]
      BY <1>0, <2>1 DEF Item!Given, ItemFields
    <2>4. given \in Nat /\ (state.requested > 0 /\ ~state.overwritten => given = state.created + state.struck + 1)
      BY <2>1 DEF ItemGood, ItemShape, ItemCounts
    <2> HIDE DEF given
    <2> DEFINE t == [state EXCEPT !.late = FALSE, !.given = given]
    <2>5. /\ DOMAIN t = ItemFields /\ t.call = state.call /\ t.created = state.created /\ t.stage = state.stage
          /\ t.requested = state.requested /\ t.given = given /\ t.succeeded = state.succeeded /\ t.late = FALSE
          /\ t.struck = state.struck /\ t.overwritten = state.overwritten /\ t.active = state.active /\ t.passes = state.passes
          /\ t.refresh = state.refresh /\ t.shown = state.shown /\ t.excused = state.excused /\ t.destination = state.destination
      BY <1>0 DEF ItemFields
    <2> HIDE DEF t
    <2>6. ItemShape(t) /\ ItemRefreshes(t)
      BY <2>4, <2>5 DEF ItemGood, ItemShape, ItemRefreshes
    <2>7. ItemCounts(t)
      BY <2>1, <2>4, <2>5 DEF ItemGood, ItemShape, ItemCounts
    <2> QED
      BY <2>2, <2>6, <2>7 DEF t, ItemGood
  <1>4. CASE Item!RunsRefresh
    <2>1. \/ state' = [state EXCEPT !.refresh = "succeeded"]
          \/ state' = [state EXCEPT !.refresh = "failed", !.excused = TRUE]
      BY <1>4 DEF Item!RunsRefresh
    <2>2. ItemGood([state EXCEPT !.refresh = "succeeded"])
      BY <1>0 DEF ItemGood, ItemShape, ItemRefreshes, ItemCounts, ItemFields
    <2>3. ItemGood([state EXCEPT !.refresh = "failed", !.excused = TRUE])
      BY <1>0 DEF ItemGood, ItemShape, ItemRefreshes, ItemCounts, ItemFields
    <2> QED
      BY <2>1, <2>2, <2>3
  <1>5. CASE Item!CoolDown
    BY <1>0, <1>5 DEF Item!CoolDown, ItemGood, ItemShape, ItemRefreshes, ItemCounts, ItemFields
  <1>6. CASE Item!UpdateItemBridge
    <2> DEFINE i == Item!Advanced(state)
    <2>1. ItemGood(i)
      BY ItemAdvanced
    <2>2. \/ state' \in {i, Item!Refreshed(i)}
          \/ state.active /\ state' = Item!Disturbed(state)
          \/ state' = [i EXCEPT !.refresh = "failed", !.excused = TRUE]
      BY <1>6 DEF Item!UpdateItemBridge
    <2> HIDE DEF i
    <2>3. ItemGood(Item!Refreshed(i))
      BY <2>1, ItemRefreshed
    <2>4. ItemGood([i EXCEPT !.refresh = "failed", !.excused = TRUE])
      BY <2>1 DEF ItemGood, ItemShape, ItemRefreshes, ItemCounts, ItemFields
    <2>5. ASSUME state.active PROVE ItemGood(Item!Disturbed(state))
      BY <2>5, ItemFailed DEF Item!Disturbed
    <2> QED
      BY <2>1, <2>2, <2>3, <2>4, <2>5
  <1> DEFINE r == Item!Reset(state)
  <1>7. ASSUME NEW quantity \in 1 .. MaxQuantity, NEW destination \in Item!Destinations, NEW prepared \in BOOLEAN,
               Item!SpawnLocally(quantity, destination, prepared)
        PROVE  ItemGood(state')
    <2>1. ~state.active
      BY <1>7 DEF Item!SpawnLocally, Item!Reported
    <2>2. /\ DOMAIN r = ItemFields /\ r.stage \in Item!Stages /\ r.call = "none" /\ r.passes \in Int /\ r.requested = 0
          /\ ~r.active /\ r.shown = TRUE /\ r.given = 0 /\ r.created = 0 /\ r.struck = 0 /\ r.succeeded = FALSE /\ r.late = FALSE
          /\ ItemGood(r)
      BY <2>1, ItemReset
    <2>3. state' = [r EXCEPT !.active = TRUE, !.call = "none", !.stage = "Inventory",
                     !.prepared = prepared, !.destination = destination, !.requested = quantity]
      BY <1>7 DEF Item!SpawnLocally
    <2> HIDE DEF r
    <2> DEFINE t == [r EXCEPT !.active = TRUE, !.call = "none", !.stage = "Inventory",
                     !.prepared = prepared, !.destination = destination, !.requested = quantity]
    <2>4. /\ DOMAIN t = ItemFields /\ t.call = "none" /\ t.created = 0 /\ t.stage = "Inventory" /\ t.requested = quantity
          /\ t.given = 0 /\ t.struck = 0 /\ t.succeeded = FALSE /\ t.late = FALSE /\ t.passes = r.passes /\ t.shown = TRUE
          /\ t.destination = destination
      BY <2>2 DEF ItemFields
    <2>5. quantity \in Nat /\ quantity > 0
      BY DeliveryAssumption
    <2> HIDE DEF t
    <2>6. ItemShape(t) /\ ItemRefreshes(t)
      BY <2>2, <2>4, <2>5 DEF ItemShape, ItemRefreshes, Item!Stages, Item!Calls
    <2>7. ItemCounts(t)
      BY <2>4, <2>5 DEF ItemCounts, Item!Gives
    <2> QED
      BY <2>2, <2>3, <2>6, <2>7 DEF t, ItemGood
  <1>8. ASSUME ~state.active PROVE ItemGood(r) /\ ~r.active /\ r.shown /\ r.requested = 0
    <2> HIDE DEF r
    <2>1. r = Item!Reset(state)
      BY DEF r
    <2> QED
      BY <1>8, <2>1, ItemReset
  <1>12. CASE Item!Refuse
    BY <1>8, <1>12 DEF Item!Refuse, Item!Reported
  <1>13. ASSUME NEW quantity \in 1 .. MaxQuantity
         PROVE  quantity \in Nat /\ quantity > 0 /\ Item!Acceptable(quantity) \subseteq Nat
    BY DeliveryAssumption DEF Item!Acceptable
  <1>9. ASSUME NEW quantity \in 1 .. MaxQuantity, Item!SpawnOnline(quantity) PROVE ItemGood(state')
    <2>1. ~state.active
      BY <1>9 DEF Item!SpawnOnline, Item!Reported
    <2>2. PICK n \in Item!Acceptable(quantity) : state' = Item!Answered(r, quantity, n)
      BY <1>9 DEF Item!SpawnOnline
    <2>3. ItemGood(r) /\ ~r.active /\ r.shown /\ r.requested = 0
      BY <1>8, <2>1
    <2> HIDE DEF r
    <2>4. n \in Nat
      BY <1>13
    <2> QED
      BY <2>2, <2>3, <2>4, ItemAnswered
  <1>10. ASSUME NEW quantity \in 1 .. MaxQuantity, Item!SpawnCorpsePayloadBatch(quantity) PROVE ItemGood(state')
    <2> DEFINE i == IF state.active THEN Item!Struck(state) ELSE r
               Batched(n) == [Item!Answered(i, quantity, n) EXCEPT !.overwritten = state.active /\ (@ \/ n > 0)]
    <2>1. state' = i \/ \E n \in Item!Acceptable(quantity) : state' = Batched(n)
      BY <1>10 DEF Item!SpawnCorpsePayloadBatch
    <2>2. quantity \in Nat /\ quantity > 0 /\ Item!Acceptable(quantity) \subseteq Nat
      BY <1>13
    <2>3. CASE ~state.active
      <3>1. ItemGood(r) /\ ~r.active /\ r.shown /\ r.requested = 0
        BY <1>8, <2>3
      <3>2. i = r
        BY <2>3
      <3> HIDE DEF r, i
      <3>3. ASSUME NEW n \in Nat PROVE ItemGood(Batched(n))
        <4> DEFINE a == Item!Answered(r, quantity, n)
                   overwritten == state.active /\ (a.overwritten \/ n > 0)
        <4>1. Batched(n) = [a EXCEPT !.overwritten = overwritten]
          BY <3>2
        <4> HIDE DEF overwritten
        <4> QED
          BY <3>1, <4>1, ItemAnswered
      <3> HIDE DEF Batched
      <3> QED
        BY <2>1, <2>2, <3>1, <3>2, <3>3
    <2>4. CASE state.active
      <3> HIDE DEF r
      <3>2. i = Item!Struck(state)
        BY <2>4
      <3>4. ItemGood(i)
        <4>1. \E overwritten : overwritten <=> state.overwritten \/ 0 > 0
          OBVIOUS
        <4> QED
          BY <2>2, <2>4, <3>2, <4>1, ItemStruck
      <3> HIDE DEF i
      <3>3. ASSUME NEW n \in Nat PROVE ItemGood(Batched(n))
        <4> DEFINE a == Item!Answered(i, quantity, n)
                   overwritten == state.active /\ (a.overwritten \/ n > 0)
        <4>1. Batched(n) = [a EXCEPT !.overwritten = overwritten]
          OBVIOUS
        <4>2. a.overwritten = state.overwritten
          BY <1>0, <3>2 DEF Item!Answered, Item!Struck, ItemFields
        <4>3. overwritten <=> state.overwritten \/ n > 0
          BY <2>4, <4>2
        <4> HIDE DEF overwritten
        <4> QED
          BY <2>2, <2>4, <3>2, <4>1, <4>3, ItemStruck
      <3> HIDE DEF Batched
      <3> QED
        BY <2>1, <2>2, <3>3, <3>4
    <2> QED
      BY <2>3, <2>4
  <1>11. CASE UNCHANGED all
    BY <1>11 DEF all
  <1> QED
    BY <1>1, <1>2, <1>3, <1>4, <1>5, <1>6, <1>7, <1>9, <1>10, <1>11, <1>12 DEF Item!Next

LEMMA ItemKept == ItemInv => Item!SuccessIsWhole /\ Item!ReportIsShortOfOne /\ Item!InventoryIsShown
  BY DEF ItemInv, ItemGood, ItemShape, ItemRefreshes, ItemCounts,
         Item!IsReported, Item!SuccessIsWhole, Item!ReportIsShortOfOne, Item!InventoryIsShown

-----------------------------------------------------------------------------
(* CarrierTransfer: what was counted, what came, and what the inventory held. *)

Transfer == INSTANCE CarrierTransfer WITH transfer <- state, MaxRequests <- SomeRequests, MaxFaults <- FewFaults

TransferFields ==
  {"kind", "phase", "step", "call", "requested", "completed", "base", "answer", "near", "loaded",
   "taking", "held", "arrived", "gained", "late", "strayed", "done"}

\* What came into the inventory since the request.
Came(t) == t.arrived + t.gained

\* The game has been asked to take the item out.
Later(t) ==
  \/ t.phase = "WaitForItem"
  \/ t.phase = "Calling" /\ t.step = "CountAfter"
  \/ t.phase = "Calling" /\ t.step = "SendRemove" /\ t.call \in {"yes", "failed"}

\* The items that were not here when they were last counted came since, and are not counted yet.
TransferCounts(t) ==
  /\ t.completed <= Came(t)
  /\ t.phase = "Calling" /\ t.step \in {"FindCarrier", "CountBefore"} => t.completed = 0
  /\ t.phase = "Calling" /\ t.step = "CountBefore" /\ t.call = "yes" => t.held <= t.answer + Came(t)
  /\ t.phase \in {"WaitBeforeRemove", "WaitForItem"} => t.completed + t.held <= t.base + Came(t)
  /\ t.phase = "Calling" /\ t.step \in {"SendState", "SendRemove", "CountAfter"} =>
       t.completed + t.held <= t.base + Came(t)
  /\ t.phase = "Calling" /\ t.step = "CountAfter" /\ t.call = "yes" /\ t.answer > t.base =>
       t.completed + 1 + t.held <= t.answer + Came(t) /\ t.completed + 1 <= Came(t)

\* Of a request that nothing interferes with, the item is in the carrier, asked for, or here.
TransferPlaces(t) ==
  /\ t.done => t.phase = "Idle" /\ ~t.loaded /\ ~t.taking
  /\ t.phase # "Idle" =>
       /\ t.arrived \in {t.completed, t.completed + 1}
       /\ t.taking => t.arrived = t.completed /\ Later(t)
       /\ t.arrived = t.completed + 1 => ~t.loaded /\ ~t.taking /\ Later(t)

TransferShape(t) ==
  /\ DOMAIN t = TransferFields
  /\ {t.completed, t.base, t.answer, t.held, t.arrived, t.gained} \subseteq Int
  /\ t.held >= 0 /\ t.gained >= 0
  /\ t.phase \in Transfer!Phases
  /\ t.phase # "Calling" => t.call = "none"
  /\ t.phase = "Calling" =>
       t.call # "none" /\ t.step \in {"FindCarrier", "CountBefore", "SendState", "SendRemove", "CountAfter"}

TransferGood(t) ==
  TransferShape(t) /\ TransferCounts(t) /\ (t.gained > 0 \/ t.strayed \/ TransferPlaces(t))

TransferInv == TransferGood(state)

LEMMA TransferInit == Transfer!Init => TransferInv
  BY DEF Transfer!Init, Transfer!Nothing, TransferInv, TransferGood, TransferShape, TransferCounts,
         TransferPlaces, TransferFields, Transfer!Phases, Came

LEMMA TransferReset ==
  ASSUME NEW t, TransferGood(t)
  PROVE  TransferGood(Transfer!Reset(t)) /\ DOMAIN Transfer!Reset(t) = TransferFields
  <1> DEFINE late == IF t.call = "queued" THEN t.step ELSE t.late
  <1>1. Transfer!Reset(t) = [t EXCEPT !.phase = "Idle", !.step = "None", !.call = "none", !.late = late]
    BY DEF Transfer!Reset
  <1> HIDE DEF late
  <1> QED
    BY <1>1 DEF TransferGood, TransferShape, TransferCounts, TransferPlaces, TransferFields,
                Transfer!Phases, Came, Later

\* A call that runs answers truly, and the item is asked for after it was put into the carrier.
LEMMA TransferRan ==
  ASSUME NEW t, TransferGood(t), t.call = "queued", t.phase = "Calling"
  PROVE  TransferGood(Transfer!Ran(t, t.step))
         /\ TransferGood([Transfer!Ran(t, t.step) EXCEPT !.call = "failed"])
  <1>0. DOMAIN t = TransferFields
    BY DEF TransferGood, TransferShape
  <1>1. ASSUME NEW call \in {"yes", "no", "failed"}, t.step = "CountBefore" \/ t.step = "CountAfter"
        PROVE  TransferGood([t EXCEPT !.answer = t.held, !.call = call])
    BY <1>0, <1>1 DEF TransferGood, TransferShape, TransferCounts, TransferPlaces, TransferFields,
                Transfer!Phases, Came, Later
  <1>2. ASSUME NEW call \in {"yes", "no", "failed"}, t.step # "CountBefore", t.step # "CountAfter"
        PROVE  TransferGood([t EXCEPT !.call = call])
    BY <1>0, <1>2 DEF TransferGood, TransferShape, TransferCounts, TransferPlaces, TransferFields,
                Transfer!Phases, Came, Later
  <1>3. ASSUME NEW call \in {"yes", "no", "failed"}, t.step = "SendState"
        PROVE  TransferGood([t EXCEPT !.loaded = TRUE, !.call = call])
    BY <1>0, <1>3 DEF TransferGood, TransferShape, TransferCounts, TransferPlaces, TransferFields,
                Transfer!Phases, Came, Later
  <1>4. ASSUME NEW call \in {"yes", "failed"}, t.step = "SendRemove"
        PROVE  TransferGood([t EXCEPT !.taking = TRUE, !.call = call])
    BY <1>0, <1>4 DEF TransferGood, TransferShape, TransferCounts, TransferPlaces, TransferFields,
                Transfer!Phases, Came, Later
  <1>5. ASSUME NEW r, DOMAIN r = TransferFields, NEW yes \in BOOLEAN
        PROVE  /\ Transfer!Told(r, yes) = [r EXCEPT !.call = IF yes THEN "yes" ELSE "no"]
               /\ [Transfer!Told(r, yes) EXCEPT !.call = "failed"] = [r EXCEPT !.call = "failed"]
    <2> DEFINE call == IF yes THEN "yes" ELSE "no"
    <2>1. Transfer!Told(r, yes) = [r EXCEPT !.call = call]
      BY DEF Transfer!Told
    <2> HIDE DEF call
    <2>2. [Transfer!Told(r, yes) EXCEPT !.call = "failed"] = [r EXCEPT !.call = "failed"]
      BY <1>5, <2>1 DEF TransferFields
    <2> QED
      BY <2>1, <2>2 DEF call
  <1>6. CASE t.step = "FindCarrier"
    <2> DEFINE yes == t.near /\ (t.loaded => t.kind = "media")
    <2>1. Transfer!Ran(t, t.step) = Transfer!Told(t, yes) /\ yes \in BOOLEAN
      BY <1>6 DEF Transfer!Ran, Transfer!FindCarrier
    <2> HIDE DEF yes
    <2> QED
      BY <1>0, <1>2, <1>5, <1>6, <2>1
  <1>7. CASE t.step \in {"CountBefore", "CountAfter"}
    <2> DEFINE r == [t EXCEPT !.answer = t.held]
    <2>1. Transfer!Ran(t, t.step) = Transfer!Told(r, TRUE)
      BY <1>7 DEF Transfer!Ran, Transfer!CountInventory
    <2>2. DOMAIN r = TransferFields
      BY <1>0
    <2>3. ASSUME NEW call PROVE [r EXCEPT !.call = call] = [t EXCEPT !.answer = t.held, !.call = call]
      BY <1>0
    <2> HIDE DEF r
    <2>4. /\ Transfer!Told(r, TRUE) = [r EXCEPT !.call = "yes"]
          /\ [Transfer!Told(r, TRUE) EXCEPT !.call = "failed"] = [r EXCEPT !.call = "failed"]
      BY <1>5, <2>2
    <2>5. TransferGood([r EXCEPT !.call = "yes"]) /\ TransferGood([r EXCEPT !.call = "failed"])
      BY <1>1, <1>7, <2>3
    <2> QED
      BY <2>1, <2>4, <2>5
  <1>8. CASE t.step = "SendState"
    <2> DEFINE r == [t EXCEPT !.loaded = TRUE]
    <2>1. Transfer!Ran(t, t.step) \in {Transfer!Told(r, TRUE), Transfer!Told(t, FALSE)}
      BY <1>8 DEF Transfer!Ran, Transfer!SendState
    <2>2. DOMAIN r = TransferFields
      BY <1>0
    <2>3. ASSUME NEW call PROVE [r EXCEPT !.call = call] = [t EXCEPT !.loaded = TRUE, !.call = call]
      BY <1>0
    <2> HIDE DEF r
    <2>4. CASE Transfer!Ran(t, t.step) = Transfer!Told(r, TRUE)
      <3>1. /\ Transfer!Told(r, TRUE) = [r EXCEPT !.call = "yes"]
            /\ [Transfer!Told(r, TRUE) EXCEPT !.call = "failed"] = [r EXCEPT !.call = "failed"]
        BY <1>5, <2>2
      <3>2. TransferGood([r EXCEPT !.call = "yes"]) /\ TransferGood([r EXCEPT !.call = "failed"])
        BY <1>3, <1>8, <2>3
      <3> QED
        BY <2>4, <3>1, <3>2
    <2>5. CASE Transfer!Ran(t, t.step) = Transfer!Told(t, FALSE)
      BY <1>0, <1>2, <1>5, <1>8, <2>5
    <2> QED
      BY <2>1, <2>4, <2>5
  <1>9. CASE t.step = "SendRemove"
    <2> DEFINE r == [t EXCEPT !.taking = TRUE]
    <2>1. Transfer!Ran(t, t.step) \in {Transfer!Told(r, TRUE), Transfer!Told(t, FALSE)}
      BY <1>9 DEF Transfer!Ran, Transfer!SendRemove
    <2>2. DOMAIN r = TransferFields
      BY <1>0
    <2>3. ASSUME NEW call PROVE [r EXCEPT !.call = call] = [t EXCEPT !.taking = TRUE, !.call = call]
      BY <1>0
    <2> HIDE DEF r
    <2>4. CASE Transfer!Ran(t, t.step) = Transfer!Told(r, TRUE)
      <3>1. /\ Transfer!Told(r, TRUE) = [r EXCEPT !.call = "yes"]
            /\ [Transfer!Told(r, TRUE) EXCEPT !.call = "failed"] = [r EXCEPT !.call = "failed"]
        BY <1>5, <2>2
      <3>2. TransferGood([r EXCEPT !.call = "yes"]) /\ TransferGood([r EXCEPT !.call = "failed"])
        BY <1>4, <1>9, <2>3
      <3> QED
        BY <2>4, <3>1, <3>2
    <2>5. CASE Transfer!Ran(t, t.step) = Transfer!Told(t, FALSE)
      BY <1>0, <1>2, <1>5, <1>9, <2>5
    <2> QED
      BY <2>1, <2>4, <2>5
  <1> QED
    BY <1>6, <1>7, <1>8, <1>9 DEF TransferGood, TransferShape

\* A call that is over is followed by the next one, by waiting, or by the end.
LEMMA TransferUpdated ==
  ASSUME NEW t, TransferGood(t), t.phase # "Idle"
  PROVE  TransferGood(Transfer!Updated(t))
  <1>0. DOMAIN t = TransferFields
    BY DEF TransferGood, TransferShape
  <1>1. CASE t.call = "none"
    <2> DEFINE step == Transfer!NextCall(t)
    <2>1. step = (IF t.phase = "WaitBeforeRemove" THEN "SendRemove" ELSE "CountAfter") /\ t.phase \in {"WaitBeforeRemove", "WaitForItem"}
      BY <1>1 DEF Transfer!NextCall, TransferGood, TransferShape, Transfer!Phases
    <2>2. Transfer!Updated(t) = [t EXCEPT !.phase = "Calling", !.step = step, !.call = "queued"]
      BY <1>1 DEF Transfer!Updated, Transfer!Calling
    <2> HIDE DEF step
    <2>3. CASE step = "SendRemove" /\ t.phase = "WaitBeforeRemove"
      BY <1>0, <1>1, <2>2, <2>3 DEF TransferGood, TransferShape, TransferCounts, TransferPlaces, TransferFields,
                Transfer!Phases, Came, Later
    <2>4. CASE step = "CountAfter" /\ t.phase = "WaitForItem"
      BY <1>0, <1>1, <2>2, <2>4 DEF TransferGood, TransferShape, TransferCounts, TransferPlaces, TransferFields,
                Transfer!Phases, Came, Later
    <2> QED
      BY <2>1, <2>3, <2>4
  <1>2. CASE t.call = "queued"
    BY <1>2 DEF Transfer!Updated
  <1>3. CASE t.call \notin {"queued", "none", "yes"}
    <2>1. Transfer!Updated(t) = Transfer!Reset(t)
      BY <1>3 DEF Transfer!Updated, Transfer!HandleCompletedCall
    <2> QED
      BY <2>1, TransferReset
  <1>4. CASE t.call = "yes"
    <2>0. Transfer!Updated(t) = Transfer!HandleCompletedCall(t) /\ t.phase = "Calling"
      BY <1>4 DEF Transfer!Updated, TransferGood, TransferShape
    <2>1. CASE t.step = "FindCarrier"
      <3>1. Transfer!Updated(t) = [t EXCEPT !.phase = "Calling", !.step = "CountBefore", !.call = "queued"]
        BY <1>4, <2>0, <2>1 DEF Transfer!HandleCompletedCall, Transfer!Calling
      <3> QED
        BY <1>0, <2>0, <2>1, <3>1 DEF TransferGood, TransferShape, TransferCounts, TransferPlaces, TransferFields,
                Transfer!Phases, Came, Later
    <2>2. CASE t.step = "CountBefore"
      <3>1. Transfer!Updated(t) = [t EXCEPT !.base = t.answer, !.phase = "Calling", !.step = "SendState", !.call = "queued"]
        BY <1>0, <1>4, <2>0, <2>2 DEF Transfer!HandleCompletedCall, Transfer!Calling, TransferFields
      <3> QED
        BY <1>0, <1>4, <2>0, <2>2, <3>1 DEF TransferGood, TransferShape, TransferCounts, TransferPlaces, TransferFields,
                Transfer!Phases, Came, Later
    <2>3. CASE t.step = "SendState"
      <3>1. Transfer!Updated(t) = [t EXCEPT !.phase = "WaitBeforeRemove", !.step = "None", !.call = "none"]
        BY <1>4, <2>0, <2>3 DEF Transfer!HandleCompletedCall, Transfer!Waiting
      <3> QED
        BY <1>0, <1>4, <2>0, <2>3, <3>1 DEF TransferGood, TransferShape, TransferCounts, TransferPlaces, TransferFields,
                Transfer!Phases, Came, Later
    <2>4. CASE t.step = "SendRemove" \/ (t.step = "CountAfter" /\ ~(t.answer > t.base))
      <3>1. Transfer!Updated(t) = [t EXCEPT !.phase = "WaitForItem", !.step = "None", !.call = "none"]
        BY <1>4, <2>0, <2>4 DEF Transfer!HandleCompletedCall, Transfer!Waiting, Transfer!HasArrived
      <3> QED
        BY <1>0, <1>4, <2>0, <2>4, <3>1 DEF TransferGood, TransferShape, TransferCounts, TransferPlaces, TransferFields,
                Transfer!Phases, Came, Later
    <2>5. CASE t.step = "CountAfter" /\ t.answer > t.base
      <3> DEFINE n == t.completed + 1
                 c == [t EXCEPT !.call = "none", !.completed = n, !.base = t.answer]
      <3>1. Transfer!Counted([t EXCEPT !.call = "none"]) = c
        BY <1>0 DEF Transfer!Counted, TransferFields
      <3>2. Transfer!Updated(t) = Transfer!Continued(c)
        BY <1>4, <2>0, <2>5, <3>1 DEF Transfer!HandleCompletedCall, Transfer!HasArrived
      <3>3. /\ DOMAIN c = TransferFields /\ c.phase = "Calling" /\ c.step = "CountAfter" /\ c.call = "none" /\ c.completed = n
            /\ c.base = t.answer /\ c.answer = t.answer /\ c.held = t.held /\ c.arrived = t.arrived /\ c.gained = t.gained
            /\ c.strayed = t.strayed /\ c.done = t.done /\ c.loaded = t.loaded /\ c.taking = t.taking /\ c.late = t.late
        BY <1>0, <2>0, <2>5 DEF TransferFields
      <3>4. /\ {n, t.answer, t.held, t.arrived, t.gained} \subseteq Int /\ t.held >= 0 /\ t.gained >= 0
            /\ n <= Came(t) /\ n + t.held <= t.answer + Came(t)
            /\ \/ t.gained > 0 \/ t.strayed
               \/ ~t.done /\ t.arrived = n /\ ~t.loaded /\ ~t.taking
               \/ ~t.done /\ t.arrived < n
        BY <1>4, <2>0, <2>5 DEF TransferGood, TransferShape, TransferCounts, TransferPlaces, Came, Later
      <3>5. t.gained > 0 \/ t.strayed \/ (~t.done /\ t.arrived = n /\ ~t.loaded /\ ~t.taking)
        BY <3>4 DEF Came
      <3> HIDE DEF c, n
      <3>6. TransferGood([c EXCEPT !.phase = "Calling", !.step = "SendState", !.call = "queued"])
        BY <3>3, <3>4, <3>5 DEF TransferGood, TransferShape, TransferCounts, TransferPlaces, TransferFields,
                Transfer!Phases, Came, Later
      <3>7. Transfer!Reset(c) = [c EXCEPT !.phase = "Idle", !.step = "None", !.call = "none", !.late = t.late]
        BY <3>3 DEF Transfer!Reset
      <3>8. TransferGood([Transfer!Reset(c) EXCEPT !.done = TRUE])
        BY <3>3, <3>4, <3>5, <3>7 DEF TransferGood, TransferShape, TransferCounts, TransferPlaces, TransferFields,
                Transfer!Phases, Came, Later
      <3>9. Transfer!Continued(c) \in {[Transfer!Reset(c) EXCEPT !.done = TRUE], Transfer!Calling(c, "SendState")}
        BY DEF Transfer!Continued
      <3> QED
        BY <3>2, <3>6, <3>8, <3>9 DEF Transfer!Calling
    <2> QED
      BY <2>0, <2>1, <2>2, <2>3, <2>4, <2>5 DEF TransferGood, TransferShape
  <1> QED
    BY <1>1, <1>2, <1>3, <1>4

LEMMA TransferStep == TransferInv /\ [Transfer!Next]_all => TransferInv'
  <1> SUFFICES ASSUME TransferGood(state), [Transfer!Next]_all PROVE TransferGood(state')
    BY DEF TransferInv, TransferGood, TransferShape, TransferCounts, TransferPlaces, Came, Later, TransferFields
  <1>0. DOMAIN state = TransferFields
    BY DEF TransferGood, TransferShape
  <1>1. CASE Transfer!Live
    BY <1>0, <1>1 DEF Transfer!Live, TransferGood, TransferShape, TransferCounts, TransferPlaces, TransferFields,
                Transfer!Phases, Came, Later
  <1>2. CASE Transfer!Move
    <2> DEFINE near == ~state.near
    <2>1. state' = [state EXCEPT !.near = near]
      BY <1>2 DEF Transfer!Move
    <2> HIDE DEF near
    <2> QED
      BY <1>0, <2>1 DEF TransferGood, TransferShape, TransferCounts, TransferPlaces, TransferFields,
                Transfer!Phases, Came, Later
  <1>3. CASE Transfer!Find
    <2> DEFINE held == state.held + 1
               gained == state.gained + 1
    <2>1. state' = [state EXCEPT !.held = held, !.gained = gained]
      BY <1>3 DEF Transfer!Find
    <2>2. {held, gained} \subseteq Int /\ held = state.held + 1 /\ gained = state.gained + 1 /\ gained > 0
      BY DEF TransferGood, TransferShape
    <2> HIDE DEF held, gained
    <2> QED
      BY <1>0, <2>1, <2>2 DEF TransferGood, TransferShape, TransferCounts, TransferFields,
                Transfer!Phases, Came
  <1>4. CASE Transfer!Drop
    <2> DEFINE held == state.held - 1
    <2>1. state' = [state EXCEPT !.held = held]
      BY <1>4 DEF Transfer!Drop
    <2>2. held \in Int /\ held < state.held /\ held >= 0
      BY <1>4 DEF Transfer!Drop, TransferGood, TransferShape
    <2> HIDE DEF held
    <2> QED
      BY <1>0, <2>1, <2>2 DEF TransferGood, TransferShape, TransferCounts, TransferPlaces, TransferFields,
                Transfer!Phases, Came, Later
  <1>5. CASE Transfer!Arrive
    <2> DEFINE held == IF state.loaded THEN state.held + 1 ELSE state.held
               arrived == IF state.loaded THEN state.arrived + 1 ELSE state.arrived
    <2>1. state' = [state EXCEPT !.taking = FALSE, !.loaded = FALSE, !.held = held, !.arrived = arrived]
      BY <1>5 DEF Transfer!Arrive
    <2>2. /\ {held, arrived} \subseteq Int /\ held - state.held = arrived - state.arrived
          /\ arrived \in {state.arrived, state.arrived + 1} /\ held >= 0 /\ state.taking
      BY <1>5 DEF Transfer!Arrive, TransferGood, TransferShape
    <2> HIDE DEF held, arrived
    <2> QED
      BY <1>0, <2>1, <2>2 DEF TransferGood, TransferShape, TransferCounts, TransferPlaces, TransferFields,
                Transfer!Phases, Came, Later
  <1>6. CASE Transfer!Runs
    <2>1. state.call = "queued" /\ state.phase = "Calling"
      BY <1>6 DEF Transfer!Runs, TransferGood, TransferShape
    <2>2. TransferGood([state EXCEPT !.call = "failed"])
      BY <1>0, <2>1 DEF TransferGood, TransferShape, TransferCounts, TransferPlaces, TransferFields,
                Transfer!Phases, Came, Later
    <2>3. TransferGood(Transfer!Ran(state, state.step)) /\ TransferGood([Transfer!Ran(state, state.step) EXCEPT !.call = "failed"])
      BY <2>1, TransferRan
    <2> QED
      BY <1>6, <2>2, <2>3 DEF Transfer!Runs
  <1>7. CASE Transfer!RunsLate
    <2>1. PICK r \in {state, [state EXCEPT !.answer = state.held], [state EXCEPT !.loaded = TRUE], [state EXCEPT !.taking = TRUE]}, yes \in BOOLEAN :
            Transfer!Ran(state, state.late) = Transfer!Told(r, yes)
      BY DEF Transfer!Ran, Transfer!FindCarrier, Transfer!SendState, Transfer!SendRemove, Transfer!CountInventory
    <2> DEFINE call == IF yes THEN "yes" ELSE "no"
    <2>2. Transfer!Told(r, yes) = [r EXCEPT !.call = call]
      BY DEF Transfer!Told
    <2>3. state' = [Transfer!Ran(state, state.late) EXCEPT
                    !.call = state.call, !.answer = state.answer, !.late = "None", !.strayed = TRUE]
      BY <1>7 DEF Transfer!RunsLate
    <2> HIDE DEF call
    <2> QED
      BY <1>0, <2>1, <2>2, <2>3 DEF TransferGood, TransferShape, TransferCounts, TransferFields,
                Transfer!Phases, Came
  <1>8. CASE Transfer!Update
    BY <1>8, TransferReset, TransferUpdated DEF Transfer!Update
  <1>9. ASSUME NEW quantity \in 1 .. 2, Transfer!Queue(quantity) PROVE TransferGood(state')
    <2> DEFINE strayed == state.taking
    <2>1. state' = [state EXCEPT !.phase = "Calling", !.step = "FindCarrier", !.call = "queued",
                    !.requested = quantity, !.completed = 0, !.base = 0, !.arrived = 0,
                    !.gained = 0, !.done = FALSE, !.strayed = strayed]
      BY <1>0, <1>9 DEF Transfer!Queue, Transfer!Calling, TransferFields
    <2>2. strayed \/ ~state.taking
      OBVIOUS
    <2> HIDE DEF strayed
    <2> DEFINE t == [state EXCEPT !.phase = "Calling", !.step = "FindCarrier", !.call = "queued",
                    !.requested = quantity, !.completed = 0, !.base = 0, !.arrived = 0,
                    !.gained = 0, !.done = FALSE, !.strayed = strayed]
    <2>3. /\ DOMAIN t = TransferFields /\ t.phase = "Calling" /\ t.step = "FindCarrier" /\ t.call = "queued"
          /\ t.completed = 0 /\ t.base = 0 /\ t.arrived = 0 /\ t.gained = 0 /\ t.done = FALSE /\ t.strayed = strayed
          /\ t.held = state.held /\ t.answer = state.answer /\ t.taking = state.taking
      BY <1>0 DEF TransferFields
    <2> HIDE DEF t
    <2>4. TransferShape(t) /\ TransferCounts(t)
      BY <2>3 DEF TransferGood, TransferShape, TransferCounts, TransferPlaces, TransferFields,
                Transfer!Phases, Came, Later
    <2>5. t.strayed \/ TransferPlaces(t)
      BY <2>2, <2>3 DEF TransferGood, TransferShape, TransferCounts, TransferPlaces, TransferFields,
                Transfer!Phases, Came, Later
    <2> QED
      BY <2>1, <2>4, <2>5 DEF t, TransferGood
  <1>10. CASE UNCHANGED all
    BY <1>10 DEF all
  <1> QED
    BY <1>1, <1>2, <1>3, <1>4, <1>5, <1>6, <1>7, <1>8, <1>9, <1>10 DEF Transfer!Next

LEMMA TransferKept == TransferInv => Transfer!CountedHaveArrived /\ Transfer!NothingStaysBehind
  BY DEF TransferInv, TransferGood, TransferShape, TransferCounts, TransferPlaces, Came,
         Transfer!CountedHaveArrived, Transfer!NothingStaysBehind

-----------------------------------------------------------------------------
(* CorpseDelivery: the container is filled item by item, then marked, then placed. *)

Corpse == INSTANCE CorpseDelivery WITH corpse <- state, MaxRequests <- SomeRequests

CorpseFields ==
  {"active", "step", "call", "kinds", "index", "content", "explored", "late", "placed", "spoiled", "sent"}

CorpseFillings == {"AddItems", "SetExplored", "AddCorpse"}

\* What a container has that is being made.
CorpseMade(c) ==
  /\ c.kinds \in Corpse!Kinds /\ c.index \in 1 .. c.kinds + 1 /\ c.step \in Corpse!Steps
  /\ c.step \notin CorpseFillings => c.index = 1
  /\ \A k \in 1 .. c.index - 1 : c.content[k] = "whole"
  /\ c.step = "AddItems" => c.index <= c.kinds /\ (c.call = "done" => c.content[c.index] = "whole")
  /\ c.step \in {"SetExplored", "AddCorpse"} => c.index = c.kinds + 1
  /\ c.step = "SetExplored" /\ c.call = "done" => c.explored
  /\ c.step = "AddCorpse" => c.explored /\ (c.call = "done" => c.placed)

CorpseGood(c) ==
  /\ DOMAIN c = CorpseFields /\ DOMAIN c.content = Corpse!Kinds
  /\ c.spoiled = FALSE /\ c.late # "part"
  /\ c.sent => c.placed
  /\ c.active \in BOOLEAN
  /\ IF c.active THEN CorpseMade(c) ELSE c.call = "none"

CorpseInv == CorpseGood(state)

LEMMA CorpseInit == Corpse!Init => CorpseInv
  BY DEF Corpse!Init, CorpseInv, CorpseGood, CorpseFields, Corpse!Empty

\* The steps of the chain: marking is after the last filling, and placing after marking.
LEMMA CorpseChain ==
  /\ \A step \in Corpse!Steps \ CorpseFillings :
       Corpse!After(step) \in Corpse!Steps \ {"SetExplored", "AddCorpse"}
  /\ Corpse!After("SetExplored") = "AddCorpse"
  /\ {"QuerySquare", "AddItems", "SetExplored", "AddCorpse"} \subseteq Corpse!Steps
  <1> DEFINE chain == Corpse!Preparations \o Corpse!Fillings
  <1>1. Len(chain) = 14 /\ chain[1] = "QuerySquare" /\ chain[12] = "AddItems" /\ chain[13] = "SetExplored" /\ chain[14] = "AddCorpse"
    BY DEF Corpse!Preparations, Corpse!Fillings
  <1>2. \A i \in 1 .. 14 : chain[i] = "SetExplored" <=> i = 13
    BY DEF Corpse!Preparations, Corpse!Fillings
  <1>3. \A step \in Corpse!Steps \ CorpseFillings :
          Corpse!After(step) \in Corpse!Steps \ {"SetExplored", "AddCorpse"}
    BY DEF Corpse!After, Corpse!Steps, Corpse!Preparations, Corpse!Fillings, CorpseFillings
  <1> DEFINE n == CHOOSE i \in 1 .. Len(chain) : chain[i] = "SetExplored"
  <1>4. Corpse!After("SetExplored") = chain[n + 1]
    BY DEF Corpse!After
  <1>5. Corpse!Steps = {chain[i] : i \in 1 .. Len(chain)}
    BY DEF Corpse!Steps
  <1> HIDE DEF chain
  <1>6. n = 13
    BY <1>1, <1>2
  <1> HIDE DEF n
  <1>7. Corpse!After("SetExplored") = "AddCorpse"
    BY <1>1, <1>4, <1>6
  <1>8. {chain[1], chain[12], chain[13], chain[14]} \subseteq Corpse!Steps
    BY <1>1, <1>5
  <1> QED
    BY <1>1, <1>3, <1>7, <1>8

LEMMA CorpseReady ==
  ASSUME NEW c, CorpseMade(c), c.step = "AddCorpse"
  PROVE  Corpse!IsReady(c)
  BY DeliveryAssumption DEF CorpseMade, Corpse!IsReady, Corpse!Kinds

LEMMA CorpseReset ==
  ASSUME NEW c, CorpseGood(c)
  PROVE  CorpseGood(Corpse!Reset(c)) /\ Corpse!Reset(c).placed = c.placed /\ "placed" \in DOMAIN Corpse!Reset(c)
  <1> DEFINE late == IF c.call = "queued" /\ c.step = "AddCorpse"
                     THEN IF Corpse!IsReady(c) THEN "whole" ELSE "part"
                     ELSE c.late
  <1>1. late # "part"
    BY CorpseReady DEF CorpseGood
  <1>2. Corpse!Reset(c) = [c EXCEPT !.active = FALSE, !.call = "none", !.content = Corpse!Empty,
                                    !.explored = FALSE, !.late = late]
    BY DEF Corpse!Reset
  <1> HIDE DEF late
  <1> QED
    BY <1>1, <1>2 DEF CorpseGood, CorpseFields, Corpse!Empty

\* A call that ends without an effect is followed by the end of the request.
LEMMA CorpseEnds ==
  ASSUME NEW c, CorpseGood(c), c.active, NEW call, call # "done"
  PROVE  CorpseGood([c EXCEPT !.call = call])
  BY DEF CorpseGood, CorpseMade, CorpseFields

\* A container is filled where it was not yet, marked or placed.
LEMMA CorpseEffect ==
  ASSUME NEW c, CorpseGood(c), c.active, c.call = "queued"
  PROVE  CorpseGood([Corpse!Effect(c) EXCEPT !.call = "done"])
         /\ CorpseGood([Corpse!Effect(c) EXCEPT !.call = "failed"])
  <1>0. DOMAIN c = CorpseFields /\ CorpseMade(c) /\ c.kinds \in 1 .. MaxKinds /\ c.index \in 1 .. c.kinds + 1
    BY DEF CorpseGood, CorpseMade, Corpse!Kinds
  <1> SUFFICES ASSUME NEW call \in {"done", "failed"}
               PROVE  CorpseGood([Corpse!Effect(c) EXCEPT !.call = call])
    OBVIOUS
  <1>1. CASE c.step = "AddItems"
    <2> DEFINE content == [c.content EXCEPT ![c.index] = "whole"]
    <2>1. /\ DOMAIN content = Corpse!Kinds /\ content[c.index] = "whole"
          /\ \A k \in 1 .. c.index - 1 : content[k] = "whole"
      BY <1>0, <1>1, DeliveryAssumption DEF CorpseGood, CorpseMade, Corpse!Kinds
    <2>2. [Corpse!Effect(c) EXCEPT !.call = call] = [c EXCEPT !.content = content, !.call = call]
      BY <1>1 DEF Corpse!Effect
    <2> HIDE DEF content
    <2> DEFINE t == [c EXCEPT !.content = content, !.call = call]
    <2>3. /\ DOMAIN t = CorpseFields /\ t.content = content /\ t.call = call /\ t.step = c.step
          /\ t.kinds = c.kinds /\ t.index = c.index /\ t.active = c.active /\ t.placed = c.placed
          /\ t.spoiled = c.spoiled /\ t.late = c.late /\ t.sent = c.sent
      BY <1>0 DEF CorpseFields
    <2> HIDE DEF t
    <2>4. CorpseMade(t)
      BY <1>0, <1>1, <2>1, <2>3 DEF CorpseMade, CorpseFillings
    <2>5. CorpseGood(t)
      BY <2>1, <2>3, <2>4 DEF CorpseGood
    <2> QED
      BY <2>2, <2>5 DEF t
  <1>2. CASE c.step = "SetExplored"
    <2>1. [Corpse!Effect(c) EXCEPT !.call = call] = [c EXCEPT !.explored = TRUE, !.call = call]
      BY <1>2 DEF Corpse!Effect
    <2> QED
      BY <1>0, <1>2, <2>1 DEF CorpseGood, CorpseMade, CorpseFields
  <1>3. CASE c.step = "AddCorpse"
    <2>1. (c.spoiled \/ ~Corpse!IsReady(c)) = FALSE
      BY <1>0, <1>3, CorpseReady DEF CorpseGood
    <2>2. [Corpse!Effect(c) EXCEPT !.call = call] = [c EXCEPT !.placed = TRUE, !.spoiled = FALSE, !.call = call]
      BY <1>3, <2>1 DEF Corpse!Effect
    <2> QED
      BY ZenonT(60), <1>0, <1>3, <2>2 DEF CorpseGood, CorpseMade, CorpseFields
  <1>4. CASE c.step \notin CorpseFillings
    <2>1. [Corpse!Effect(c) EXCEPT !.call = call] = [c EXCEPT !.call = call]
      BY <1>4 DEF Corpse!Effect, CorpseFillings
    <2> QED
      BY ZenonT(60), <1>0, <1>4, <2>1 DEF CorpseGood, CorpseMade, CorpseFields, CorpseFillings
  <1> QED
    BY <1>1, <1>2, <1>3, <1>4 DEF CorpseFillings

\* The answer of a call leads to the next one, or to the end of the request.
LEMMA CorpseHandled ==
  ASSUME NEW c, CorpseGood(c), c.active, c.call = "done"
  PROVE  CorpseGood(Corpse!HandlePendingStep(c))
  <1>0. /\ DOMAIN c = CorpseFields /\ CorpseMade(c) /\ c.kinds \in 1 .. MaxKinds /\ c.index \in 1 .. c.kinds + 1
        /\ c.step \in Corpse!Steps /\ c.kinds \in Nat
    BY DeliveryAssumption DEF CorpseGood, CorpseMade, Corpse!Kinds
  <1>1. CASE c.step = "AddItems"
    <2> DEFINE step == IF c.index + 1 <= c.kinds THEN "AddItems" ELSE "SetExplored"
    <2>1. Corpse!HandlePendingStep(c) = [c EXCEPT !.index = c.index + 1, !.step = step, !.call = "queued"]
      <3> DEFINE d == [c EXCEPT !.index = c.index + 1]
      <3>1. d.index = c.index + 1 /\ d.kinds = c.kinds
        BY <1>0 DEF CorpseFields
      <3>2. Corpse!HandlePendingStep(c) = Corpse!QueuePendingCall(d, IF d.index <= d.kinds THEN "AddItems" ELSE "SetExplored")
        BY <1>1 DEF Corpse!HandlePendingStep, Corpse!AddedItems, Corpse!IsLast
      <3>3. Corpse!HandlePendingStep(c) = Corpse!QueuePendingCall(d, step)
        BY <3>1, <3>2
      <3> QED
        BY <3>3 DEF Corpse!QueuePendingCall
    <2>2. c.index <= c.kinds /\ \A k \in 1 .. c.index : c.content[k] = "whole"
      BY <1>0, <1>1 DEF CorpseMade
    <2>3. /\ step \in Corpse!Steps \cap CorpseFillings /\ step # "AddCorpse"
          /\ step = "AddItems" => c.index + 1 <= c.kinds
          /\ step = "SetExplored" => c.index + 1 = c.kinds + 1
      BY <1>0, <2>2, CorpseChain DEF CorpseFillings
    <2> HIDE DEF step
    <2> DEFINE t == [c EXCEPT !.index = c.index + 1, !.step = step, !.call = "queued"]
    <2>4. /\ DOMAIN t = CorpseFields /\ t.content = c.content /\ t.call = "queued" /\ t.step = step
          /\ t.kinds = c.kinds /\ t.index = c.index + 1 /\ t.active = c.active /\ t.placed = c.placed
          /\ t.spoiled = c.spoiled /\ t.late = c.late /\ t.sent = c.sent
      BY <1>0 DEF CorpseFields
    <2> HIDE DEF t
    <2>5. t.index \in 1 .. t.kinds + 1 /\ \A k \in 1 .. t.index - 1 : t.content[k] = "whole"
      BY <1>0, <2>2, <2>4
    <2>6. CorpseMade(t)
      BY <1>0, <2>3, <2>4, <2>5 DEF CorpseMade, CorpseFillings
    <2>7. CorpseGood(t)
      BY <2>4, <2>6 DEF CorpseGood
    <2> QED
      BY <2>1, <2>7 DEF t
  <1>2. CASE c.step = "AddCorpse"
    <2>1. Corpse!HandlePendingStep(c) = [Corpse!Reset(c) EXCEPT !.sent = TRUE]
      BY <1>2 DEF Corpse!HandlePendingStep, Corpse!IsLast
    <2>2. Corpse!Reset(c).placed
      BY <1>0, <1>2, CorpseReset DEF CorpseMade
    <2>3. ~Corpse!Reset(c).active
      BY <1>0 DEF Corpse!Reset, CorpseFields
    <2>4. CorpseGood(Corpse!Reset(c))
      BY CorpseReset
    <2> QED
      BY <2>1, <2>2, <2>3, <2>4 DEF CorpseGood, CorpseFields
  <1>3. CASE c.step = "SetExplored"
    <2>1. Corpse!HandlePendingStep(c) = [c EXCEPT !.step = "AddCorpse", !.call = "queued"]
      BY <1>3, CorpseChain DEF Corpse!HandlePendingStep, Corpse!IsLast, Corpse!QueuePendingCall
    <2> DEFINE t == [c EXCEPT !.step = "AddCorpse", !.call = "queued"]
    <2>2. /\ DOMAIN t = CorpseFields /\ t.content = c.content /\ t.call = "queued" /\ t.step = "AddCorpse"
          /\ t.kinds = c.kinds /\ t.index = c.index /\ t.active = c.active /\ t.placed = c.placed
          /\ t.spoiled = c.spoiled /\ t.late = c.late /\ t.sent = c.sent /\ t.explored = c.explored
      BY <1>0 DEF CorpseFields
    <2> HIDE DEF t
    <2>3. c.explored /\ c.index = c.kinds + 1
      BY <1>0, <1>3 DEF CorpseMade
    <2>4. CorpseMade(t)
      BY <1>0, <1>3, <2>2, <2>3, CorpseChain DEF CorpseMade, CorpseFillings
    <2>5. CorpseGood(t)
      BY <2>2, <2>4 DEF CorpseGood
    <2> QED
      BY <2>1, <2>5 DEF t
  <1>4. CASE c.step \notin CorpseFillings
    <2> DEFINE step == Corpse!After(c.step)
    <2>1. step \in Corpse!Steps \ {"SetExplored", "AddCorpse"}
      BY <1>0, <1>4, CorpseChain
    <2>2. Corpse!HandlePendingStep(c) = [c EXCEPT !.step = step, !.call = "queued"]
      BY <1>4 DEF Corpse!HandlePendingStep, Corpse!IsLast, Corpse!QueuePendingCall, CorpseFillings
    <2>3. c.index = 1 /\ 1 <= c.kinds
      BY <1>0, <1>4 DEF CorpseMade
    <2> HIDE DEF step
    <2> DEFINE t == [c EXCEPT !.step = step, !.call = "queued"]
    <2>4. /\ DOMAIN t = CorpseFields /\ t.content = c.content /\ t.call = "queued" /\ t.step = step
          /\ t.kinds = c.kinds /\ t.index = c.index /\ t.active = c.active /\ t.placed = c.placed
          /\ t.spoiled = c.spoiled /\ t.late = c.late /\ t.sent = c.sent
      BY <1>0 DEF CorpseFields
    <2> HIDE DEF t
    <2>5. CorpseMade(t)
      BY <1>0, <2>1, <2>3, <2>4 DEF CorpseMade, CorpseFillings
    <2>6. CorpseGood(t)
      BY <2>4, <2>5 DEF CorpseGood
    <2> QED
      BY <2>2, <2>6 DEF t
  <1> QED
    BY <1>1, <1>2, <1>3, <1>4 DEF CorpseFillings

LEMMA CorpseStep == CorpseInv /\ [Corpse!Next]_all => CorpseInv'
  <1> SUFFICES ASSUME CorpseGood(state), [Corpse!Next]_all PROVE CorpseGood(state')
    BY DEF CorpseInv, CorpseGood, CorpseMade, CorpseFields, CorpseFillings, Corpse!Kinds, Corpse!Steps
  <1>0. DOMAIN state = CorpseFields
    BY DEF CorpseGood
  <1>1. CASE Corpse!Live \/ UNCHANGED all
    BY <1>1 DEF Corpse!Live, all
  <1>2. CASE Corpse!Runs
    <2>1. state.call = "queued" /\ state.active
      BY <1>2 DEF Corpse!Runs, CorpseGood
    <2>2. CASE state' = [Corpse!Effect(state) EXCEPT !.call = "done"] \/ state' = [Corpse!Effect(state) EXCEPT !.call = "failed"]
      BY <2>1, <2>2, CorpseEffect
    <2>3. CASE state' = [state EXCEPT !.call = "failed"]
      BY <2>1, <2>3, CorpseEnds
    <2>4. CASE state.step = "AddItems" /\ state' = [state EXCEPT !.content[state.index] = "part", !.call = "short"]
      <3> DEFINE content == [state.content EXCEPT ![state.index] = "part"]
      <3>1. state' = [state EXCEPT !.content = content, !.call = "short"]
        BY <2>4
      <3>2. DOMAIN content = Corpse!Kinds /\ \A k \in 1 .. state.index - 1 : content[k] = "whole"
        BY <2>1, DeliveryAssumption DEF CorpseGood, CorpseMade, Corpse!Kinds
      <3> HIDE DEF content
      <3> QED
        BY <1>0, <2>1, <3>1, <3>2 DEF CorpseGood, CorpseMade, CorpseFields
    <2> QED
      BY <1>2, <2>2, <2>3, <2>4 DEF Corpse!Runs
  <1>3. CASE Corpse!RunsLate
    <2>1. (state.spoiled \/ state.late = "part") = FALSE
      BY DEF CorpseGood
    <2>2. state' = [state EXCEPT !.late = "none", !.spoiled = FALSE]
      BY <1>3, <2>1 DEF Corpse!RunsLate
    <2> QED
      BY <1>0, <2>2 DEF CorpseGood, CorpseMade, CorpseFields
  <1>4. CASE Corpse!Update
    <2>1. state.active /\ (state' = Corpse!Updated(state) \/ state' = Corpse!Reset(state))
      BY <1>4 DEF Corpse!Update
    <2> QED
      BY <2>1, CorpseHandled, CorpseReset DEF Corpse!Updated, Corpse!Filled
  <1>5. ASSUME NEW kinds \in Corpse!Kinds, Corpse!Queue(kinds) PROVE CorpseGood(state')
    <2>1. state' = [state EXCEPT !.step = "QuerySquare", !.call = "queued", !.active = TRUE, !.kinds = kinds,
                                 !.index = 1, !.placed = FALSE, !.sent = FALSE]
      BY <1>5 DEF Corpse!Queue, Corpse!QueuePendingCall
    <2>2. 1 \in 1 .. kinds + 1
      BY DeliveryAssumption DEF Corpse!Kinds
    <2> QED
      BY <1>0, <2>1, <2>2, CorpseChain DEF CorpseGood, CorpseMade, CorpseFields, CorpseFillings
  <1> QED
    BY <1>1, <1>2, <1>3, <1>4, <1>5 DEF Corpse!Next

LEMMA CorpseKept == CorpseInv => Corpse!PlacedWhole /\ Corpse!AnnouncedIsPlaced
  BY DEF CorpseInv, CorpseGood, Corpse!PlacedWhole, Corpse!AnnouncedIsPlaced

-----------------------------------------------------------------------------
(* PlacedCarrier: while the player stays, his square has the carrier of the request. *)

Pallet == INSTANCE PlacedCarrier WITH pallet <- state, MaxRequests <- SomeRequests, MaxFaults <- FewFaults, Spots <- Places, Nowhere <- NoWeapon

PalletFields ==
  {"phase", "step", "call", "here", "at", "coming", "acting", "square", "found", "id", "last", "given",
   "moved", "strayed", "blind", "late", "lateId", "lateSquare", "done", "crowded"}

\* No carrier but this one is on the square of the player.
Apart(p, i) == \A j \in Pallet!Ids \ {i} : p.at[j] # p.here

PalletShape(p) ==
  /\ DOMAIN p = PalletFields
  /\ p.here \in Places
  /\ DOMAIN p.at = Pallet!Ids /\ DOMAIN p.coming = Pallet!Ids
  /\ p.step \in Pallet!Steps /\ p.phase \in Pallet!Phases /\ p.call \in {"none", "queued", "failed", "done"}
  /\ p.call = "none" <=> p.step = "None"
  /\ p.phase = "Idle" => p.step = "None"

PalletElsewhere(p) == p.moved \/ p.strayed \/ p.blind

\* The squares of a request: the carrier that the server was asked for, and those that are there.
PalletPlaces(p) ==
  /\ Pallet!Crowded(p) \subseteq p.crowded
  /\ p.acting # 0 => p.acting = p.id
  /\ \A i \in Pallet!Ids : p.coming[i] # NoWeapon => i = p.id /\ p.coming[i] = p.here /\ Apart(p, i)

\* What its calls have found.
PalletFindings(p) ==
  /\ p.step \in {"QueryObjects", "CarrierPacket", "CarrierSet", "CarrierSend", "ActionSquare", "ActionSend"} => p.square = p.here
  /\ p.step \in {"QuerySquare", "CarrierSquare"} /\ p.call = "done" => p.square = p.here
  /\ p.phase = "Preparing" /\ p.step \in {"None", "QuerySquare"} => p.id = 0
  /\ p.phase = "Preparing" /\ p.step = "QueryObjects" /\ p.call = "queued" => p.id = 0
  /\ p.step = "QueryObjects" /\ p.call = "done" /\ p.found = 0 =>
       /\ p.phase = "WaitingForAction" => p.given
       /\ p.phase = "Preparing" => Apart(p, 0) /\ p.id = 0
  /\ p.step = "QueryObjects" /\ p.call = "done" /\ p.found # 0 =>
       p.id = p.found /\ p.id \in Pallet!Ids /\ (p.given \/ p.at[p.id] = p.here)
  /\ p.step \in {"CarrierSquare", "CarrierPacket", "CarrierSet", "CarrierSend"} => Apart(p, p.id)
  /\ p.step \in {"ActionSquare", "ActionSend"} \/ p.phase = "WaitingForAction" =>
       p.id \in Pallet!Ids /\ (p.given \/ p.at[p.id] = p.here)

PalletGood(p) ==
  /\ PalletShape(p)
  /\ p.done => p.given \/ PalletElsewhere(p)
  /\ PalletElsewhere(p) \/ (PalletPlaces(p) /\ PalletFindings(p))

PalletInv == PalletGood(state)

LEMMA PalletInit == Pallet!Init => PalletInv
  <1> SUFFICES ASSUME Pallet!Init PROVE PalletGood(state)
    BY DEF PalletInv
  <1>1. PICK here \in Places :
          state = [phase |-> "Idle", step |-> "None", call |-> "none", here |-> here,
                   at |-> Pallet!NoCarrier, coming |-> Pallet!NoCarrier, acting |-> 0, square |-> NoWeapon,
                   found |-> 0, id |-> 0, last |-> 0, given |-> FALSE, moved |-> FALSE,
                   strayed |-> FALSE, blind |-> FALSE, late |-> "None", lateId |-> 0, lateSquare |-> NoWeapon,
                   done |-> FALSE, crowded |-> {}]
    BY DEF Pallet!Init
  <1>2. DOMAIN Pallet!NoCarrier = Pallet!Ids /\ \A i \in Pallet!Ids : Pallet!NoCarrier[i] = NoWeapon
    BY DEF Pallet!NoCarrier
  <1>3. Pallet!Crowded(state) = {}
    BY <1>1, <1>2 DEF Pallet!Crowded, Pallet!Carriers
  <1>4. PalletShape(state)
    BY <1>1, <1>2 DEF PalletShape, PalletFields, Pallet!Steps, Pallet!Phases
  <1>5. PalletPlaces(state)
    BY <1>1, <1>2, <1>3 DEF PalletPlaces
  <1>6. PalletFindings(state)
    BY <1>1 DEF PalletFindings
  <1> QED
    BY <1>1, <1>4, <1>5, <1>6 DEF PalletGood

\* A carrier that comes where there is none, or one that goes, crowds no square.
LEMMA PalletPlaced ==
  ASSUME NEW p, PalletShape(p), NEW i, NEW s, s = NoWeapon \/ (s = p.here /\ Apart(p, i)),
         NEW q, \A j \in Pallet!Ids : q.at[j] = IF j = i THEN s ELSE p.at[j]
  PROVE  Pallet!Crowded(q) \subseteq Pallet!Crowded(p)
  <1>2. \A j \in Pallet!Ids : q.at[j] = IF j = i THEN s ELSE p.at[j]
    OBVIOUS
  <1>3. i \in Pallet!Ids => \A j \in Pallet!Ids \ {i} : q.at[i] # NoWeapon => q.at[j] # q.at[i]
    BY <1>2 DEF Apart
  <1>4. ASSUME NEW w \in Pallet!Crowded(q) PROVE w \in Pallet!Crowded(p)
    <2>1. PICK j \in Pallet!Ids, k \in Pallet!Ids :
            w \in Places /\ q.at[j] # NoWeapon /\ j # k /\ q.at[j] = w /\ q.at[k] = w
      BY <1>4 DEF Pallet!Crowded, Pallet!Carriers
    <2>2. j # i /\ k # i
      BY <1>3, <2>1
    <2>3. p.at[j] = w /\ p.at[k] = w
      BY <1>2, <2>1, <2>2
    <2> QED
      BY <2>1, <2>3 DEF Pallet!Crowded, Pallet!Carriers
  <1> QED
    BY <1>4

\* Crowding is about the carriers that are there.
LEMMA PalletCrowd ==
  ASSUME NEW p, NEW q, q.at = p.at
  PROVE  Pallet!Crowded(q) = Pallet!Crowded(p)
  BY DEF Pallet!Crowded, Pallet!Carriers

\* What only changes a step of the request.
LEMMA PalletStepped ==
  ASSUME NEW p, PalletGood(p), NEW q, PalletShape(q), q.at = p.at, q.coming = p.coming, q.acting = p.acting, q.here = p.here,
         q.id = p.id, q.crowded = p.crowded, q.given = p.given, q.moved = p.moved, q.strayed = p.strayed, q.blind = p.blind,
         q.done => p.done \/ p.given \/ PalletElsewhere(p),
         PalletElsewhere(p) \/ PalletFindings(q)
  PROVE  PalletGood(q)
  <1>1. PalletElsewhere(q) <=> PalletElsewhere(p)
    BY DEF PalletElsewhere
  <1>2. PalletPlaces(p) => PalletPlaces(q)
    BY PalletCrowd DEF PalletPlaces, Apart
  <1> QED
    BY <1>1, <1>2 DEF PalletGood

LEMMA PalletReset ==
  ASSUME NEW p, PalletGood(p)
  PROVE  PalletGood(Pallet!Reset(p))
         /\ (p.given \/ PalletElsewhere(p) => PalletGood([Pallet!Reset(p) EXCEPT !.done = TRUE]))
  <1>0. DOMAIN p = PalletFields
    BY DEF PalletGood, PalletShape
  <1> DEFINE kept == p.call = "queued" /\ p.step \in {"CarrierSend", "ActionSend"}
             late == IF kept THEN p.step ELSE p.late
             id == IF kept THEN p.id ELSE p.lateId
             square == IF kept THEN p.square ELSE p.lateSquare
  <1>1. \A done : [Pallet!GivenUp(p) EXCEPT !.phase = "Idle", !.step = "None", !.call = "none", !.done = done] =
            [p EXCEPT !.late = late, !.lateId = id, !.lateSquare = square, !.phase = "Idle",
                                           !.step = "None", !.call = "none", !.done = done]
    <2>1. CASE kept
      <3>1. Pallet!GivenUp(p) = [p EXCEPT !.late = p.step, !.lateId = p.id, !.lateSquare = p.square]
        BY <2>1 DEF Pallet!GivenUp
      <3> QED
        BY <1>0, <2>1, <3>1 DEF PalletFields
    <2>2. CASE ~kept
      <3>1. Pallet!GivenUp(p) = p
        BY <2>2 DEF Pallet!GivenUp
      <3> QED
        BY <1>0, <2>2, <3>1 DEF PalletFields
    <2> QED
      BY <2>1, <2>2
  <1> HIDE DEF late, id, square
  <1> SUFFICES ASSUME NEW done, done = p.done \/ (done = TRUE /\ (p.given \/ PalletElsewhere(p)))
               PROVE  PalletGood([p EXCEPT !.late = late, !.lateId = id, !.lateSquare = square, !.phase = "Idle",
                                           !.step = "None", !.call = "none", !.done = done])
    <2> DEFINE r == Pallet!GivenUp(p)
    <2>1. Pallet!Reset(p) = [r EXCEPT !.phase = "Idle", !.step = "None", !.call = "none"] /\ DOMAIN r = PalletFields /\ r.done = p.done
      BY <1>0 DEF Pallet!Reset, Pallet!GivenUp, PalletFields
    <2>2. [r EXCEPT !.phase = "Idle", !.step = "None", !.call = "none"] =
            [r EXCEPT !.phase = "Idle", !.step = "None", !.call = "none", !.done = p.done]
      BY <2>1 DEF PalletFields
    <2>3. [Pallet!Reset(p) EXCEPT !.done = TRUE] =
            [r EXCEPT !.phase = "Idle", !.step = "None", !.call = "none", !.done = TRUE]
      BY <2>1 DEF PalletFields
    <2>4. Pallet!Reset(p) = [p EXCEPT !.late = late, !.lateId = id, !.lateSquare = square, !.phase = "Idle",
                                           !.step = "None", !.call = "none", !.done = p.done]
      BY <1>1, <2>1, <2>2
    <2>5. [Pallet!Reset(p) EXCEPT !.done = TRUE] =
            [p EXCEPT !.late = late, !.lateId = id, !.lateSquare = square, !.phase = "Idle",
                                           !.step = "None", !.call = "none", !.done = TRUE]
      BY <1>1, <2>3
    <2> QED
      BY <2>4, <2>5
  <1> DEFINE q == [p EXCEPT !.late = late, !.lateId = id, !.lateSquare = square, !.phase = "Idle",
                                           !.step = "None", !.call = "none", !.done = done]
  <1>2. /\ DOMAIN q = PalletFields /\ q.at = p.at /\ q.coming = p.coming /\ q.acting = p.acting /\ q.here = p.here
        /\ q.id = p.id /\ q.crowded = p.crowded /\ q.given = p.given /\ q.moved = p.moved /\ q.strayed = p.strayed /\ q.blind = p.blind
        /\ q.done = done /\ q.phase = "Idle" /\ q.step = "None" /\ q.call = "none"
    BY <1>0 DEF PalletFields
  <1> HIDE DEF q
  <1>3. PalletShape(q) /\ PalletFindings(q)
    BY <1>2 DEF PalletGood, PalletShape, PalletFindings, Pallet!Steps, Pallet!Phases
  <1>4. PalletGood(q)
    BY <1>2, <1>3, PalletStepped
  <1> QED
    BY <1>4 DEF q

\* A call that runs finds the square of the player, the carriers on it, or is about his.
LEMMA PalletAnswers ==
  ASSUME NEW p, PalletGood(p), p.call = "queued", NEW r \in Pallet!Answers(p), NEW call \in {"done", "failed"}
  PROVE  PalletGood([r EXCEPT !.call = call])
  <1>0. DOMAIN p = PalletFields /\ PalletShape(p) /\ p.step # "None" /\ NoWeapon \notin Places /\ 0 \notin Pallet!Ids
    BY PlaceAssumption, FewAssumption DEF PalletGood, PalletShape, Pallet!Ids
  <1>1. CASE p.step \in {"QuerySquare", "CarrierSquare"}
    <2>1. r = [p EXCEPT !.square = p.here]
      BY <1>1 DEF Pallet!Answers
    <2> DEFINE q == [r EXCEPT !.call = call]
    <2>2. /\ DOMAIN q = PalletFields /\ q.at = p.at /\ q.coming = p.coming /\ q.acting = p.acting /\ q.here = p.here
          /\ q.id = p.id /\ q.crowded = p.crowded /\ q.given = p.given /\ q.moved = p.moved /\ q.strayed = p.strayed /\ q.blind = p.blind
          /\ q.done = p.done /\ q.phase = p.phase /\ q.step = p.step /\ q.call = call /\ q.square = p.here
      BY <1>0, <2>1 DEF PalletFields
    <2> HIDE DEF q
    <2>3. PalletShape(q)
      BY <1>0, <2>2 DEF PalletShape
    <2>4. PalletFindings(p) => PalletFindings(q)
      BY <1>1, <2>2 DEF PalletFindings, Apart
    <2>5. PalletElsewhere(p) \/ PalletFindings(q)
      BY <2>4 DEF PalletGood
    <2>6. q.done => p.done \/ p.given \/ PalletElsewhere(p)
      BY <2>2
    <2> QED
      BY <2>2, <2>3, <2>5, <2>6, PalletStepped DEF q
  <1>2. CASE p.step = "QueryObjects" /\ Pallet!Matching(p) = {}
    <2>1. r = [p EXCEPT !.found = 0]
      BY <1>2 DEF Pallet!Answers
    <2> DEFINE q == [r EXCEPT !.call = call]
    <2>2. /\ DOMAIN q = PalletFields /\ q.at = p.at /\ q.coming = p.coming /\ q.acting = p.acting /\ q.here = p.here
          /\ q.id = p.id /\ q.crowded = p.crowded /\ q.given = p.given /\ q.moved = p.moved /\ q.strayed = p.strayed /\ q.blind = p.blind
          /\ q.done = p.done /\ q.phase = p.phase /\ q.step = p.step /\ q.call = call /\ q.square = p.square /\ q.found = 0
      BY <1>0, <2>1 DEF PalletFields
    <2> HIDE DEF q
    <2>3. PalletShape(q)
      BY <1>0, <2>2 DEF PalletShape
    <2>4. ASSUME PalletFindings(p) PROVE PalletFindings(q)
      <3>1. p.square = p.here
        BY <1>2, <2>4 DEF PalletFindings
      <3>2. \A i \in Pallet!Ids : p.id \in {0, i} => p.at[i] # p.here
        BY <1>0, <1>2, <3>1 DEF Pallet!Matching, Pallet!Carriers, PalletShape
      <3>3. p.phase = "WaitingForAction" => p.given
        BY <2>4, <3>2 DEF PalletFindings
      <3>4. p.phase = "Preparing" => p.id = 0 /\ Apart(p, 0)
        BY <1>2, <2>4, <3>2 DEF PalletFindings, Apart
      <3> QED
        BY <1>2, <2>2, <2>4, <3>1, <3>3, <3>4 DEF PalletFindings, Apart
    <2>5. PalletElsewhere(p) \/ PalletFindings(q)
      BY <2>4 DEF PalletGood
    <2>6. q.done => p.done \/ p.given \/ PalletElsewhere(p)
      BY <2>2
    <2> QED
      BY <2>2, <2>3, <2>5, <2>6, PalletStepped DEF q
  <1>3. CASE p.step = "QueryObjects" /\ Pallet!Matching(p) # {}
    <2>1. PICK i \in Pallet!Matching(p) : r = [p EXCEPT !.found = i, !.id = i]
      BY <1>3 DEF Pallet!Answers
    <2> DEFINE q == [r EXCEPT !.call = call]
    <2>2. /\ DOMAIN q = PalletFields /\ q.at = p.at /\ q.coming = p.coming /\ q.acting = p.acting /\ q.here = p.here
          /\ q.id = i /\ q.crowded = p.crowded /\ q.given = p.given /\ q.moved = p.moved /\ q.strayed = p.strayed /\ q.blind = p.blind
          /\ q.done = p.done /\ q.phase = p.phase /\ q.step = p.step /\ q.call = call /\ q.square = p.square /\ q.found = i
      BY <1>0, <2>1 DEF PalletFields
    <2> HIDE DEF q
    <2>3. PalletShape(q)
      BY <1>0, <2>2 DEF PalletShape
    <2>4. i \in Pallet!Ids /\ p.at[i] = p.square /\ (p.id = 0 \/ p.id = i)
      BY DEF Pallet!Matching, Pallet!Carriers
    <2>5. ASSUME PalletFindings(p) PROVE PalletFindings(q)
      BY <1>0, <1>3, <2>2, <2>4, <2>5 DEF PalletFindings, Apart
    <2>6. ASSUME PalletPlaces(p) PROVE PalletPlaces(q)
      <3>1. p.acting # 0 => p.acting = i
        BY <2>4, <2>6 DEF PalletPlaces
      <3>2. \A k \in Pallet!Ids : p.coming[k] # NoWeapon => k = i /\ p.coming[k] = p.here /\ Apart(p, k)
        BY <1>0, <2>4, <2>6 DEF PalletPlaces
      <3>3. Pallet!Crowded(q) \subseteq q.crowded
        BY <2>2, <2>6, PalletCrowd DEF PalletPlaces
      <3> QED
        BY <2>2, <3>1, <3>2, <3>3 DEF PalletPlaces, Apart
    <2>7. PalletElsewhere(q) <=> PalletElsewhere(p)
      BY <2>2 DEF PalletElsewhere
    <2> QED
      BY <2>2, <2>3, <2>5, <2>6, <2>7 DEF PalletGood, q
  <1>4. CASE p.step = "CarrierSend"
    <2> DEFINE coming == [p.coming EXCEPT ![p.id] = p.square]
    <2>1. r = [p EXCEPT !.coming = coming]
      BY <1>4 DEF Pallet!Answers, Pallet!Sent
    <2>2. DOMAIN coming = Pallet!Ids /\ \A k \in Pallet!Ids : coming[k] = IF k = p.id THEN p.square ELSE p.coming[k]
      BY <1>0 DEF PalletShape
    <2> HIDE DEF coming
    <2> DEFINE q == [r EXCEPT !.call = call]
    <2>3. /\ DOMAIN q = PalletFields /\ q.at = p.at /\ q.coming = coming /\ q.acting = p.acting /\ q.here = p.here
          /\ q.id = p.id /\ q.crowded = p.crowded /\ q.given = p.given /\ q.moved = p.moved /\ q.strayed = p.strayed /\ q.blind = p.blind
          /\ q.done = p.done /\ q.phase = p.phase /\ q.step = p.step /\ q.call = call /\ q.square = p.square
      BY <1>0, <2>1 DEF PalletFields
    <2> HIDE DEF q
    <2>4. PalletShape(q)
      BY <1>0, <2>2, <2>3 DEF PalletShape
    <2>5. PalletFindings(p) => PalletFindings(q)
      BY <1>4, <2>3 DEF PalletFindings, Apart
    <2>6. ASSUME PalletFindings(p), PalletPlaces(p) PROVE PalletPlaces(q)
      <3>1. p.square = p.here /\ Apart(p, p.id)
        BY <1>4, <2>6 DEF PalletFindings
      <3>2. \A k \in Pallet!Ids : coming[k] # NoWeapon => k = p.id /\ coming[k] = p.here /\ Apart(p, k)
        BY <2>2, <2>6, <3>1 DEF PalletPlaces
      <3>3. Pallet!Crowded(q) \subseteq q.crowded
        BY <2>3, <2>6, PalletCrowd DEF PalletPlaces
      <3> QED
        BY <2>3, <2>6, <3>2, <3>3 DEF PalletPlaces, Apart
    <2>7. PalletElsewhere(q) <=> PalletElsewhere(p)
      BY <2>3 DEF PalletElsewhere
    <2> QED
      BY <2>3, <2>4, <2>5, <2>6, <2>7 DEF PalletGood, q
  <1>5. CASE p.step = "ActionSend"
    <2>1. r = [p EXCEPT !.acting = p.id]
      BY <1>5 DEF Pallet!Answers, Pallet!Sent
    <2> DEFINE q == [r EXCEPT !.call = call]
    <2>2. /\ DOMAIN q = PalletFields /\ q.at = p.at /\ q.coming = p.coming /\ q.acting = p.id /\ q.here = p.here
          /\ q.id = p.id /\ q.crowded = p.crowded /\ q.given = p.given /\ q.moved = p.moved /\ q.strayed = p.strayed /\ q.blind = p.blind
          /\ q.done = p.done /\ q.phase = p.phase /\ q.step = p.step /\ q.call = call /\ q.square = p.square
      BY <1>0, <2>1 DEF PalletFields
    <2> HIDE DEF q
    <2>3. PalletShape(q)
      BY <1>0, <2>2 DEF PalletShape
    <2>4. PalletFindings(p) => PalletFindings(q)
      BY <1>5, <2>2 DEF PalletFindings, Apart
    <2>5. PalletPlaces(p) => PalletPlaces(q)
      BY <2>2, PalletCrowd DEF PalletPlaces, Apart
    <2>6. PalletElsewhere(q) <=> PalletElsewhere(p)
      BY <2>2 DEF PalletElsewhere
    <2> QED
      BY <2>2, <2>3, <2>4, <2>5, <2>6 DEF PalletGood, q
  <1>6. CASE p.step \in {"CarrierPacket", "CarrierSet", "ActionSquare"}
    <2>1. r = p
      BY <1>6 DEF Pallet!Answers
    <2> DEFINE q == [r EXCEPT !.call = call]
    <2>2. /\ DOMAIN q = PalletFields /\ q.at = p.at /\ q.coming = p.coming /\ q.acting = p.acting /\ q.here = p.here
          /\ q.id = p.id /\ q.crowded = p.crowded /\ q.given = p.given /\ q.moved = p.moved /\ q.strayed = p.strayed /\ q.blind = p.blind
          /\ q.done = p.done /\ q.phase = p.phase /\ q.step = p.step /\ q.call = call /\ q.square = p.square
      BY <1>0, <2>1 DEF PalletFields
    <2> HIDE DEF q
    <2>3. PalletShape(q)
      BY <1>0, <2>2 DEF PalletShape
    <2>4. PalletFindings(p) => PalletFindings(q)
      BY <1>6, <2>2 DEF PalletFindings, Apart
    <2>5. PalletElsewhere(p) \/ PalletFindings(q)
      BY <2>4 DEF PalletGood
    <2>6. q.done => p.done \/ p.given \/ PalletElsewhere(p)
      BY <2>2
    <2> QED
      BY <2>2, <2>3, <2>5, <2>6, PalletStepped DEF q
  <1> QED
    BY <1>0, <1>1, <1>2, <1>3, <1>4, <1>5, <1>6 DEF PalletShape, Pallet!Steps

\* The next step of a request, from what its call has found.
LEMMA PalletNext ==
  ASSUME NEW p, PalletGood(p), NEW phase, NEW step, NEW call,
         phase \in Pallet!Phases \ {"Idle"}, step \in Pallet!Steps, call \in {"none", "queued"}, call = "none" <=> step = "None",
         NEW q, q = [p EXCEPT !.phase = phase, !.step = step, !.call = call],
         PalletFindings(p) => PalletFindings(q)
  PROVE  PalletGood(q)
  <1>1. /\ DOMAIN q = PalletFields /\ q.at = p.at /\ q.coming = p.coming /\ q.acting = p.acting /\ q.here = p.here
        /\ q.id = p.id /\ q.crowded = p.crowded /\ q.given = p.given /\ q.moved = p.moved /\ q.strayed = p.strayed /\ q.blind = p.blind
        /\ q.done = p.done /\ q.phase = phase /\ q.step = step /\ q.call = call /\ q.square = p.square
    BY DEF PalletGood, PalletShape, PalletFields
  <1>2. PalletElsewhere(p) \/ PalletFindings(q)
    BY DEF PalletGood
  <1>3. PalletShape(q)
    BY <1>1 DEF PalletGood, PalletShape
  <1>4. q.done => p.done \/ p.given \/ PalletElsewhere(p)
    BY <1>1
  <1> QED
    BY <1>1, <1>2, <1>3, <1>4, PalletStepped

LEMMA PalletUpdated ==
  ASSUME NEW p, PalletGood(p), p.phase # "Idle"
  PROVE  PalletGood(Pallet!Updated(p))
  <1>0. DOMAIN p = PalletFields /\ PalletShape(p) /\ p.phase \in Pallet!Phases \ {"Idle"} /\ p.step \in Pallet!Steps
    BY DEF PalletGood, PalletShape
  <1>1. CASE p.call = "queued"
    BY <1>1 DEF Pallet!Updated
  <1>2. CASE p.call = "failed"
    BY <1>2, PalletReset DEF Pallet!Updated
  <1>3. CASE p.call = "none"
    <2>1. p.step = "None"
      BY <1>0, <1>3 DEF PalletShape
    <2>2. Pallet!Updated(p) = [p EXCEPT !.step = "QuerySquare", !.call = "queued"]
      BY <1>3 DEF Pallet!Updated, Pallet!QueuePendingCall
    <2>3. [p EXCEPT !.step = "QuerySquare", !.call = "queued"] = [p EXCEPT !.phase = p.phase, !.step = "QuerySquare", !.call = "queued"]
      BY <1>0 DEF PalletFields
    <2>4. PalletFindings(p) => PalletFindings([p EXCEPT !.phase = p.phase, !.step = "QuerySquare", !.call = "queued"])
      BY <1>0, <2>1 DEF PalletFindings, PalletFields, Apart
    <2> DEFINE q == Pallet!Updated(p)
    <2>5. q = [p EXCEPT !.phase = p.phase, !.step = "QuerySquare", !.call = "queued"]
      BY <2>2, <2>3
    <2>6. PalletFindings(p) => PalletFindings(q)
      BY <2>4, <2>5
    <2> HIDE DEF q
    <2>7. PalletGood(q)
      BY <1>0, <2>5, <2>6, PalletNext DEF Pallet!Steps
    <2> QED
      BY <2>7 DEF q
  <1>4. CASE p.call = "done"
    <2>1. Pallet!Updated(p) = Pallet!HandlePendingStep(p)
      BY <1>4 DEF Pallet!Updated
    <2>2. p.step # "None"
      BY <1>0, <1>4 DEF PalletShape
    \* The step that follows another one.
    <2>3. ASSUME NEW phase, NEW step, NEW call,
                 phase \in Pallet!Phases \ {"Idle"}, step \in Pallet!Steps, call \in {"none", "queued"}, call = "none" <=> step = "None",
                 PalletFindings(p) => PalletFindings([p EXCEPT !.phase = phase, !.step = step, !.call = call]),
                 Pallet!Updated(p) = [p EXCEPT !.phase = phase, !.step = step, !.call = call]
          PROVE  PalletGood(Pallet!Updated(p))
      <3>1. PalletFindings(p) => PalletFindings(Pallet!Updated(p))
        BY <2>3
      <3> DEFINE q == Pallet!Updated(p)
      <3>2. q = [p EXCEPT !.phase = phase, !.step = step, !.call = call]
        BY <2>3
      <3> HIDE DEF q
      <3> QED
        BY <2>3, <3>1, <3>2, PalletNext DEF q
    <2>4. CASE p.step = "QuerySquare"
      <3>1. Pallet!Updated(p) = [p EXCEPT !.phase = p.phase, !.step = "QueryObjects", !.call = "queued"]
        BY <1>0, <1>4, <2>1, <2>2, <2>4 DEF Pallet!HandlePendingStep, Pallet!QueuePendingCall, Pallet!Waiting, Pallet!HandleTrapQueryResult,
              Pallet!Prepared, Pallet!Gone, PalletFields, Pallet!Steps, Pallet!Phases
      <3>2. PalletFindings(p) => PalletFindings([p EXCEPT !.phase = p.phase, !.step = "QueryObjects", !.call = "queued"])
        BY <1>0, <1>4, <2>4 DEF PalletFindings, PalletFields, Apart, Pallet!Phases
      <3> QED
        BY <1>0, <2>3, <3>1, <3>2 DEF Pallet!Steps, Pallet!Phases
    <2>5. CASE p.step = "CarrierSquare"
      <3>1. Pallet!Updated(p) = [p EXCEPT !.phase = p.phase, !.step = "CarrierPacket", !.call = "queued"]
        BY <1>0, <1>4, <2>1, <2>2, <2>5 DEF Pallet!HandlePendingStep, Pallet!QueuePendingCall, Pallet!Waiting, Pallet!HandleTrapQueryResult,
              Pallet!Prepared, Pallet!Gone, PalletFields, Pallet!Steps, Pallet!Phases
      <3>2. PalletFindings(p) => PalletFindings([p EXCEPT !.phase = p.phase, !.step = "CarrierPacket", !.call = "queued"])
        BY <1>0, <1>4, <2>5 DEF PalletFindings, PalletFields, Apart, Pallet!Phases
      <3> QED
        BY <1>0, <2>3, <3>1, <3>2 DEF Pallet!Steps, Pallet!Phases
    <2>6. CASE p.step = "CarrierPacket"
      <3>1. Pallet!Updated(p) = [p EXCEPT !.phase = p.phase, !.step = "CarrierSet", !.call = "queued"]
        BY <1>0, <1>4, <2>1, <2>2, <2>6 DEF Pallet!HandlePendingStep, Pallet!QueuePendingCall, Pallet!Waiting, Pallet!HandleTrapQueryResult,
              Pallet!Prepared, Pallet!Gone, PalletFields, Pallet!Steps, Pallet!Phases
      <3>2. PalletFindings(p) => PalletFindings([p EXCEPT !.phase = p.phase, !.step = "CarrierSet", !.call = "queued"])
        BY <1>0, <1>4, <2>6 DEF PalletFindings, PalletFields, Apart, Pallet!Phases
      <3> QED
        BY <1>0, <2>3, <3>1, <3>2 DEF Pallet!Steps, Pallet!Phases
    <2>7. CASE p.step = "CarrierSet"
      <3>1. Pallet!Updated(p) = [p EXCEPT !.phase = p.phase, !.step = "CarrierSend", !.call = "queued"]
        BY <1>0, <1>4, <2>1, <2>2, <2>7 DEF Pallet!HandlePendingStep, Pallet!QueuePendingCall, Pallet!Waiting, Pallet!HandleTrapQueryResult,
              Pallet!Prepared, Pallet!Gone, PalletFields, Pallet!Steps, Pallet!Phases
      <3>2. PalletFindings(p) => PalletFindings([p EXCEPT !.phase = p.phase, !.step = "CarrierSend", !.call = "queued"])
        BY <1>0, <1>4, <2>7 DEF PalletFindings, PalletFields, Apart, Pallet!Phases
      <3> QED
        BY <1>0, <2>3, <3>1, <3>2 DEF Pallet!Steps, Pallet!Phases
    <2>8. CASE p.step = "CarrierSend"
      <3>1. Pallet!Updated(p) = [p EXCEPT !.phase = "WaitingForTrap", !.step = "None", !.call = "none"]
        BY <1>0, <1>4, <2>1, <2>2, <2>8 DEF Pallet!HandlePendingStep, Pallet!QueuePendingCall, Pallet!Waiting, Pallet!HandleTrapQueryResult,
              Pallet!Prepared, Pallet!Gone, PalletFields, Pallet!Steps, Pallet!Phases
      <3>2. PalletFindings(p) => PalletFindings([p EXCEPT !.phase = "WaitingForTrap", !.step = "None", !.call = "none"])
        BY <1>0, <1>4, <2>8 DEF PalletFindings, PalletFields, Apart, Pallet!Phases
      <3> QED
        BY <1>0, <2>3, <3>1, <3>2 DEF Pallet!Steps, Pallet!Phases
    <2>9. CASE p.step = "ActionSquare"
      <3>1. Pallet!Updated(p) = [p EXCEPT !.phase = p.phase, !.step = "ActionSend", !.call = "queued"]
        BY <1>0, <1>4, <2>1, <2>2, <2>9 DEF Pallet!HandlePendingStep, Pallet!QueuePendingCall, Pallet!Waiting, Pallet!HandleTrapQueryResult,
              Pallet!Prepared, Pallet!Gone, PalletFields, Pallet!Steps, Pallet!Phases
      <3>2. PalletFindings(p) => PalletFindings([p EXCEPT !.phase = p.phase, !.step = "ActionSend", !.call = "queued"])
        BY <1>0, <1>4, <2>9 DEF PalletFindings, PalletFields, Apart, Pallet!Phases
      <3> QED
        BY <1>0, <2>3, <3>1, <3>2 DEF Pallet!Steps, Pallet!Phases
    <2>10. CASE p.step = "ActionSend"
      <3>1. Pallet!Updated(p) = [p EXCEPT !.phase = "WaitingForAction", !.step = "None", !.call = "none"]
        BY <1>0, <1>4, <2>1, <2>2, <2>10 DEF Pallet!HandlePendingStep, Pallet!QueuePendingCall, Pallet!Waiting, Pallet!HandleTrapQueryResult,
              Pallet!Prepared, Pallet!Gone, PalletFields, Pallet!Steps, Pallet!Phases
      <3>2. PalletFindings(p) => PalletFindings([p EXCEPT !.phase = "WaitingForAction", !.step = "None", !.call = "none"])
        BY <1>0, <1>4, <2>10 DEF PalletFindings, PalletFields, Apart, Pallet!Phases
      <3> QED
        BY <1>0, <2>3, <3>1, <3>2 DEF Pallet!Steps, Pallet!Phases
    <2>11. CASE p.step = "QueryObjects" /\ p.phase \in {"Preparing", "WaitingForTrap"} /\ p.found # 0
      <3>1. Pallet!Updated(p) = [p EXCEPT !.phase = p.phase, !.step = "ActionSquare", !.call = "queued"]
        BY ZenonT(60), <1>0, <1>4, <2>1, <2>2, <2>11 DEF Pallet!HandlePendingStep, Pallet!QueuePendingCall, Pallet!Waiting, Pallet!HandleTrapQueryResult,
              Pallet!Prepared, Pallet!Gone, PalletFields, Pallet!Steps, Pallet!Phases
      <3>2. PalletFindings(p) => PalletFindings([p EXCEPT !.phase = p.phase, !.step = "ActionSquare", !.call = "queued"])
        BY <1>0, <1>4, <2>11 DEF PalletFindings, PalletFields, Apart, Pallet!Phases
      <3> QED
        BY <1>0, <2>3, <3>1, <3>2 DEF Pallet!Steps, Pallet!Phases
    <2>12. CASE p.step = "QueryObjects" /\ (IF p.found = 0 THEN p.phase = "WaitingForTrap" ELSE p.phase = "WaitingForAction")
      <3>1. Pallet!Updated(p) = [p EXCEPT !.phase = p.phase, !.step = "None", !.call = "none"]
        BY <1>0, <1>4, <2>1, <2>2, <2>12 DEF Pallet!HandlePendingStep, Pallet!QueuePendingCall, Pallet!Waiting, Pallet!HandleTrapQueryResult,
              Pallet!Prepared, Pallet!Gone, PalletFields, Pallet!Steps, Pallet!Phases
      <3>2. PalletFindings(p) => PalletFindings([p EXCEPT !.phase = p.phase, !.step = "None", !.call = "none"])
        BY <1>0, <1>4, <2>12 DEF PalletFindings, PalletFields, Apart, Pallet!Phases
      <3> QED
        BY <1>0, <2>3, <3>1, <3>2 DEF Pallet!Steps, Pallet!Phases
    <2>13. CASE p.step = "QueryObjects" /\ p.phase = "WaitingForAction" /\ p.found = 0
      <3> DEFINE q == [p EXCEPT !.call = "none"]
      <3>1. DOMAIN q = PalletFields /\ q.phase = "WaitingForAction" /\ q.found = 0
        BY <1>0, <2>13 DEF PalletFields
      <3>2. Pallet!Updated(p) = [Pallet!Reset(q) EXCEPT !.done = TRUE]
        <4>1. Pallet!Updated(p) = Pallet!HandleTrapQueryResult(q)
          BY <2>1, <2>13 DEF Pallet!HandlePendingStep
        <4> HIDE DEF q
        <4> QED
          BY <3>1, <4>1 DEF Pallet!HandleTrapQueryResult, Pallet!Gone
      <3>3. Pallet!GivenUp(q) = q /\ Pallet!GivenUp(p) = p
        BY <1>0, <1>4 DEF Pallet!GivenUp, PalletFields
      <3>4. [Pallet!Reset(q) EXCEPT !.done = TRUE] = [Pallet!Reset(p) EXCEPT !.done = TRUE]
        BY <1>0, <3>3 DEF Pallet!Reset, PalletFields
      <3>5. p.given \/ PalletElsewhere(p)
        BY <1>4, <2>13 DEF PalletGood, PalletFindings
      <3> QED
        BY <3>2, <3>4, <3>5, PalletReset
    <2>14. CASE p.step = "QueryObjects" /\ p.phase = "Preparing" /\ p.found = 0
      <3> DEFINE last == p.last + 1
                 q == [p EXCEPT !.last = last, !.id = last, !.step = "CarrierSquare", !.call = "queued"]
      <3>1. Pallet!Updated(p) = q
        <4> DEFINE r == [p EXCEPT !.call = "none"]
        <4>1. Pallet!Updated(p) = Pallet!HandleTrapQueryResult(r)
          BY <2>1, <2>14 DEF Pallet!HandlePendingStep
        <4>2. DOMAIN r = PalletFields /\ r.phase = "Preparing" /\ r.found = 0 /\ r.last = p.last
          BY <1>0, <2>14 DEF PalletFields
        <4>3. [r EXCEPT !.last = last, !.id = last, !.step = "CarrierSquare", !.call = "queued"] = q
          BY <1>0 DEF PalletFields
        <4> HIDE DEF r
        <4>4. Pallet!HandleTrapQueryResult(r) = Pallet!BeginCarrierSend(r)
          BY <4>2 DEF Pallet!HandleTrapQueryResult, Pallet!Prepared, Pallet!Gone
        <4>5. Pallet!BeginCarrierSend(r) = [r EXCEPT !.last = last, !.id = last, !.step = "CarrierSquare", !.call = "queued"]
          BY <4>2 DEF Pallet!BeginCarrierSend, Pallet!QueuePendingCall, PalletFields
        <4> QED
          BY <4>1, <4>3, <4>4, <4>5
      <3>2. /\ DOMAIN q = PalletFields /\ q.at = p.at /\ q.coming = p.coming /\ q.acting = p.acting /\ q.here = p.here
            /\ q.id = last /\ q.crowded = p.crowded /\ q.given = p.given /\ q.moved = p.moved /\ q.strayed = p.strayed /\ q.blind = p.blind
            /\ q.done = p.done /\ q.phase = p.phase /\ q.step = "CarrierSquare" /\ q.call = "queued" /\ q.square = p.square
        BY <1>0 DEF PalletFields
      <3> HIDE DEF last, q
      <3>3. PalletShape(q)
        BY <1>0, <3>2 DEF PalletShape, Pallet!Steps
      <3>4. ASSUME PalletFindings(p), PalletPlaces(p) PROVE PalletFindings(q) /\ PalletPlaces(q)
        <4>1. p.id = 0 /\ \A j \in Pallet!Ids : p.at[j] # p.here /\ p.coming[j] = NoWeapon
          <5>1. 0 \notin Pallet!Ids
            BY FewAssumption DEF Pallet!Ids
          <5>2. p.id = 0 /\ Apart(p, 0)
            BY <1>4, <2>14, <3>4 DEF PalletFindings
          <5> QED
            BY <3>4, <5>1, <5>2 DEF PalletPlaces, Apart
        <4>2. PalletFindings(q)
          BY <2>14, <3>2, <4>1 DEF PalletFindings, Apart
        <4>3. Pallet!Crowded(q) \subseteq q.crowded
          BY <3>2, <3>4, PalletCrowd DEF PalletPlaces
        <4>4. p.acting = 0
          BY <3>4, <4>1 DEF PalletPlaces
        <4> QED
          BY <3>2, <4>1, <4>2, <4>3, <4>4 DEF PalletPlaces
      <3>5. PalletElsewhere(q) <=> PalletElsewhere(p)
        BY <3>2 DEF PalletElsewhere
      <3>6. PalletGood(q)
        BY <3>2, <3>3, <3>4, <3>5 DEF PalletGood
      <3> QED
        BY <3>1, <3>6
    <2> QED
      BY <1>0, <2>2, <2>4, <2>5, <2>6, <2>7, <2>8, <2>9, <2>10, <2>11, <2>12, <2>13, <2>14 DEF Pallet!Steps, Pallet!Phases
  <1> QED
    BY <1>0, <1>1, <1>2, <1>3, <1>4 DEF PalletShape

\* What is done on a square that cannot be read.
LEMMA PalletBlinded ==
  ASSUME NEW p, PalletGood(p), p.phase # "Idle"
  PROVE  PalletGood(Pallet!Blinded(p))
  <1> DEFINE r == [p EXCEPT !.found = 0, !.call = "none", !.blind = TRUE]
             q == Pallet!Blinded(p)
  <1>1. /\ DOMAIN r = PalletFields /\ r.here \in Places /\ DOMAIN r.at = Pallet!Ids /\ DOMAIN r.coming = Pallet!Ids
        /\ r.phase \in Pallet!Phases /\ r.phase # "Idle" /\ r.blind = TRUE /\ r.found = 0 /\ r.call = "none"
    BY DEF PalletGood, PalletShape, PalletFields
  <1>2. q = Pallet!HandleTrapQueryResult(r)
    BY DEF Pallet!Blinded
  <1> SUFFICES PalletGood(q)
    OBVIOUS
  <1> HIDE DEF q, r
  <1>3. ASSUME DOMAIN q = PalletFields, q.here = r.here, q.at = r.at, q.coming = r.coming, q.blind = r.blind,
               q.step \in Pallet!Steps, q.phase \in Pallet!Phases, q.call \in {"none", "queued"},
               q.call = "none" <=> q.step = "None", q.phase = "Idle" => q.step = "None"
        PROVE  PalletGood(q)
    <2>1. PalletShape(q)
      BY <1>1, <1>3 DEF PalletShape
    <2>2. PalletElsewhere(q)
      BY <1>1, <1>3 DEF PalletElsewhere
    <2> QED
      BY <2>1, <2>2 DEF PalletGood
  <1>4. CASE r.phase = "Preparing"
    <2> DEFINE id == r.last + 1
               b == [r EXCEPT !.last = id, !.id = id]
    <2>1. q = Pallet!BeginCarrierSend(r)
      BY <1>1, <1>2, <1>4 DEF Pallet!HandleTrapQueryResult, Pallet!Prepared, Pallet!Gone
    <2>2. q = [b EXCEPT !.step = "CarrierSquare", !.call = "queued"]
      BY <2>1 DEF Pallet!BeginCarrierSend, Pallet!QueuePendingCall
    <2>3. /\ DOMAIN b = PalletFields /\ b.here = r.here /\ b.at = r.at /\ b.coming = r.coming
          /\ b.blind = r.blind /\ b.phase = r.phase
      BY <1>1 DEF PalletFields
    <2> HIDE DEF id, b
    <2>4. /\ DOMAIN q = PalletFields /\ q.here = r.here /\ q.at = r.at /\ q.coming = r.coming
          /\ q.blind = r.blind /\ q.phase = r.phase /\ q.step = "CarrierSquare" /\ q.call = "queued"
      BY <2>2, <2>3 DEF PalletFields
    <2> QED
      BY <1>1, <1>3, <2>4 DEF Pallet!Steps
  <1>5. CASE r.phase = "WaitingForAction"
    <2>1. Pallet!GivenUp(r) = r
      BY <1>1 DEF Pallet!GivenUp
    <2>2. q = [Pallet!Reset(r) EXCEPT !.done = TRUE]
      BY <1>1, <1>2, <1>5 DEF Pallet!HandleTrapQueryResult, Pallet!Gone
    <2>3. Pallet!Reset(r) = [r EXCEPT !.phase = "Idle", !.step = "None", !.call = "none"]
      BY <2>1 DEF Pallet!Reset
    <2>4. /\ DOMAIN q = PalletFields /\ q.here = r.here /\ q.at = r.at /\ q.coming = r.coming
          /\ q.blind = r.blind /\ q.phase = "Idle" /\ q.step = "None" /\ q.call = "none"
      BY <1>1, <2>2, <2>3 DEF PalletFields
    <2> QED
      BY <1>3, <2>4 DEF Pallet!Steps, Pallet!Phases
  <1>6. CASE r.phase = "WaitingForTrap"
    <2>1. q = [r EXCEPT !.phase = r.phase, !.step = "None", !.call = "none"]
      BY <1>1, <1>2, <1>6 DEF Pallet!HandleTrapQueryResult, Pallet!Gone, Pallet!Waiting
    <2>2. /\ DOMAIN q = PalletFields /\ q.here = r.here /\ q.at = r.at /\ q.coming = r.coming
          /\ q.blind = r.blind /\ q.phase = r.phase /\ q.step = "None" /\ q.call = "none"
      BY <1>1, <2>1 DEF PalletFields
    <2> QED
      BY <1>1, <1>3, <2>2 DEF Pallet!Steps
  <1> QED
    BY <1>1, <1>4, <1>5, <1>6 DEF Pallet!Phases

LEMMA PalletStep == PalletInv /\ [Pallet!Next]_all => PalletInv'
  <1> SUFFICES ASSUME PalletGood(state), [Pallet!Next]_all PROVE PalletGood(state')
    BY DEF PalletInv, PalletGood, PalletShape, PalletElsewhere, PalletPlaces, PalletFindings, Apart, PalletFields, Pallet!Crowded, Pallet!Carriers, Pallet!Ids, Pallet!Steps, Pallet!Phases
  <1> DEFINE p == state
  <1>0. DOMAIN p = PalletFields /\ PalletShape(p) /\ 0 \notin Pallet!Ids
    BY FewAssumption DEF PalletGood, PalletShape, Pallet!Ids
  <1>1. CASE Pallet!Live
    <2>1. state' = [p EXCEPT !.moved = TRUE, !.at = Pallet!NoCarrier, !.coming = Pallet!NoCarrier, !.acting = 0]
      BY <1>1 DEF Pallet!Live
    <2>2. DOMAIN Pallet!NoCarrier = Pallet!Ids
      BY DEF Pallet!NoCarrier
    <2> QED
      BY <1>0, <2>1, <2>2 DEF PalletGood, PalletShape, PalletElsewhere, PalletFields
  <1>2. CASE Pallet!Move
    <2>1. PICK s \in Places : state' = [p EXCEPT !.here = s, !.moved = TRUE]
      BY <1>2 DEF Pallet!Move
    <2> QED
      BY <1>0, <2>1 DEF PalletGood, PalletShape, PalletElsewhere, PalletFields
  <1>3. CASE Pallet!Act
    <2>1. p.acting # 0
      BY <1>3 DEF Pallet!Act
    <2>2. CASE state' = [p EXCEPT !.acting = 0]
      <3> DEFINE q == [p EXCEPT !.acting = 0]
      <3>1. /\ DOMAIN q = PalletFields /\ q.at = p.at /\ q.coming = p.coming /\ q.acting = 0 /\ q.here = p.here
            /\ q.id = p.id /\ q.crowded = p.crowded /\ q.given = p.given /\ q.moved = p.moved /\ q.strayed = p.strayed /\ q.blind = p.blind
            /\ q.done = p.done /\ q.phase = p.phase /\ q.step = p.step /\ q.call = p.call /\ q.square = p.square /\ q.found = p.found
        BY <1>0 DEF PalletFields
      <3> HIDE DEF q
      <3>2. PalletShape(q)
        BY <1>0, <3>1 DEF PalletShape
      <3>3. PalletFindings(p) => PalletFindings(q)
        BY <3>1 DEF PalletFindings, Apart
      <3>4. PalletPlaces(p) => PalletPlaces(q)
        BY <3>1, PalletCrowd DEF PalletPlaces, Apart
      <3>5. PalletElsewhere(q) <=> PalletElsewhere(p)
        BY <3>1 DEF PalletElsewhere
      <3>6. PalletGood(q)
        BY <3>1, <3>2, <3>3, <3>4, <3>5 DEF PalletGood
      <3> QED
        BY <2>2, <3>6 DEF q
    <2>3. CASE state' = [p EXCEPT !.acting = 0, !.at[p.acting] = NoWeapon,
                        !.given = @ \/ p.acting = p.id, !.strayed = @ \/ p.acting # p.id]
      <3> DEFINE at == [p.at EXCEPT ![p.acting] = NoWeapon]
                 given == p.given \/ p.acting = p.id
                 strayed == p.strayed \/ p.acting # p.id
                 q == [p EXCEPT !.acting = 0, !.at = at, !.given = given, !.strayed = strayed]
      <3>1. state' = q
        BY <2>3
      <3>2. /\ DOMAIN at = Pallet!Ids /\ (\A i \in Pallet!Ids : at[i] = IF i = p.acting THEN NoWeapon ELSE p.at[i])
            /\ p.given => given
            /\ p.strayed => strayed
            /\ given \/ strayed
            /\ p.acting = p.id => (strayed <=> p.strayed) /\ given
            /\ p.acting # p.id => strayed
        BY <1>0 DEF PalletShape
      <3>3. /\ DOMAIN q = PalletFields /\ q.at = at /\ q.coming = p.coming /\ q.acting = 0 /\ q.here = p.here
            /\ q.id = p.id /\ q.crowded = p.crowded /\ q.given = given /\ q.moved = p.moved /\ q.strayed = strayed /\ q.blind = p.blind
            /\ q.done = p.done /\ q.phase = p.phase /\ q.step = p.step /\ q.call = p.call /\ q.square = p.square /\ q.found = p.found
        BY <1>0 DEF PalletFields
      <3> HIDE DEF q, at, given, strayed
      <3>4. PalletShape(q)
        BY <1>0, <3>2, <3>3 DEF PalletShape
      <3>5. ASSUME PalletPlaces(p), PalletFindings(p), ~strayed PROVE PalletPlaces(q) /\ PalletFindings(q)
        <4>1. given /\ \A i \in Pallet!Ids : at[i] = p.here => p.at[i] = p.here
          BY <1>0, <3>2, <3>5, PlaceAssumption DEF PalletShape
        <4>2. Pallet!Crowded(q) \subseteq Pallet!Crowded(p)
          <5> DEFINE i == p.acting
                     s == NoWeapon
          <5>1. \A j \in Pallet!Ids : q.at[j] = IF j = i THEN s ELSE p.at[j]
            BY <3>2, <3>3
          <5>2. PalletShape(p) /\ s = NoWeapon
            BY <1>0
          <5> HIDE DEF i, s
          <5> QED
            BY <5>1, <5>2, PalletPlaced
        <4>3. \A i : Apart(p, i) => Apart(q, i)
          BY <3>3, <4>1 DEF Apart
        <4>4. PalletPlaces(q)
          BY <3>3, <3>5, <4>2, <4>3 DEF PalletPlaces
        <4>5. PalletFindings(q)
          BY <3>3, <3>5, <4>1, <4>3 DEF PalletFindings
        <4> QED
          BY <4>4, <4>5
      <3>6. PalletElsewhere(p) => PalletElsewhere(q)
        BY <3>2, <3>3 DEF PalletElsewhere
      <3>7. PalletGood(q)
        BY <3>2, <3>3, <3>4, <3>5, <3>6 DEF PalletGood, PalletElsewhere
      <3> QED
        BY <3>1, <3>7
    <2> QED
      BY <1>3, <2>2, <2>3 DEF Pallet!Act
  <1>4. CASE Pallet!Runs
    <2>1. PICK r \in Pallet!Answers(p) :
            \/ state' = [r EXCEPT !.call = "done"]
            \/ \E q \in {p, r} : state' = [q EXCEPT !.call = "failed"]
      BY <1>4 DEF Pallet!Runs
    <2>2. p.call = "queued"
      BY <1>4 DEF Pallet!Runs
    <2>3. PalletGood([r EXCEPT !.call = "done"]) /\ PalletGood([r EXCEPT !.call = "failed"])
      BY <2>2, PalletAnswers
    <2>4. PalletGood([p EXCEPT !.call = "failed"])
      <3> DEFINE q == [p EXCEPT !.call = "failed"]
      <3>1. /\ DOMAIN q = PalletFields /\ q.at = p.at /\ q.coming = p.coming /\ q.acting = p.acting /\ q.here = p.here
            /\ q.id = p.id /\ q.crowded = p.crowded /\ q.given = p.given /\ q.moved = p.moved /\ q.strayed = p.strayed /\ q.blind = p.blind
            /\ q.done = p.done /\ q.phase = p.phase /\ q.step = p.step /\ q.call = "failed" /\ q.square = p.square
        BY <1>0 DEF PalletFields
      <3> HIDE DEF q
      <3>2. PalletShape(q)
        BY <1>0, <2>2, <3>1 DEF PalletShape
      <3>3. PalletFindings(p) => PalletFindings(q)
        BY <3>1 DEF PalletFindings, Apart
      <3>4. PalletElsewhere(p) \/ PalletFindings(q)
        BY <3>3 DEF PalletGood
      <3>5. q.done => p.done \/ p.given \/ PalletElsewhere(p)
        BY <3>1
      <3> QED
        BY <3>1, <3>2, <3>4, <3>5, PalletStepped DEF q
    <2> QED
      BY <2>1, <2>3, <2>4
  <1>5. CASE Pallet!RunsLate
    <2> DEFINE coming == [p.coming EXCEPT ![p.lateId] = p.lateSquare]
    <2>1. DOMAIN coming = Pallet!Ids
      BY <1>0 DEF PalletShape
    <2>2. \/ state' = [p EXCEPT !.coming = coming, !.late = "None", !.lateId = 0, !.lateSquare = NoWeapon, !.strayed = TRUE]
          \/ state' = [p EXCEPT !.acting = p.lateId, !.late = "None", !.lateId = 0, !.lateSquare = NoWeapon, !.strayed = TRUE]
      BY <1>0, <1>5 DEF Pallet!RunsLate, Pallet!Sent, PalletFields
    <2> HIDE DEF coming
    <2> QED
      BY <1>0, <2>1, <2>2 DEF PalletGood, PalletShape, PalletElsewhere, PalletFields
  <1>6. CASE Pallet!Update
    BY <1>6, PalletReset, PalletUpdated, PalletBlinded DEF Pallet!Update
  <1>7. CASE Pallet!Queue
    <2> DEFINE strayed == p.strayed \/ Pallet!Lingers(p)
               crowded == Pallet!Crowded(p)
               q == [p EXCEPT !.phase = "Preparing", !.id = 0, !.given = FALSE,
                  !.done = FALSE, !.moved = FALSE, !.blind = FALSE, !.strayed = strayed, !.crowded = crowded]
    <2>1. state' = q /\ p.phase = "Idle"
      BY <1>7 DEF Pallet!Queue
    <2>2. /\ DOMAIN q = PalletFields /\ q.at = p.at /\ q.coming = p.coming /\ q.acting = p.acting /\ q.here = p.here
          /\ q.id = 0 /\ q.crowded = crowded /\ q.given = FALSE /\ q.moved = FALSE /\ q.blind = FALSE /\ q.strayed = strayed
          /\ q.done = FALSE /\ q.phase = "Preparing" /\ q.step = p.step /\ q.call = p.call
      BY <1>0 DEF PalletFields
    <2>3. ~strayed => p.acting = 0 /\ \A i \in Pallet!Ids : p.coming[i] = NoWeapon
      BY DEF Pallet!Lingers, Pallet!NoCarrier
    <2> HIDE DEF q
    <2>4. Pallet!Crowded(q) \subseteq crowded
      BY <2>2, PalletCrowd
    <2> HIDE DEF strayed, crowded
    <2>5. p.step = "None" /\ p.call = "none"
      BY <1>0, <2>1 DEF PalletShape
    <2>6. PalletShape(q)
      BY <1>0, <2>2, <2>5 DEF PalletShape, Pallet!Phases
    <2>7. PalletFindings(q)
      BY <2>2, <2>5 DEF PalletFindings
    <2>8. strayed \/ PalletPlaces(q)
      BY <2>2, <2>3, <2>4 DEF PalletPlaces
    <2> QED
      BY <2>1, <2>2, <2>6, <2>7, <2>8 DEF PalletGood, PalletElsewhere
  <1>8. ASSUME NEW i \in Pallet!Ids, Pallet!Place(i) PROVE PalletGood(state')
    <2> DEFINE s == p.coming[i]
               at == [p.at EXCEPT ![i] = s]
               coming == [p.coming EXCEPT ![i] = NoWeapon]
               strayed == p.strayed \/ i # p.id
    <2>1. \/ state' = [p EXCEPT !.at = at, !.coming = coming, !.strayed = strayed]
          \/ state' = [p EXCEPT !.coming = coming]
      BY <1>8 DEF Pallet!Place
    <2>2. /\ s # NoWeapon
          /\ DOMAIN at = Pallet!Ids /\ \A j \in Pallet!Ids : at[j] = IF j = i THEN s ELSE p.at[j]
          /\ DOMAIN coming = Pallet!Ids /\ \A j \in Pallet!Ids : coming[j] = IF j = i THEN NoWeapon ELSE p.coming[j]
          /\ p.strayed => strayed
          /\ i # p.id => strayed
      BY <1>0, <1>8 DEF Pallet!Place, PalletShape
    <2> HIDE DEF s, at, coming, strayed
    <2>3. CASE state' = [p EXCEPT !.at = at, !.coming = coming, !.strayed = strayed]
      <3> DEFINE q == [p EXCEPT !.at = at, !.coming = coming, !.strayed = strayed]
      <3>1. /\ DOMAIN q = PalletFields /\ q.at = at /\ q.coming = coming /\ q.acting = p.acting /\ q.here = p.here
            /\ q.id = p.id /\ q.crowded = p.crowded /\ q.given = p.given /\ q.moved = p.moved /\ q.strayed = strayed /\ q.blind = p.blind
            /\ q.done = p.done /\ q.phase = p.phase /\ q.step = p.step /\ q.call = p.call /\ q.square = p.square /\ q.found = p.found
        BY <1>0 DEF PalletFields
      <3> HIDE DEF q
      <3>2. PalletShape(q)
        BY <1>0, <2>2, <3>1 DEF PalletShape
      <3>3. ASSUME PalletPlaces(p), PalletFindings(p), ~strayed PROVE PalletPlaces(q) /\ PalletFindings(q)
        <4>1. i = p.id /\ s = p.here /\ Apart(p, i) /\ i # 0
          BY <1>0, <2>2, <3>3 DEF PalletPlaces, s
        <4>2. Pallet!Crowded(q) \subseteq Pallet!Crowded(p)
          BY <1>0, <2>2, <3>1, <4>1, PalletPlaced
        <4>3. Apart(q, i)
          BY <2>2, <3>1, <4>1 DEF Apart
        <4>4. \A j \in Pallet!Ids : coming[j] = NoWeapon
          BY <2>2, <3>3, <4>1 DEF PalletPlaces
        <4>5. PalletPlaces(q)
          BY <3>1, <3>3, <4>2, <4>4 DEF PalletPlaces
        <4>6. at[p.id] = p.here
          BY <2>2, <4>1
        <4>7. PalletFindings(q)
          BY <3>1, <3>3, <4>1, <4>3, <4>6 DEF PalletFindings
        <4> QED
          BY <4>5, <4>7
      <3>4. PalletElsewhere(p) => PalletElsewhere(q)
        BY <2>2, <3>1 DEF PalletElsewhere
      <3> QED
        BY <2>3, <3>1, <3>2, <3>3, <3>4 DEF PalletGood, PalletElsewhere, q
    <2>4. CASE state' = [p EXCEPT !.coming = coming]
      <3> DEFINE q == [p EXCEPT !.coming = coming]
      <3>1. /\ DOMAIN q = PalletFields /\ q.at = p.at /\ q.coming = coming /\ q.acting = p.acting /\ q.here = p.here
            /\ q.id = p.id /\ q.crowded = p.crowded /\ q.given = p.given /\ q.moved = p.moved /\ q.strayed = p.strayed /\ q.blind = p.blind
            /\ q.done = p.done /\ q.phase = p.phase /\ q.step = p.step /\ q.call = p.call /\ q.square = p.square /\ q.found = p.found
        BY <1>0 DEF PalletFields
      <3> HIDE DEF q
      <3>2. PalletShape(q)
        BY <1>0, <2>2, <3>1 DEF PalletShape
      <3>3. PalletFindings(p) => PalletFindings(q)
        BY <3>1 DEF PalletFindings, Apart
      <3>4. PalletPlaces(p) => PalletPlaces(q)
        BY <2>2, <3>1, PalletCrowd DEF PalletPlaces, Apart
      <3>5. PalletElsewhere(q) <=> PalletElsewhere(p)
        BY <3>1 DEF PalletElsewhere
      <3> QED
        BY <2>4, <3>1, <3>2, <3>3, <3>4, <3>5 DEF PalletGood, q
    <2> QED
      BY <2>1, <2>3, <2>4
  <1>9. CASE UNCHANGED all
    BY <1>9 DEF all
  <1> QED
    BY <1>1, <1>2, <1>3, <1>4, <1>5, <1>6, <1>7, <1>8, <1>9 DEF Pallet!Next

LEMMA PalletKept == PalletInv => Pallet!AnnouncedIsGiven /\ Pallet!LeftoversAreUsed
  BY DEF PalletInv, PalletGood, PalletElsewhere, PalletPlaces, Pallet!AnnouncedIsGiven, Pallet!LeftoversAreUsed

-----------------------------------------------------------------------------
(* WeaponUnload: an empty weapon was emptied by the server once more than was counted. *)

CountedGood(u) ==
  /\ u.requested \in 0 .. 2 /\ u.remaining \in 0 .. 2 /\ u.made \in 0 .. 3
  /\ u.phase # "Idle" => u.remaining >= 1
  /\ u.requested - u.remaining <= u.made \/ u.unsent
  /\ u.phase # "Idle" /\ ~u.other /\ ~u.here => u.requested - u.remaining < u.made \/ u.unsent

CountedInv == CountedGood(state)

LEMMA CountedInit == Unload!Init => CountedInv
  BY DEF Unload!Init, CountedInv, CountedGood

\* The weapon is emptied.
LEMMA CountedEmptied ==
  ASSUME NEW u, UnloadGood(u), CountedGood(u), u.here
  PROVE  CountedGood(Unload!Emptied(u))
  <1> DEFINE made == IF u.there /\ u.made < 3 THEN u.made + 1 ELSE u.made
  <1>1. u.there \/ u.unsent
    BY DEF UnloadGood
  <1>2. /\ made \in 0 .. 3 /\ u.made <= made
        /\ u.requested - u.remaining <= made \/ u.unsent
        /\ u.phase # "Idle" => u.requested - u.remaining < made \/ u.unsent
    BY <1>1 DEF CountedGood
  <1>3. Unload!Emptied(u) = [u EXCEPT !.here = FALSE, !.there = FALSE, !.acting = FALSE, !.made = made]
    BY DEF Unload!Emptied
  <1> HIDE DEF made
  <1> QED
    BY <1>2, <1>3 DEF UnloadGood, UnloadFields, CountedGood

\* A frame that finds the weapon, or a call of which fails.
LEMMA CountedProceeded ==
  ASSUME NEW u, UnloadGood(u), CountedGood(u), Unload!Finds(u), u.phase # "Idle"
  PROVE  CountedGood(Unload!Proceeded(u)) /\ CountedGood(Unload!Failed(u))
  <1>0. DOMAIN u = UnloadFields /\ ~u.other /\ u.remaining \in 1 .. 2 /\ u.requested \in 0 .. 2 /\ u.made \in 0 .. 3
    BY DEF UnloadGood, CountedGood, Unload!Finds
  <1>1. CountedGood([u EXCEPT !.acting = TRUE, !.phase = "WaitingForCompletion"]) /\ CountedGood([u EXCEPT !.phase = "Idle"])
    BY <1>0 DEF CountedGood, UnloadFields
  <1> DEFINE n == u.remaining - 1
             c == [u EXCEPT !.remaining = n]
  <1>2. Unload!Counted(u) = c
    BY DEF Unload!Counted
  <1>3. ASSUME ~u.here PROVE n \in 0 .. 1 /\ (u.requested - n <= u.made \/ u.unsent)
    BY <1>0, <1>3 DEF CountedGood
  <1>4. n = 0 \/ n \in 1 .. 2
    BY <1>0
  <1>5. u.remaining = 1 <=> n = 0
    BY <1>0
  <1> HIDE DEF n
  <1>6. ASSUME ~u.here PROVE CountedGood([c EXCEPT !.phase = "Idle"])
    BY <1>0, <1>3, <1>6 DEF CountedGood, UnloadFields
  <1>7. ASSUME ~u.here, n # 0 PROVE CountedGood(Unload!Synced(c))
    BY <1>0, <1>3, <1>4, <1>7 DEF CountedGood, UnloadFields, Unload!Synced
  <1>8. ASSUME ~u.here PROVE CountedGood(Unload!Stopped(c))
    BY <1>0, <1>3, <1>8 DEF CountedGood, UnloadFields, Unload!Stopped
  <1>9. CountedGood(Unload!Proceeded(u))
    BY <1>1, <1>2, <1>5, <1>6, <1>7 DEF Unload!Proceeded, Unload!IsEmpty
  <1>10. CountedGood(Unload!Failed(u))
    BY <1>1, <1>2, <1>8 DEF Unload!Failed, Unload!IsEmpty
  <1> QED
    BY <1>9, <1>10

LEMMA CountedStep == UnloadInv /\ CountedInv /\ [Unload!Next]_all => CountedInv'
  <1> SUFFICES ASSUME UnloadGood(state), CountedGood(state), [Unload!Next]_all PROVE CountedGood(state')
    BY DEF UnloadInv, CountedInv, UnloadGood, UnloadFields, CountedGood
  <1>0. DOMAIN state = UnloadFields
    BY DEF UnloadGood
  <1>1. CASE Unload!Live
    BY <1>0, <1>1 DEF Unload!Live, CountedGood, UnloadFields
  <1>2. CASE Unload!Take
    <2> DEFINE held == ~state.held
    <2>1. state' = [state EXCEPT !.held = held]
      BY <1>2 DEF Unload!Take
    <2> HIDE DEF held
    <2> QED
      BY <1>0, <2>1 DEF CountedGood, UnloadFields
  <1>3. CASE Unload!Empty
    BY <1>3, CountedEmptied DEF Unload!Empty, UnloadGood
  <1>4. CASE Unload!Act
    <2>1. CASE state' = [state EXCEPT !.acting = FALSE]
      BY <1>0, <2>1 DEF CountedGood, UnloadFields
    <2>2. CASE state' = Unload!Emptied(state) /\ state.here
      BY <2>2, CountedEmptied
    <2>3. CASE state' = Unload!Emptied(state) /\ ~state.here
      <3>1. ~state.there
        BY <2>3 DEF UnloadGood
      <3>2. state' = [state EXCEPT !.here = FALSE, !.there = FALSE, !.acting = FALSE, !.made = state.made]
        BY <2>3, <3>1 DEF Unload!Emptied
      <3> QED
        BY <1>0, <2>3, <3>2 DEF CountedGood, UnloadFields
    <2> QED
      BY <1>4, <2>1, <2>2, <2>3 DEF Unload!Act
  <1>5. CASE Unload!Update
    <2>1. CASE state' = [state EXCEPT !.phase = "Idle"]
      BY <1>0, <2>1 DEF CountedGood, UnloadFields
    <2> QED
      BY <1>5, <2>1, CountedProceeded DEF Unload!Update
  <1>6. ASSUME NEW quantity \in 1 .. 2, Unload!Queue(quantity) PROVE CountedGood(state')
    <2> DEFINE n == IF state.kind = "ammo" THEN 1 ELSE quantity
               acting == state.acting
               u == [state EXCEPT !.other = FALSE, !.made = 0, !.unsent = acting, !.requested = n, !.remaining = n]
    <2>1. \/ state' = Unload!Synced(u)
          \/ state' = Unload!Refused([u EXCEPT !.remaining = u.requested])
      BY <1>6 DEF Unload!Queue
    <2>2. n \in 1 .. 2
      OBVIOUS
    <2> HIDE DEF n, acting
    <2>3. DOMAIN u = UnloadFields /\ u.requested = n /\ u.remaining = n /\ u.made = 0
      BY <1>0 DEF UnloadFields
    <2> HIDE DEF u
    <2>4. CountedGood(Unload!Synced(u)) /\ CountedGood(Unload!Refused([u EXCEPT !.remaining = u.requested]))
      BY <2>2, <2>3 DEF Unload!Synced, Unload!Refused, CountedGood, UnloadFields
    <2> QED
      BY <2>1, <2>4
  <1>7. CASE UNCHANGED all
    BY <1>7 DEF all
  <1> QED
    BY <1>1, <1>2, <1>3, <1>4, <1>5, <1>6, <1>7 DEF Unload!Next

LEMMA CountedKept == CountedInv => Unload!CountedWereMade
  BY DEF CountedInv, CountedGood, Unload!CountedWereMade

-----------------------------------------------------------------------------
(* The sum.                                                                *)

CONSTANT w1

MCCapacity == [w \in Weapons |-> IF w = w1 THEN 2 ELSE 3]

Exercises(component) == active = component /\ UNCHANGED active

Init ==
  \/ active = "Timed" /\ Timed!Init
  \/ active = "Health" /\ Health!Init
  \/ active = "Movement" /\ Movement!Init
  \/ active = "Resource" /\ Resource!Init
  \/ active = "Weapon" /\ Weapon!Init
  \/ active = "Carry" /\ Carry!Init
  \/ active = "MultiHit" /\ MultiHit!Init
  \/ active = "Build" /\ Build!Init
  \/ active = "Experience" /\ Experience!Init
  \/ active = "Stats" /\ Stats!Init
  \/ active = "Teleport" /\ Teleport!Init
  \/ active = "Override" /\ Override!Init
  \/ active = "Visuals" /\ Visuals!Init
  \/ active = "Item" /\ Item!Init
  \/ active = "Transfer" /\ Transfer!Init
  \/ active = "Corpse" /\ Corpse!Init
  \/ active = "Pallet" /\ Pallet!Init
  \/ active = "Unload" /\ Unload!Init
  \/ active = "Extension" /\ Extension!Init
  \/ active = "Hand" /\ Hand!Init
  \/ active = "Zombie" /\ Zombie!Init
  \/ active = "Job" /\ Job!Init
  \/ active = "Ghost" /\ Ghost!Init
  \/ active = "Creation" /\ Creation!Init
  \/ active = "Capture" /\ Capture!Init
  \/ active = "Material" /\ Material!Init
  \/ active = "Screen" /\ Screen!Init
  \/ active = "Launcher" /\ Launcher!Init
  \/ active = "Aim" /\ Aim!Init
  \/ active = "Medication" /\ Medication!Init
  \/ active = "Menu" /\ Menu!Init
  \/ active = "Namespace" /\ Namespace!Init

Next ==
  \/ Exercises("Timed") /\ Timed!Next
  \/ Exercises("Health") /\ Health!Next
  \/ Exercises("Movement") /\ Movement!Next
  \/ Exercises("Resource") /\ Resource!Next
  \/ Exercises("Weapon") /\ Weapon!Next
  \/ Exercises("Carry") /\ Carry!Next
  \/ Exercises("MultiHit") /\ MultiHit!Next
  \/ Exercises("Build") /\ Build!Next
  \/ Exercises("Experience") /\ Experience!Next
  \/ Exercises("Stats") /\ Stats!Next
  \/ Exercises("Teleport") /\ Teleport!Next
  \/ Exercises("Override") /\ Override!Next
  \/ Exercises("Visuals") /\ Visuals!Next
  \/ Exercises("Item") /\ Item!Next
  \/ Exercises("Transfer") /\ Transfer!Next
  \/ Exercises("Corpse") /\ Corpse!Next
  \/ Exercises("Pallet") /\ Pallet!Next
  \/ Exercises("Unload") /\ Unload!Next
  \/ Exercises("Extension") /\ Extension!Next
  \/ Exercises("Hand") /\ Hand!Next
  \/ Exercises("Zombie") /\ Zombie!Next
  \/ Exercises("Job") /\ Job!Next
  \/ Exercises("Ghost") /\ Ghost!Next
  \/ Exercises("Creation") /\ Creation!Next
  \/ Exercises("Capture") /\ Capture!Next
  \/ Exercises("Material") /\ Material!Next
  \/ Exercises("Screen") /\ Screen!Next
  \/ Exercises("Launcher") /\ Launcher!Next
  \/ Exercises("Aim") /\ Aim!Next
  \/ Exercises("Medication") /\ Medication!Next
  \/ Exercises("Menu") /\ Menu!Next
  \/ Exercises("Namespace") /\ Namespace!Next

Spec == Init /\ [][Next]_all

-----------------------------------------------------------------------------
(* The properties of the components, by what they are about.              *)

\* The types of the state.
BridgesTypeOK ==
  /\ active = "Timed" => Timed!TimedTypeOK
  /\ active = "Health" => Health!HealthTypeOK
  /\ active = "Movement" => Movement!MovementTypeOK
  /\ active = "Resource" => Resource!ResourceTypeOK
  /\ active = "Weapon" => Weapon!WeaponTypeOK
  /\ active = "Carry" => Carry!CarryTypeOK
  /\ active = "MultiHit" => MultiHit!MultiHitTypeOK
  /\ active = "Build" => Build!BuildTypeOK
  /\ active = "Experience" => Experience!ExperienceTypeOK
  /\ active = "Stats" => Stats!StatsTypeOK
  /\ active = "Teleport" => Teleport!TeleportTypeOK
  /\ active = "Override" => Override!OverrideTypeOK
  /\ active = "Visuals" => Visuals!VisualsTypeOK
  /\ active = "Item" => Item!ItemTypeOK
  /\ active = "Transfer" => Transfer!TransferTypeOK
  /\ active = "Corpse" => Corpse!CorpseTypeOK
  /\ active = "Pallet" => Pallet!PalletTypeOK
  /\ active = "Unload" => Unload!UnloadTypeOK
  /\ active = "Extension" => Extension!ExtensionTypeOK
  /\ active = "Hand" => Hand!HandTypeOK
  /\ active = "Zombie" => Zombie!ZombieTypeOK
  /\ active = "Job" => Job!JobTypeOK
  /\ active = "Ghost" => Ghost!GhostTypeOK
  /\ active = "Creation" => Creation!CreationTypeOK
  /\ active = "Capture" => Capture!CaptureTypeOK
  /\ active = "Material" => Material!MaterialTypeOK
  /\ active = "Screen" => Screen!ScreenTypeOK
  /\ active = "Launcher" => Launcher!LauncherTypeOK
  /\ active = "Aim" => Aim!AimTypeOK
  /\ active = "Medication" => Medication!MedicationTypeOK
  /\ active = "Menu" => Menu!MenuTypeOK
  /\ active = "Namespace" => Namespace!NamespaceTypeOK

\* What a bridge remembers, to put it back, is what the game had set, for the very player,
\* weapon, world or environment it is remembered for.
OriginalsAreTheGames ==
  /\ active = "Timed" => Timed!TimedOriginalIsOwn
  /\ active = "Carry" => Carry!SteadyEchoIsRecognised
  /\ active = "Weapon" => Weapon!OtherWeaponsAreUntouched
  /\ active = "MultiHit" => MultiHit!OriginalIsTheWorlds
  /\ active = "Build" => Build!OriginalFunctionsAreKept
  /\ active = "Medication" => Medication!PlayersKeepTheirFlags
  /\ active = "Override" => Override!SettingsAreRemembered
  /\ active = "Visuals" => Visuals!ClimateIsRemembered
  /\ active = "Hand" => Hand!WeaponsAreGivenBack /\ Hand!AlterationsStay
  /\ active = "Zombie" => Zombie!HeldZombiesAreRemembered
  /\ active = "Ghost" => Ghost!GhostsAreRetained
  /\ active = "Material" => Material!MaterialIsOfItsProgram
  /\ active = "Aim" => Aim!ChangedIsRemembered /\ Aim!RememberedIsTheGames

\* Where a feature is off, the game is as it was, whatever happened in between.
OffMeansRestored ==
  /\ active = "Timed" => Timed!TimedOffMeansOff
  /\ active = "Health" => Health!OnlyTheOwnerIsProtected
  /\ active = "Resource" => Resource!OffEndsPlain
  /\ active = "MultiHit" => MultiHit!ForgottenMeansRestored
  /\ active = "Override" => Override!WithdrawnMeansOwn
  /\ active = "Visuals" => Visuals!FrameObeys
  /\ active = "Extension" => Extension!ToolsHaveTheirPlayer
  /\ active = "Zombie" => Zombie!ChangesAreMarked
  /\ active = "Creation" => Creation!ModsStay
  /\ active = "Screen" => Screen!GameStateIsBack
  /\ active = "Aim" => Aim!OffIsOff /\ Aim!StoppedForATarget

\* The server knows what was changed here.
ServerIsTold ==
  /\ active = "Health" => Health!ServerKnowsTheBody
  /\ active = "Movement" => Movement!NoClipIsDeclared /\ Movement!DeclarationReachedTheServer
  /\ active = "Resource" => Resource!ServerKnowsTheRepairs
  /\ active = "Weapon" => Weapon!ServerKnowsTheJam
  /\ active = "Experience" => Experience!GainsAreKnown
  /\ active = "Stats" => Stats!StatsAgree /\ Stats!ServerKnowsTheInfection
  /\ active = "Teleport" => Teleport!ServerKnowsThePlace
  /\ active = "Unload" => Unload!ServerKnowsTheLoad
  /\ active = "Hand" => Hand!ServerKnowsTheClothes
  /\ active = "Zombie" => Zombie!ServerKnowsTheZombies
  /\ active = "Job" => Job!RemovedIsRemovedThere

\* The bookkeeping of a bridge agrees with the game: what it takes to be in force is, what
\* it counts as under way is, and nothing is done twice.
BooksAreRight ==
  /\ active = "Carry" => Carry!OneCarryUpdate
  /\ active = "Build" => Build!BelievedFlagIsReal
  /\ active = "Weapon" => Weapon!RefillsAreEarned
  /\ active = "Experience" => Experience!TrainingStaysWithItsPlayer
  /\ active = "Medication" => Medication!OneActionPerRequest
  /\ active = "Teleport" => Teleport!OneJumpPerPress /\ Teleport!OneJumpPerCooldown
  /\ active = "Visuals" => Visuals!OneLight
  /\ active = "Extension" => Extension!CommandsKeepTheirSession /\ Extension!MarkedRunsAreUnderWay
  /\ active = "Job" => Job!RefillsFindItEmpty /\ Job!TargetsAreCounted
  /\ active = "Ghost" => Ghost!HooksStandTogether
  /\ active = "Creation" => Creation!SkillsAreTheCharacters /\ Creation!ScriptIsOfTheEnvironment
  /\ active = "Capture" => Capture!ReferencesAreReturned /\ Capture!AskedIsListed /\ Capture!PaintedAsSeen /\ Capture!OwnModelIsMasked
  /\ active = "Screen" => Screen!TargetsAreOwn /\ Screen!CameraIsOfThisFrame /\ Screen!PaintedIsListed
  /\ active = "Launcher" => Launcher!NothingInUseIsFreed /\ Launcher!LoadedOnce /\ Launcher!PaintedWhole
  /\ active = "Aim" => Aim!OneSecondShot
  /\ active = "Menu" => Menu!TablesReachTheirOwn /\ Menu!ValuesStayWithTheirScript /\ Menu!ValuesAreInRange /\ Menu!SelectedIsListed
  /\ active = "Namespace" => Namespace!NamespaceIsThere /\ Namespace!FunctionsReachDispatch /\ Namespace!ClassesShareALoader

\* What a delivery of items, or of the trainer into the game, reports has arrived, all of it
\* and once, and it leaves nothing unfinished behind; where the code departs from this, in
\* a refused corpse payload and a square that cannot be read, by no more than
\* SuccessIsWhole and AnnouncedIsGiven say.
DeliveriesAreTrue ==
  /\ active = "Item" => Item!SuccessIsWhole /\ Item!ReportIsShortOfOne /\ Item!InventoryIsShown
  /\ active = "Transfer" => Transfer!CountedHaveArrived /\ Transfer!NothingStaysBehind
  /\ active = "Corpse" => Corpse!PlacedWhole /\ Corpse!AnnouncedIsPlaced
  /\ active = "Pallet" => Pallet!AnnouncedIsGiven /\ Pallet!LeftoversAreUsed
  /\ active = "Unload" => Unload!CountedWereMade
  /\ active = "Launcher" => Launcher!FailureLeavesNothing /\ Launcher!ShownIsOfThisAttempt

-----------------------------------------------------------------------------
(* What the bridges remember is what the game had, and what they change the server knows:
   for every number of players, weapons, places and requests.  The invariants of the
   components are those of BridgeInvariants. *)

\* The component that a behaviour exercises keeps its invariants.
BridgesInv ==
  /\ active = "Timed" => TimedInv
  /\ active = "Carry" => CarryInv
  /\ active = "Weapon" => WeaponInv /\ JamInv
  /\ active = "MultiHit" => MultiHitInv
  /\ active = "Build" => BuildInv
  /\ active = "Medication" => MedicationInv
  /\ active = "Override" => OverrideInv
  /\ active = "Visuals" => VisualsInv /\ ObeyedInv
  /\ active = "Hand" => HandInv /\ ClothesInv
  /\ active = "Zombie" => ZombieInv /\ ToldInv /\ MarkedInv
  /\ active = "Ghost" => GhostInv
  /\ active = "Material" => MaterialInv
  /\ active = "Aim" => AimInv /\ OffInv
  /\ active = "Health" => HealthInv /\ GuardInv
  /\ active = "Movement" => MovementInv
  /\ active = "Resource" => ResourceInv /\ PlainInv
  /\ active = "Experience" => ExperienceInv
  /\ active = "Stats" => StatsInv
  /\ active = "Teleport" => TeleportInv
  /\ active = "Unload" => UnloadInv /\ CountedInv
  /\ active = "Job" => JobInv
  /\ active = "Extension" => ToolsInv
  /\ active = "Creation" => CreationInv
  /\ active = "Screen" => ScreenInv
  /\ active = "Item" => ItemInv
  /\ active = "Transfer" => TransferInv
  /\ active = "Corpse" => CorpseInv
  /\ active = "Pallet" => PalletInv
  /\ active = "Launcher" => LauncherInv

LEMMA BridgesInit == Init => BridgesInv
  BY TimedInit, CarryInit, WeaponInit, JamInit, MultiHitInit, BuildInit, MedicationInit,
     OverrideInit, VisualsInit, HandInit, ClothesInit, ZombieInit, ToldInit, GhostInit,
     MaterialInit, AimInit, HealthInit, MovementInit, ResourceInit, ExperienceInit, StatsInit,
     TeleportInit, UnloadInit, JobInit, GuardInit, PlainInit, ObeyedInit, ToolsInit, MarkedInit,
     CreationInit, ScreenInit, OffInit, CountedInit, ItemInit, TransferInit, CorpseInit, PalletInit,
     LauncherInit
  DEF Init, BridgesInv

\* A component does what its own specification does, and leaves the choice of it alone.
LEMMA BridgesMove ==
  ASSUME [Next]_all
  PROVE  /\ active' = active
         /\ active = "Timed" => [Timed!Next]_all
         /\ active = "Carry" => [Carry!Next]_all
         /\ active = "Weapon" => [Weapon!Next]_all
         /\ active = "MultiHit" => [MultiHit!Next]_all
         /\ active = "Build" => [Build!Next]_all
         /\ active = "Medication" => [Medication!Next]_all
         /\ active = "Override" => [Override!Next]_all
         /\ active = "Visuals" => [Visuals!Next]_all
         /\ active = "Hand" => [Hand!Next]_all
         /\ active = "Zombie" => [Zombie!Next]_all
         /\ active = "Ghost" => [Ghost!Next]_all
         /\ active = "Material" => [Material!Next]_all
         /\ active = "Aim" => [Aim!Next]_all
         /\ active = "Health" => [Health!Next]_all
         /\ active = "Movement" => [Movement!Next]_all
         /\ active = "Resource" => [Resource!Next]_all
         /\ active = "Experience" => [Experience!Next]_all
         /\ active = "Stats" => [Stats!Next]_all
         /\ active = "Teleport" => [Teleport!Next]_all
         /\ active = "Unload" => [Unload!Next]_all
         /\ active = "Job" => [Job!Next]_all
         /\ active = "Extension" => [Extension!Next]_all
         /\ active = "Creation" => [Creation!Next]_all
         /\ active = "Screen" => [Screen!Next]_all
         /\ active = "Item" => [Item!Next]_all
         /\ active = "Transfer" => [Transfer!Next]_all
         /\ active = "Corpse" => [Corpse!Next]_all
         /\ active = "Pallet" => [Pallet!Next]_all
         /\ active = "Launcher" => [Launcher!Next]_all
         /\ active = "Capture" => [Capture!Next]_all
         /\ active = "Menu" => [Menu!Next]_all
         /\ active = "Namespace" => [Namespace!Next]_all
  BY DEF Next, Exercises, all

LEMMA BridgesStep == BridgesInv /\ [Next]_all => BridgesInv'
  <1> SUFFICES ASSUME BridgesInv, [Next]_all PROVE BridgesInv'
    OBVIOUS
  <1>1. active = "Timed" => TimedInv'
    BY BridgesMove, TimedStep DEF BridgesInv
  <1>2. active = "Carry" => CarryInv'
    BY BridgesMove, CarryStep DEF BridgesInv
  <1>3. active = "Weapon" => WeaponInv' /\ JamInv'
    BY BridgesMove, WeaponStep, JamStep DEF BridgesInv
  <1>4. active = "MultiHit" => MultiHitInv'
    BY BridgesMove, MultiHitStep DEF BridgesInv
  <1>5. active = "Build" => BuildInv'
    BY BridgesMove, BuildStep DEF BridgesInv
  <1>6. active = "Medication" => MedicationInv'
    BY BridgesMove, MedicationStep DEF BridgesInv
  <1>7. active = "Override" => OverrideInv'
    BY BridgesMove, OverrideStep DEF BridgesInv
  <1>8. active = "Visuals" => VisualsInv' /\ ObeyedInv'
    BY BridgesMove, VisualsStep, ObeyedStep DEF BridgesInv
  <1>9. active = "Hand" => HandInv' /\ ClothesInv'
    BY BridgesMove, HandStep, ClothesStep DEF BridgesInv
  <1>10. active = "Zombie" => ZombieInv' /\ ToldInv' /\ MarkedInv'
    BY BridgesMove, ZombieStep, ToldStep, MarkedStep DEF BridgesInv
  <1>11. active = "Ghost" => GhostInv'
    BY BridgesMove, GhostStep DEF BridgesInv
  <1>12. active = "Material" => MaterialInv'
    BY BridgesMove, MaterialStep DEF BridgesInv
  <1>13. active = "Aim" => AimInv' /\ OffInv'
    BY BridgesMove, AimStep, OffStep DEF BridgesInv
  <1>14. active = "Health" => HealthInv' /\ GuardInv'
    BY BridgesMove, HealthStep, GuardStep DEF BridgesInv
  <1>15. active = "Movement" => MovementInv'
    BY BridgesMove, MovementStep DEF BridgesInv
  <1>16. active = "Resource" => ResourceInv' /\ PlainInv'
    BY BridgesMove, ResourceStep, PlainStep DEF BridgesInv
  <1>17. active = "Experience" => ExperienceInv'
    BY BridgesMove, ExperienceStep DEF BridgesInv
  <1>18. active = "Stats" => StatsInv'
    BY BridgesMove, StatsStep DEF BridgesInv
  <1>19. active = "Teleport" => TeleportInv'
    BY BridgesMove, TeleportStep DEF BridgesInv
  <1>20. active = "Unload" => UnloadInv' /\ CountedInv'
    BY BridgesMove, UnloadStep, CountedStep DEF BridgesInv
  <1>21. active = "Job" => JobInv'
    BY BridgesMove, JobStep DEF BridgesInv
  <1>22. active = "Extension" => ToolsInv'
    BY BridgesMove, ToolsStep DEF BridgesInv
  <1>23. active = "Creation" => CreationInv'
    BY BridgesMove, CreationStep DEF BridgesInv
  <1>24. active = "Screen" => ScreenInv'
    BY BridgesMove, ScreenStep DEF BridgesInv
  <1>25. active = "Item" => ItemInv'
    BY BridgesMove, ItemStep DEF BridgesInv
  <1>26. active = "Transfer" => TransferInv'
    BY BridgesMove, TransferStep DEF BridgesInv
  <1>27. active = "Corpse" => CorpseInv'
    BY BridgesMove, CorpseStep DEF BridgesInv
  <1>28. active = "Pallet" => PalletInv'
    BY BridgesMove, PalletStep DEF BridgesInv
  <1>29. active = "Launcher" => LauncherInv'
    BY BridgesMove, LauncherStep DEF BridgesInv
  <1> QED
    BY BridgesMove, <1>1, <1>2, <1>3, <1>4, <1>5, <1>6, <1>7, <1>8, <1>9, <1>10, <1>11, <1>12, <1>13, <1>14, <1>15, <1>16, <1>17, <1>18, <1>19, <1>20, <1>21, <1>22, <1>23, <1>24, <1>25, <1>26, <1>27, <1>28, <1>29 DEF BridgesInv

\* Whatever the user asks for, whichever player, weapon, world or environment comes and goes,
\* and whatever call fails: what a bridge remembers is what the game had.
THEOREM OriginalsHold == Spec => []OriginalsAreTheGames
  <1>1. Init => BridgesInv
    BY BridgesInit
  <1>2. BridgesInv /\ [Next]_all => BridgesInv'
    BY BridgesStep
  <1>3. BridgesInv => OriginalsAreTheGames
    BY TimedKept, CarryKept, WeaponKept, MultiHitKept, BuildKept, MedicationKept, OverrideKept,
       VisualsKept, HandKept, ZombieKept, GhostKept, MaterialKeeps, AimKept
    DEF BridgesInv, OriginalsAreTheGames
  <1> QED
    BY ZenonT(60), <1>1, <1>2, <1>3, PTL DEF Spec

\* And in the same way: the server knows what was changed here, or the component knows that
\* a message to it failed, came too soon or went to a connection that is gone, or that it
\* could not read the session.
THEOREM ServerKnows == Spec => []ServerIsTold
  <1>1. Init => BridgesInv
    BY BridgesInit
  <1>2. BridgesInv /\ [Next]_all => BridgesInv'
    BY BridgesStep
  <1>3. BridgesInv => ServerIsTold
    BY HealthKept, MovementKept, ResourceKept, ExperienceKept, StatsKept, TeleportKept, UnloadKept,
       JobKept, JamKept, ClothesKept, ToldKept
    DEF BridgesInv, ServerIsTold
  <1> QED
    BY <1>1, <1>2, <1>3, PTL DEF Spec

\* And where a feature is off, or a frame went well, the game is as it was, but for what
\* could not be read or written, or was lost on its way to the server.
THEOREM OffIsRestored == Spec => []OffMeansRestored
  <1>1. Init => BridgesInv
    BY BridgesInit
  <1>2. BridgesInv /\ [Next]_all => BridgesInv'
    BY BridgesStep
  <1>3. BridgesInv => OffMeansRestored
    BY TimedKept, MultiHitKept, OverrideKept, GuardKept, PlainKept, ObeyedKept, ToolsKept, MarkedKept,
       CreationKept, ScreenKept, OffKept
    DEF BridgesInv, OffMeansRestored
  <1> QED
    BY <1>1, <1>2, <1>3, PTL DEF Spec

\* And what a delivery of items, or of the trainer into the game, reports has arrived, whole
\* and once, whichever call fails or comes late: unless the player went elsewhere, his
\* square could not be read, or an earlier request had its effect after it was given up;
\* and but for as many items more as refused corpse payloads struck off the count.
THEOREM DeliveriesHold == Spec => []DeliveriesAreTrue
  <1>1. Init => BridgesInv
    BY BridgesInit
  <1>2. BridgesInv /\ [Next]_all => BridgesInv'
    BY BridgesStep
  <1>3. BridgesInv => DeliveriesAreTrue
    BY ItemKept, TransferKept, CorpseKept, PalletKept, CountedKept, LauncherKept
    DEF BridgesInv, DeliveriesAreTrue
  <1> QED
    BY <1>1, <1>2, <1>3, PTL DEF Spec

\* The component that a behaviour exercises keeps its books.
BooksInv ==
  /\ active = "Carry" => Carry!OneCarryUpdate
  /\ active = "Build" => BuildBooks
  /\ active = "Weapon" => WeaponBooks
  /\ active = "Experience" => ExperienceBooks
  /\ active = "Medication" => MedicationBooks
  /\ active = "Teleport" => TeleportBooks
  /\ active = "Visuals" => VisualsBooks
  /\ active = "Extension" => ExtensionBooks
  /\ active = "Job" => JobBooks
  /\ active = "Ghost" => GhostBooks
  /\ active = "Creation" => CreationBooks
  /\ active = "Aim" => AimBooks
  /\ active = "Screen" => ScreenBooks
  /\ active = "Capture" => CaptureBooks
  /\ active = "Menu" => MenuBooks
  /\ active = "Namespace" => NamespaceBooks
  /\ active = "Launcher" => LauncherBooks

LEMMA BooksInit == Init => BooksInv
  BY CarryBooksInit, BuildBooksInit, WeaponBooksInit, ExperienceBooksInit,
     MedicationBooksInit, TeleportBooksInit, VisualsBooksInit, ExtensionBooksInit,
     JobBooksInit, GhostBooksInit, CreationBooksInit, AimBooksInit,
     ScreenBooksInit, CaptureBooksInit, MenuBooksInit, NamespaceBooksInit,
     LauncherBooksInit
  DEF Init, BooksInv

LEMMA BooksStep == BridgesInv /\ BooksInv /\ [Next]_all => BooksInv'
  <1> SUFFICES ASSUME BridgesInv, BooksInv, [Next]_all PROVE BooksInv'
    OBVIOUS
  <1>1. active = "Carry" => Carry!OneCarryUpdate'
    BY BridgesMove, CarryBooksStep DEF BridgesInv, BooksInv
  <1>2. active = "Build" => BuildBooks'
    BY BridgesMove, BuildBooksStep DEF BridgesInv, BooksInv
  <1>3. active = "Weapon" => WeaponBooks'
    BY BridgesMove, WeaponBooksStep DEF BridgesInv, BooksInv
  <1>4. active = "Experience" => ExperienceBooks'
    BY BridgesMove, ExperienceBooksStep DEF BridgesInv, BooksInv
  <1>5. active = "Medication" => MedicationBooks'
    BY BridgesMove, MedicationBooksStep DEF BridgesInv, BooksInv
  <1>6. active = "Teleport" => TeleportBooks'
    BY BridgesMove, TeleportBooksStep DEF BridgesInv, BooksInv
  <1>7. active = "Visuals" => VisualsBooks'
    BY BridgesMove, VisualsBooksStep DEF BridgesInv, BooksInv
  <1>8. active = "Extension" => ExtensionBooks'
    BY BridgesMove, ExtensionBooksStep DEF BridgesInv, BooksInv
  <1>9. active = "Job" => JobBooks'
    BY BridgesMove, JobBooksStep DEF BridgesInv, BooksInv
  <1>10. active = "Ghost" => GhostBooks'
    BY BridgesMove, GhostBooksStep DEF BridgesInv, BooksInv
  <1>11. active = "Creation" => CreationBooks'
    BY BridgesMove, CreationBooksStep DEF BridgesInv, BooksInv
  <1>12. active = "Aim" => AimBooks'
    BY BridgesMove, AimBooksStep DEF BooksInv
  <1>13. active = "Screen" => ScreenBooks'
    BY BridgesMove, ScreenBooksStep DEF BridgesInv, BooksInv
  <1>14. active = "Capture" => CaptureBooks'
    BY BridgesMove, CaptureBooksStep DEF BooksInv
  <1>15. active = "Menu" => MenuBooks'
    BY BridgesMove, MenuBooksStep DEF BooksInv
  <1>16. active = "Namespace" => NamespaceBooks'
    BY BridgesMove, NamespaceBooksStep DEF BooksInv
  <1>17. active = "Launcher" => LauncherBooks'
    BY BridgesMove, LauncherBooksStep DEF BridgesInv, BooksInv
  <1> QED
    BY BridgesMove, <1>1, <1>2, <1>3, <1>4, <1>5, <1>6, <1>7, <1>8, <1>9, <1>10, <1>11, <1>12, <1>13, <1>14, <1>15, <1>16, <1>17 DEF BooksInv

\* Whatever the user asks for, whichever player, script or object comes and goes, and
\* whatever call fails: what a component takes to be in force is, what it counts as under
\* way is, and nothing is done twice.
THEOREM BooksHold == Spec => []BooksAreRight
  <1>1. Init => BridgesInv /\ BooksInv
    BY BridgesInit, BooksInit
  <1>2. BridgesInv /\ BooksInv /\ [Next]_all => BridgesInv' /\ BooksInv'
    BY BridgesStep, BooksStep
  <1>3. BridgesInv /\ BooksInv => BooksAreRight
    BY BuildBooksKept, WeaponBooksKept, ExperienceBooksKept, MedicationBooksKept,
       TeleportBooksKept, VisualsBooksKept, ExtensionBooksKept, JobBooksKept,
       GhostBooksKept, CreationBooksKept, AimBooksKept, ScreenBooksKept,
       CaptureBooksKept, MenuBooksKept, NamespaceBooksKept, LauncherBooksKept
    DEF BridgesInv, BooksInv, BooksAreRight
  <1> QED
    BY ZenonT(60), <1>1, <1>2, <1>3, PTL DEF Spec
=============================================================================
