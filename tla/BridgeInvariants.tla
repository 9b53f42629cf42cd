-------------------------- MODULE BridgeInvariants --------------------------
(***************************************************************************)
(* What each component keeps for as long as it runs, and the proof: for    *)
(* component X an inductive invariant XInv, which its initial states       *)
(* satisfy (XInit), which every step of it preserves (XStep), and which    *)
(* implies what the user relies on (XKept): that what it remembers, to put *)
(* it back, is what the game had, or that the server knows what it changed.*)
(* A component that owes both has an invariant for each.  MCBridges goes   *)
(* on with what is as it was where a component is off, and puts the        *)
(* components side by side, and these facts together.                      *)
(*                                                                         *)
(* Most states are large records of which a property reads a few fields.   *)
(* A record is therefore described by its fields, and only what the        *)
(* property reads of it is typed.                                          *)
(***************************************************************************)
EXTENDS BridgeStates, TLAPS

LEMMA GameTyped == GameInit => GameTypeOK
  BY BoundAssumption DEF GameInit, GameTypeOK, Sessions

LEMMA PlayTyped == ASSUME GameTypeOK, Play PROVE GameTypeOK' /\ met \subseteq met'
  BY DEF GameTypeOK, Play, LeaveWorld, Respawn, EnterWorld, bounds, Sessions

-----------------------------------------------------------------------------
(* TimedAction: what is remembered of a player is what that player had, and a player who is
   not as the game has it is the one it is remembered for, or was given up. *)

Timed == INSTANCE TimedAction WITH timed <- state

TimedInv ==
  /\ GameTypeOK
  /\ Timed!TimedTypeOK
  /\ state.original # {} \/ state.applied => state.owner \in met
  /\ Timed!TimedOriginalIsOwn
  /\ \A p \in Players :
       state.instant[p] # state.own[p] =>
         p \in state.forfeited \/ (state.owner = p /\ state.original # {})
  /\ Timed!TimedOffMeansOff

LEMMA TimedInit == Timed!Init => TimedInv
  <1> SUFFICES ASSUME Timed!Init PROVE TimedInv
    OBVIOUS
  <1>1. GameTypeOK /\ met = {}
    BY GameTyped DEF Timed!Init, Timed!GameInit, GameInit
  <1>2. Timed!TimedTypeOK /\ state.original = {} /\ state.owner = NoPlayer /\ state.applied = FALSE
        /\ state.instant = state.own
    BY SMTT(30), <1>1 DEF Timed!Init, Timed!TimedTypeOK
  <1> QED
    BY <1>1, <1>2 DEF TimedInv, Timed!TimedOriginalIsOwn, Timed!TimedOffMeansOff

LEMMA TimedOwned ==
  ASSUME TimedInv, player # NoPlayer
  PROVE  /\ Timed!Owned \in [requested : BOOLEAN, applied : BOOLEAN, owner : met \cup {NoPlayer},
             original : {{}, {FALSE}, {TRUE}}, granted : BOOLEAN,
             instant : [Players -> BOOLEAN], own : [Players -> BOOLEAN],
             forfeited : SUBSET met]
         /\ Timed!Owned.owner = player
         /\ Timed!Owned.requested = state.requested /\ Timed!Owned.instant = state.instant
         /\ Timed!Owned.own = state.own
         /\ Timed!Owned.original # {} => player \in Timed!Owned.forfeited \/ Timed!Owned.original = {state.own[player]}
         /\ \A p \in Players : state.instant[p] # state.own[p] =>
              p \in Timed!Owned.forfeited \/ (player = p /\ Timed!Owned.original # {})
  <1> USE DEF TimedInv, GameTypeOK, Timed!TimedTypeOK, Timed!TimedOriginalIsOwn, Timed!Owned, Timed!Forget
  <1>1. CASE state.owner = player
    BY <1>1
  <1>2. CASE state.owner # player
    BY <1>2
  <1> QED
    BY <1>1, <1>2

LEMMA TimedStep == TimedInv /\ [Timed!Next]_all => TimedInv'
  <1> SUFFICES ASSUME TimedInv, [Timed!Next]_all PROVE TimedInv'
    OBVIOUS
  <1> USE DEF TimedInv, Timed!TimedOriginalIsOwn, Timed!TimedOffMeansOff, Timed!TimedTypeOK, GameTypeOK
  <1>1. CASE Timed!Play /\ UNCHANGED state
    <2>1. GameTypeOK' /\ met \subseteq met'
      BY <1>1, PlayTyped DEF Timed!Play, Timed!LeaveWorld, Timed!Respawn, Timed!EnterWorld, Timed!bounds,
         Timed!Sessions, Play, LeaveWorld, Respawn, EnterWorld, bounds, Sessions
    <2>2. player' = NoPlayer \/ player' \notin met
      BY <1>1 DEF Timed!Play, Timed!LeaveWorld, Timed!Respawn, Timed!EnterWorld
    <2>3. state \in [requested : BOOLEAN, applied : BOOLEAN, owner : met' \cup {NoPlayer},
             original : {{}, {FALSE}, {TRUE}}, granted : BOOLEAN,
             instant : [Players -> BOOLEAN], own : [Players -> BOOLEAN],
             forfeited : SUBSET met']
      <3>1. met \cup {NoPlayer} \subseteq met' \cup {NoPlayer} /\ SUBSET met \subseteq SUBSET met'
        BY <2>1
      <3> QED
        BY <3>1
    <2>4. Timed!TimedTypeOK'
      BY <1>1, <2>3
    <2>5. ~(state.applied /\ state.owner = player')
      BY <2>2, PlayerAssumption
    <2> QED
      BY <1>1, <2>1, <2>4, <2>5
  <1>2. CASE Timed!ChangeRole
    <2>1. state'.granted \in BOOLEAN
      BY <1>2 DEF Timed!ChangeRole
    <2>2. Timed!TimedTypeOK'
      BY <1>2, <2>1 DEF Timed!ChangeRole, Timed!game
    <2>3. GameTypeOK'
      BY <1>2, BoundAssumption DEF Timed!ChangeRole, Timed!game, Timed!Request
    <2>4. UNCHANGED <<state.requested, state.applied, state.owner, state.original, state.instant,
                      state.own, state.forfeited, player, met>>
      BY <1>2 DEF Timed!ChangeRole, Timed!game
    <2> QED
      BY ZenonT(60), <2>2, <2>3, <2>4
  <1>3. ASSUME NEW enabled \in BOOLEAN, Timed!SetTimedActionInstantEnabled(enabled) PROVE TimedInv'
    <2>1. GameTypeOK'
      BY <1>3, BoundAssumption DEF Timed!SetTimedActionInstantEnabled, Timed!game, Timed!Request
    <2>2. Timed!TimedTypeOK'
      BY <1>3 DEF Timed!SetTimedActionInstantEnabled, Timed!game
    <2>3. UNCHANGED <<state.owner, state.original, state.instant, state.own, state.forfeited, player, met>>
          /\ state'.applied = FALSE
      BY <1>3 DEF Timed!SetTimedActionInstantEnabled, Timed!game
    <2> QED
      BY ZenonT(60), <2>1, <2>2, <2>3
  <1>4. CASE Timed!Update
    <2> DEFINE Typed(s) == s \in [requested : BOOLEAN, applied : BOOLEAN, owner : met \cup {NoPlayer},
             original : {{}, {FALSE}, {TRUE}}, granted : BOOLEAN,
             instant : [Players -> BOOLEAN], own : [Players -> BOOLEAN],
             forfeited : SUBSET met]
    <2> HIDE DEF Typed
    <2>0. UNCHANGED <<player, session, met, requests>>
      BY <1>4 DEF Timed!Update, Timed!game
    <2>1. Timed!NoFault \/ Timed!Fault
      BY <1>4 DEF Timed!Update, Timed!UpdateWithoutPlayer, Timed!UpdateDenied,
         Timed!CaptureFails, Timed!Force, Timed!Restore
    <2>2. GameTypeOK'
      BY <2>0, <2>1, BoundAssumption DEF Timed!NoFault, Timed!Fault
    <2>3. CASE Timed!UpdateWithoutPlayer
      <3>1. Typed(state')
        BY <2>3 DEF Timed!UpdateWithoutPlayer, Typed
      <3>2. UNCHANGED <<state.requested, state.owner, state.original, state.instant, state.own,
                        state.forfeited>> /\ state'.applied = FALSE
        BY <2>3 DEF Timed!UpdateWithoutPlayer
      <3> QED
        BY ZenonT(60), <2>0, <2>2, <3>1, <3>2 DEF Typed
    <2>4. CASE Timed!UpdateDenied
      <3>1. Typed(state')
        BY <2>4 DEF Timed!UpdateDenied, Typed, Timed!Forget
      <3>2. /\ UNCHANGED <<state.instant, state.own>> /\ state'.applied = FALSE /\ state'.original = {}
            /\ state'.forfeited = IF state.original = {} THEN state.forfeited
                                  ELSE state.forfeited \cup {state.owner}
        BY <2>4 DEF Timed!UpdateDenied, Timed!Forget
      <3>3. state.original # {} => state.owner \in state'.forfeited
        BY <3>2
      <3> QED
        BY ZenonT(60), <2>0, <2>2, <3>1, <3>2, <3>3 DEF Typed
    <2>5. CASE player # NoPlayer /\ (Timed!CaptureFails \/ Timed!Force \/ Timed!Restore)
      <3> DEFINE o == Timed!Owned
      <3>1. /\ Typed(o) /\ o.owner = player /\ o.requested = state.requested
            /\ o.instant = state.instant /\ o.own = state.own
            /\ o.original # {} => player \in o.forfeited \/ o.original = {state.own[player]}
            /\ \A p \in Players : state.instant[p] # state.own[p] =>
                 p \in o.forfeited \/ (player = p /\ o.original # {})
        BY <2>5, TimedOwned DEF Typed
      <3>2. player \in Players /\ player \in met
        BY <2>5
      <3>3. state.instant[player] \in BOOLEAN
        BY <3>2
      <3> HIDE DEF o
      <3>4. CASE Timed!CaptureFails
        <4>1. state' = [o EXCEPT !.applied = FALSE]
          BY <3>4 DEF Timed!CaptureFails, o
        <4>2. Typed(state')
          BY <4>1, <3>1 DEF Typed
        <4>3. /\ state'.owner = player /\ state'.own = state.own /\ state'.original = o.original
              /\ ~state'.applied /\ state'.forfeited = o.forfeited /\ state'.instant = state.instant
          BY <4>1, <3>1 DEF Typed
        <4>4. state'.original = {}
          BY <4>3, <3>4 DEF Timed!CaptureFails, o
        <4>c1. Timed!TimedTypeOK'
          BY <4>2, <4>3, <4>4, <3>1, <3>2, <2>0 DEF Typed
        <4>c2. (state.original # {} \/ state.applied => state.owner \in met)'
          BY <4>2, <4>3, <4>4, <3>1, <3>2, <2>0 DEF Typed
        <4>c3. Timed!TimedOriginalIsOwn'
          BY <4>2, <4>3, <4>4, <3>1, <3>2, <2>0 DEF Typed
        <4>c4. (\A p \in Players : state.instant[p] # state.own[p] =>
             p \in state.forfeited \/ (state.owner = p /\ state.original # {}))'
          BY <4>2, <4>3, <4>4, <3>1, <3>2, <2>0 DEF Typed
        <4>c5. Timed!TimedOffMeansOff'
          BY <4>2, <4>3, <4>4, <3>1, <3>2, <2>0 DEF Typed
        <4> QED
          BY <4>c1, <4>c2, <4>c3, <4>c4, <4>c5, <2>2
      <3>5. CASE Timed!Force
        <4> DEFINE c == Timed!Captured
        <4>1. /\ Typed(c) /\ c.owner = player /\ c.requested = state.requested /\ c.own = state.own
              /\ c.instant = state.instant /\ c.original # {} /\ c.forfeited = o.forfeited
              /\ player \in c.forfeited \/ c.original = {state.own[player]}
          <5>1. CASE o.original # {}
            BY <5>1, <3>1 DEF Timed!Captured, o
          <5>2. CASE o.original = {}
            <6>1. c = [o EXCEPT !.original = {state.instant[player]}]
              BY <5>2 DEF Timed!Captured, o
            <6>2. {state.instant[player]} \in {{}, {FALSE}, {TRUE}}
              BY <3>3
            <6>3. state.instant[player] = state.own[player] \/ player \in o.forfeited
              BY <5>2, <3>1, <3>2
            <6> QED
              BY <6>1, <6>2, <6>3, <3>1 DEF Typed
          <5> QED
            BY <5>1, <5>2
        <4> HIDE DEF c
        <4>2. \E set, ok \in BOOLEAN : state' = [c EXCEPT !.instant[player] = set, !.applied = ok] /\ state.requested
          BY <3>5, <3>3 DEF Timed!Force, c
        <4>3. PICK set \in BOOLEAN, ok \in BOOLEAN :
                state' = [c EXCEPT !.instant[player] = set, !.applied = ok] /\ state.requested
          BY <4>2
        <4>4. Typed(state')
          BY <4>1, <4>3 DEF Typed
        <4>5. /\ state'.requested /\ state'.owner = player /\ state'.own = state.own
              /\ state'.original = c.original /\ state'.forfeited = o.forfeited
              /\ state'.instant = [state.instant EXCEPT ![player] = set]
          BY <4>1, <4>3 DEF Typed
        <4>c1. Timed!TimedTypeOK'
          BY <4>1, <4>4, <4>5, <3>1, <3>2, <2>0 DEF Typed
        <4>c2. (state.original # {} \/ state.applied => state.owner \in met)'
          BY <4>1, <4>4, <4>5, <3>1, <3>2, <2>0 DEF Typed
        <4>c3. Timed!TimedOriginalIsOwn'
          BY <4>1, <4>4, <4>5, <3>1, <3>2, <2>0 DEF Typed
        <4>c4. (\A p \in Players : state.instant[p] # state.own[p] =>
             p \in state.forfeited \/ (state.owner = p /\ state.original # {}))'
          BY <4>1, <4>4, <4>5, <3>1, <3>2, <2>0 DEF Typed
        <4>c5. Timed!TimedOffMeansOff'
          BY <4>1, <4>4, <4>5, <3>1, <3>2, <2>0 DEF Typed
        <4> QED
          BY <4>c1, <4>c2, <4>c3, <4>c4, <4>c5, <2>2
      <3>6. CASE Timed!Restore
        <4>1. CASE state' = [o EXCEPT !.applied = TRUE, !.original = {},
                       !.instant[player] = IF o.original = {} THEN @
                                           ELSE CHOOSE b \in o.original : TRUE]
          <5> DEFINE back == IF o.original = {} THEN state.instant[player]
                             ELSE CHOOSE b \in o.original : TRUE
          <5>1. back \in BOOLEAN
            <6>1. CASE o.original = {}
              BY <6>1, <3>3
            <6>2. CASE o.original # {}
              <7>1. o.original \in {{FALSE}, {TRUE}}
                BY <6>2, <3>1 DEF Typed
              <7> QED
                BY <7>1
            <6> QED
              BY <6>1, <6>2
          <5>2. player \in o.forfeited \/ back = state.own[player]
            <6>1. CASE o.original = {}
              BY <6>1, <3>1, <3>2
            <6>2. CASE o.original # {} /\ player \notin o.forfeited
              <7>1. o.original = {state.own[player]}
                BY <6>2, <3>1
              <7> QED
                BY <7>1
            <6> QED
              BY <6>1, <6>2
          <5>3. state' = [o EXCEPT !.applied = TRUE, !.original = {}, !.instant[player] = back]
            BY <4>1, <3>1
          <5> HIDE DEF back
          <5>4. Typed(state')
            BY <5>1, <5>3, <3>1 DEF Typed
          <5>5. /\ state'.owner = player /\ state'.own = state.own /\ state'.original = {}
                /\ state'.forfeited = o.forfeited /\ state'.instant = [state.instant EXCEPT ![player] = back]
            BY <5>3, <3>1 DEF Typed
          <5>6. state'.instant[player] = back /\ \A p \in Players \ {player} : state'.instant[p] = state.instant[p]
            BY <5>5, <3>2
          <5>c1. Timed!TimedTypeOK'
            BY <5>2, <5>4, <5>5, <5>6, <3>1, <3>2, <2>0 DEF Typed
          <5>c2. (state.original # {} \/ state.applied => state.owner \in met)'
            BY <5>2, <5>4, <5>5, <5>6, <3>1, <3>2, <2>0 DEF Typed
          <5>c3. Timed!TimedOriginalIsOwn'
            BY <5>2, <5>4, <5>5, <5>6, <3>1, <3>2, <2>0 DEF Typed
          <5>c4. (\A p \in Players : state.instant[p] # state.own[p] =>
               p \in state.forfeited \/ (state.owner = p /\ state.original # {}))'
            BY <5>2, <5>4, <5>5, <5>6, <3>1, <3>2, <2>0 DEF Typed
          <5>c5. Timed!TimedOffMeansOff'
            BY <5>2, <5>4, <5>5, <5>6, <3>1, <3>2, <2>0 DEF Typed
          <5> QED
            BY <5>c1, <5>c2, <5>c3, <5>c4, <5>c5, <2>2
        <4>2. CASE \E set \in o.original \cup {state.instant[player]} :
                     o.original # {} /\ state' = [o EXCEPT !.applied = FALSE, !.instant[player] = set]
          <5>1. PICK set \in o.original \cup {state.instant[player]} :
                  o.original # {} /\ state' = [o EXCEPT !.applied = FALSE, !.instant[player] = set]
            BY <4>2
          <5>2. set \in BOOLEAN
            BY <5>1, <3>1, <3>3 DEF Typed
          <5>3. Typed(state')
            BY <5>1, <5>2, <3>1 DEF Typed
          <5>4. /\ state'.owner = player /\ state'.own = state.own /\ state'.original = o.original
                /\ ~state'.applied
                /\ state'.forfeited = o.forfeited /\ state'.instant = [state.instant EXCEPT ![player] = set]
            BY <5>1, <3>1 DEF Typed
          <5>5. \A p \in Players \ {player} : state'.instant[p] = state.instant[p]
            BY <5>4, <3>2
          <5>c1. Timed!TimedTypeOK'
            BY <5>1, <5>3, <5>4, <5>5, <3>1, <3>2, <2>0 DEF Typed
          <5>c2. (state.original # {} \/ state.applied => state.owner \in met)'
            BY <5>1, <5>3, <5>4, <5>5, <3>1, <3>2, <2>0 DEF Typed
          <5>c3. Timed!TimedOriginalIsOwn'
            BY <5>1, <5>3, <5>4, <5>5, <3>1, <3>2, <2>0 DEF Typed
          <5>c4. (\A p \in Players : state.instant[p] # state.own[p] =>
               p \in state.forfeited \/ (state.owner = p /\ state.original # {}))'
            BY <5>1, <5>3, <5>4, <5>5, <3>1, <3>2, <2>0 DEF Typed
          <5>c5. Timed!TimedOffMeansOff'
            BY <5>1, <5>3, <5>4, <5>5, <3>1, <3>2, <2>0 DEF Typed
          <5> QED
            BY <5>c1, <5>c2, <5>c3, <5>c4, <5>c5, <2>2
        <4> QED
          BY <3>6, <4>1, <4>2 DEF Timed!Restore, o
      <3> QED
        BY <2>5, <3>4, <3>5, <3>6
    <2> QED
      BY <1>4, <2>3, <2>4, <2>5 DEF Timed!Update
  <1>5. CASE UNCHANGED all
    BY <1>5 DEF all, game, bounds
  <1> QED
    BY <1>1, <1>2, <1>3, <1>4, <1>5 DEF Timed!Next

LEMMA TimedKept == TimedInv => Timed!TimedOriginalIsOwn /\ Timed!TimedOffMeansOff
  BY DEF TimedInv

-----------------------------------------------------------------------------
(* PlayerCarry: while the settings stay as they are, the weight is the game's or an echo of
   the one weight that was sent, and that one is the product of the game's. *)

LEMMA CarryInit == Carry!Init => CarryInv
  BY CarryAssumption DEF Carry!Init, CarryInv, CarryGood, CarryStates, Carry!GameInit, Carry!Unknown

LEMMA CarryCapped == \A w \in Nat : Carry!Capped(w) \in 0 .. MaxWeight
  BY CarryAssumption DEF Carry!Capped

LEMMA CarryProduct == \A w \in 0 .. MaxWeight, f \in Factors : w * f \in Nat
  BY CarryAssumption

\* What scaledWeight remembers and what it returns.
LEMMA CarryBased ==
  ASSUME NEW c \in CarryStates
  PROVE  /\ Carry!Based(c) \in CarryStates
         /\ Carry!Scaled(c) \in 0 .. MaxWeight
         /\ \A s \in {"none", "publish", "finish"} : LET b == [Carry!Based(c) EXCEPT !.step = s] IN
              /\ b \in CarryStates /\ b.step = s /\ (s = c.step => b = Carry!Based(c))
              /\ b.requested = c.requested /\ b.factor = c.factor /\ b.raw = c.raw /\ b.last = c.last
              /\ b.active = c.active /\ b.target = c.target /\ b.previous = c.previous
              /\ b.echoes = c.echoes /\ b.disturbed = c.disturbed
              /\ b.base = IF c.requested /\ c.target = player /\ c.raw # c.last THEN c.raw ELSE c.base
              /\ c.requested /\ c.target = player => Carry!Scaled(c) = Carry!Capped(b.base * c.factor)
              /\ ~(c.requested /\ c.target = player) => Carry!Scaled(c) = c.raw
  <1> DEFINE based == Carry!Based(c)
             own == IF c.requested /\ c.target = player /\ c.raw # c.last THEN c.raw ELSE c.base
  <1>1. based \in CarryStates /\ own \in 0 .. MaxWeight /\ based = [c EXCEPT !.base = own]
    <2>1. CASE c.requested /\ c.target = player /\ c.raw # c.last
      BY <2>1 DEF Carry!Based, CarryStates
    <2>2. CASE ~(c.requested /\ c.target = player /\ c.raw # c.last)
      BY <2>2 DEF Carry!Based, CarryStates
    <2> QED
      BY <2>1, <2>2
  <1>2. Carry!Scaled(c) = IF c.requested /\ c.target = player THEN Carry!Capped(based.base * c.factor) ELSE c.raw
    BY DEF Carry!Scaled
  <1> HIDE DEF based, own
  <1>3. based.base \in 0 .. MaxWeight /\ c.factor \in Factors /\ c.raw \in 0 .. MaxWeight
    BY <1>1 DEF CarryStates
  <1>4. Carry!Scaled(c) \in 0 .. MaxWeight
    BY <1>2, <1>3, CarryCapped, CarryProduct
  <1>5. ASSUME NEW s \in {"none", "publish", "finish"}
        PROVE LET b == [based EXCEPT !.step = s] IN
              /\ b \in CarryStates /\ b.step = s /\ b.base = based.base
              /\ b.requested = c.requested /\ b.factor = c.factor /\ b.raw = c.raw /\ b.last = c.last
              /\ b.active = c.active /\ b.target = c.target /\ b.previous = c.previous
              /\ b.echoes = c.echoes /\ b.disturbed = c.disturbed
              /\ b.base = own /\ (s = c.step => b = based)
    BY <1>1 DEF CarryStates
  <1> QED
    BY <1>1, <1>2, <1>4, <1>5 DEF based, own

\* Fields that do not matter once no update runs.
LEMMA CarrySame ==
  ASSUME NEW c, NEW p, NEW t, CarryGood(c, p), t \in CarryStates,
         t.requested = c.requested, t.factor = c.factor, t.raw = c.raw, t.base = c.base, t.last = c.last,
         t.active = c.active, t.previous = c.previous, t.echoes = c.echoes,
         t.target \in {c.target, NoPlayer}, t.step \in {c.step, "none"}, t.disturbed = c.disturbed
  PROVE  CarryGood(t, p)
  BY DEF CarryGood, CarrySteady

LEMMA CarryStep == CarryInv /\ [Carry!Next]_all => CarryInv'
  <1> SUFFICES ASSUME CarryInv, [Carry!Next]_all PROVE CarryInv'
    OBVIOUS
  <1>0. /\ CarryGood(state, player) /\ state \in CarryStates
        /\ met \subseteq Players /\ {player, state.target, state.previous} \subseteq met \cup {NoPlayer}
    BY DEF CarryInv, CarryGood
  <1> SUFFICES /\ CarryGood(state', player')
               /\ met' \subseteq Players /\ {player', state'.target, state'.previous} \subseteq met' \cup {NoPlayer}
    BY DEF CarryInv, CarryGood, CarryStates, CarrySteady
  <1> DEFINE Known == met' \subseteq Players /\ {player', state'.target, state'.previous} \subseteq met' \cup {NoPlayer}
  <1>1. CASE Carry!Live
    <2>1. state' \in CarryStates
      BY <1>0, <1>1, CarryAssumption DEF Carry!Live, CarryStates
    <2>2. /\ state'.target = state.target /\ state'.previous = state.previous
          /\ state'.raw = OwnWeight /\ state'.echoes = {} /\ state'.step = "none"
      BY <1>0, <1>1 DEF Carry!Live, CarryStates
    <2>3. /\ {player'} \subseteq met' \cup {NoPlayer} /\ met \subseteq met' /\ met' \subseteq Players
          /\ player' # NoPlayer => player' \notin met
      BY <1>0, <1>1, PlayerAssumption DEF Carry!Live, Carry!Play, Carry!LeaveWorld, Carry!Respawn, Carry!EnterWorld
    <2>4. player' # NoPlayer => state'.target # player' /\ state'.previous # player'
      BY <1>0, <2>2, <2>3
    <2> QED
      BY <1>0, <2>1, <2>2, <2>3, <2>4 DEF CarryGood
  <1>2. CASE Carry!ReadWeight
    <2> DEFINE b == [Carry!Based(state) EXCEPT !.step = "none"]
    <2>1. state' = b /\ state.step = "none"
      BY <1>0, <1>2, CarryBased DEF Carry!ReadWeight
    <2>2. /\ b \in CarryStates /\ b.step = "none"
          /\ b.requested = state.requested /\ b.factor = state.factor /\ b.raw = state.raw /\ b.last = state.last
          /\ b.active = state.active /\ b.target = state.target /\ b.previous = state.previous
          /\ b.echoes = state.echoes /\ b.disturbed = state.disturbed
          /\ b.base = IF state.requested /\ state.target = player /\ state.raw # state.last THEN state.raw ELSE state.base
      BY <1>0, CarryBased
    <2> HIDE DEF b
    <2>3. UNCHANGED <<player, met>> /\ player # NoPlayer
      BY <1>2 DEF Carry!ReadWeight, Carry!game
    <2>4. ~state.disturbed /\ state.previous = player => CarrySteady(b, player)
      BY <1>0, <2>1, <2>2, <2>3 DEF CarryGood, CarrySteady
    <2>5. CarryGood(b, player)
      BY <1>0, <2>2, <2>3, <2>4 DEF CarryGood
    <2> QED
      BY <1>0, <2>1, <2>2, <2>3, <2>5
  <1>3. ASSUME NEW weight \in state.echoes, Carry!Echo(weight) PROVE CarryGood(state', player') /\ Known
    <2>1. state' \in CarryStates
      BY <1>0, <1>3 DEF Carry!Echo, CarryStates
    <2>2. /\ state'.target = state.target /\ state'.previous = state.previous /\ state'.base = state.base
          /\ state'.raw = weight /\ state'.echoes \subseteq state.echoes /\ state'.step = state.step
          /\ state'.requested = state.requested /\ state'.factor = state.factor /\ state'.last = state.last
          /\ state'.active = state.active /\ state'.disturbed = state.disturbed /\ state.step = "none"
      BY <1>0, <1>3 DEF Carry!Echo, CarryStates
    <2>3. UNCHANGED <<player, met>>
      BY <1>3 DEF Carry!Echo, Carry!game
    <2>4. player # NoPlayer => state.previous = player
      BY <1>0, <1>3 DEF CarryGood
    <2>5. player # NoPlayer /\ ~state.disturbed => CarrySteady(state', player)
      BY <1>0, <1>3, <2>2, <2>4 DEF CarryGood, CarrySteady
    <2> QED
      BY <1>0, <2>1, <2>2, <2>3, <2>4, <2>5 DEF CarryGood
  <1>4. ASSUME NEW enabled \in BOOLEAN, NEW factor \in Factors, Carry!Configure(enabled, factor)
        PROVE  CarryGood(state', player') /\ Known
    <2> DEFINE upset == state.disturbed \/ ((state.last # Carry!Unknown \/ state.step # "none")
                                /\ (enabled # state.requested \/ factor # state.factor))
    <2>1. state' = [state EXCEPT !.requested = enabled, !.factor = factor, !.disturbed = upset]
      BY <1>4 DEF Carry!Configure
    <2>2. upset \in BOOLEAN /\ (state.disturbed => upset)
          /\ (~upset /\ (state.last # -1 \/ state.step # "none") => enabled = state.requested /\ factor = state.factor)
      BY <1>0 DEF CarryStates, Carry!Unknown
    <2> HIDE DEF upset
    <2>3. state' \in CarryStates
      BY <1>0, <2>1, <2>2 DEF CarryStates
    <2>4. /\ state'.target = state.target /\ state'.previous = state.previous /\ state'.base = state.base
          /\ state'.raw = state.raw /\ state'.echoes = state.echoes /\ state'.step = state.step
          /\ state'.requested = enabled /\ state'.factor = factor /\ state'.last = state.last
          /\ state'.active = state.active /\ state'.disturbed = upset
      BY <1>0, <2>1 DEF CarryStates
    <2>5. UNCHANGED <<player, met>>
      BY <1>4 DEF Carry!Configure, Carry!game
    <2>6. ~upset /\ player # NoPlayer /\ state.previous = player => CarrySteady(state', player)
      <3> SUFFICES ASSUME ~upset, player # NoPlayer, state.previous = player PROVE CarrySteady(state', player)
        OBVIOUS
      <3>1. CarrySteady(state, player)
        BY <1>0, <2>2 DEF CarryGood
      <3> QED
        BY <1>0, <2>2, <2>4, <3>1 DEF CarrySteady, CarryStates
    <2> QED
      BY <1>0, <2>3, <2>4, <2>5, <2>6 DEF CarryGood
  <1>5. CASE Carry!QueueUpdate
    <2>1. UNCHANGED <<player, met>> /\ state' \in {[state EXCEPT !.queued = TRUE, !.tasks = @ + 1], [state EXCEPT !.target = NoPlayer]}
      BY <1>5 DEF Carry!QueueUpdate, Carry!game
    <2>2. /\ state' \in CarryStates
          /\ state'.requested = state.requested /\ state'.factor = state.factor /\ state'.raw = state.raw /\ state'.base = state.base
          /\ state'.last = state.last /\ state'.echoes = state.echoes /\ state'.step = state.step
          /\ state'.disturbed = state.disturbed /\ state'.active = state.active
          /\ state'.previous = state.previous /\ state'.target \in {state.target, NoPlayer}
      <3>1. CASE state' = [state EXCEPT !.queued = TRUE, !.tasks = @ + 1]
        <4>1. state.tasks + 1 \in Nat
          BY <1>0 DEF CarryStates
        <4>2. state' = [state EXCEPT !.queued = TRUE, !.tasks = state.tasks + 1]
          BY <3>1
        <4>3. state' \in CarryStates
          BY <1>0, <4>1, <4>2 DEF CarryStates
        <4> QED
          BY <1>0, <4>2, <4>3 DEF CarryStates
      <3>2. CASE state' = [state EXCEPT !.target = NoPlayer]
        BY <1>0, <3>2 DEF CarryStates
      <3> QED
        BY <2>1, <3>1, <3>2
    <2>3. CarryGood(state', player)
      BY <1>0, <2>2, CarrySame
    <2> QED
      BY <1>0, <2>1, <2>2, <2>3
  <1>6. CASE Carry!BeginUnavailable
    <2> DEFINE c == [state EXCEPT !.tasks = 0, !.queued = FALSE, !.target = NoPlayer]
    <2>1. /\ UNCHANGED <<player, met>> /\ state.step = "none"
          /\ \/ player = NoPlayer /\ state' = [c EXCEPT !.previous = NoPlayer, !.active = FALSE]
             \/ state' = c
      BY <1>6 DEF Carry!BeginUnavailable, Carry!game
    <2>2. /\ c \in CarryStates
          /\ c.requested = state.requested /\ c.factor = state.factor /\ c.raw = state.raw /\ c.base = state.base
          /\ c.last = state.last /\ c.echoes = state.echoes /\ c.step = state.step
          /\ c.disturbed = state.disturbed /\ c.active = state.active
          /\ c.previous = state.previous /\ c.target = NoPlayer
      BY <1>0 DEF CarryStates
    <2> HIDE DEF c
    <2>3. CarryGood(c, player)
      BY <1>0, <2>2, CarrySame
    <2>4. CASE player = NoPlayer /\ state' = [c EXCEPT !.previous = NoPlayer, !.active = FALSE]
      <3>1. state' \in CarryStates /\ state'.step = "none" /\ state'.target = NoPlayer /\ state'.previous = NoPlayer
        BY <2>1, <2>2, <2>4 DEF CarryStates
      <3> QED
        BY <1>0, <2>1, <2>4, <3>1 DEF CarryGood
    <2> QED
      BY <1>0, <2>1, <2>2, <2>3, <2>4
  <1>7. CASE Carry!Begin
    <2> DEFINE known == state.previous = player
               c == [state EXCEPT !.previous = player, !.active = @ /\ known,
                       !.last = IF known THEN @ ELSE Carry!Unknown, !.disturbed = @ /\ known]
               raw == IF c.active /\ ~c.requested THEN c.base ELSE c.raw
    <2>1. /\ UNCHANGED <<player, met>> /\ state.step = "none" /\ player # NoPlayer
          /\ state' = [c EXCEPT !.tasks = 0, !.step = "publish", !.raw = raw]
      BY <1>7 DEF Carry!Begin, Carry!game
    <2>3. CASE known
      <3>1. c = [state EXCEPT !.previous = state.previous]
        BY <1>0, <2>3 DEF CarryStates
      <3>2. c = state
        BY <1>0, <3>1 DEF CarryStates
      <3>3. state' = [state EXCEPT !.tasks = 0, !.step = "publish", !.raw = raw] /\ raw \in {state.base, state.raw}
            /\ raw = IF state.active /\ ~state.requested THEN state.base ELSE state.raw
        BY <2>1, <3>2
      <3> HIDE DEF raw, c, known
      <3>4. /\ state' \in CarryStates
            /\ state'.requested = state.requested /\ state'.factor = state.factor /\ state'.raw = raw /\ state'.base = state.base
            /\ state'.last = state.last /\ state'.echoes = state.echoes /\ state'.step = "publish"
            /\ state'.disturbed = state.disturbed /\ state'.active = state.active
            /\ state'.previous = state.previous /\ state'.target = state.target
        BY <1>0, <3>3 DEF CarryStates
      <3>5. state.previous = player
        BY <2>3 DEF known
      <3>6. ~state.disturbed => CarrySteady(state', player)
        BY <1>0, <2>1, <3>3, <3>4, <3>5 DEF CarryGood, CarrySteady
      <3> QED
        BY <1>0, <2>1, <3>4, <3>5, <3>6 DEF CarryGood
    <2>4. CASE ~known
      <3>1. c = [state EXCEPT !.previous = player, !.active = FALSE, !.last = -1, !.disturbed = FALSE]
        BY <1>0, <2>4 DEF CarryStates, Carry!Unknown
      <3>2. /\ c.active = FALSE /\ c.raw = state.raw /\ c.base = state.base /\ c.last = -1
            /\ c.echoes = state.echoes /\ c.disturbed = FALSE /\ c.previous = player /\ c.target = state.target
        BY <1>0, <3>1 DEF CarryStates
      <3>3. raw = state.raw
        BY <3>2
      <3>4. state' = [state EXCEPT !.previous = player, !.active = FALSE, !.last = -1, !.disturbed = FALSE,
                                   !.tasks = 0, !.step = "publish", !.raw = state.raw]
        BY <1>0, <2>1, <3>1, <3>3 DEF CarryStates
      <3>5. player \in Players
        BY <1>0, <2>1
      <3> HIDE DEF raw, c
      <3>9. -1 \in -1 .. MaxWeight
        BY CarryAssumption
      <3>10. state' \in CarryStates
        BY <1>0, <3>4, <3>5, <3>9 DEF CarryStates
      <3>6. /\ state'.raw = state.raw /\ state'.last = -1 /\ state'.active = FALSE
            /\ state'.echoes = state.echoes /\ state'.step = "publish"
            /\ state'.disturbed = FALSE /\ state'.previous = player /\ state'.target = state.target
        BY <1>0, <3>4 DEF CarryStates
      <3>7. state.raw = OwnWeight /\ state.echoes = {} /\ state.target # player
        BY <1>0, <2>1, <2>4 DEF CarryGood, known
      <3>8. CarrySteady(state', player)
        BY <3>6, <3>7 DEF CarrySteady
      <3> QED
        BY <1>0, <2>1, <3>6, <3>7, <3>8, <3>10 DEF CarryGood
    <2> QED
      BY <2>3, <2>4
  <1>8. CASE Carry!Publish
    <2> DEFINE c == [state EXCEPT !.target = IF state.requested THEN player ELSE NoPlayer]
               weight == Carry!Scaled(c)
               read == [Carry!Based(c) EXCEPT !.step = "finish"]
               sent == [read EXCEPT !.last = weight, !.echoes = @ \cup {weight}]
    <2>1. /\ UNCHANGED <<player, met>> /\ state.step = "publish" /\ state' \in {read, sent}
      BY <1>8 DEF Carry!Publish, Carry!game
    <2>0. player \in Players /\ player # NoPlayer /\ state.previous = player
      BY <1>0, <2>1 DEF CarryGood
    <2>2. /\ c \in CarryStates
          /\ c.requested = state.requested /\ c.raw = state.raw /\ c.base = state.base
          /\ c.last = state.last /\ c.echoes = state.echoes /\ c.active = state.active
          /\ c.disturbed = state.disturbed /\ c.previous = player /\ c.factor = state.factor
          /\ c.target = IF state.requested THEN player ELSE NoPlayer
      BY <1>0, <2>0 DEF CarryStates
    <2> HIDE DEF c
    <2>3. /\ read \in CarryStates /\ read.step = "finish"
          /\ read.requested = c.requested /\ read.factor = c.factor /\ read.raw = c.raw /\ read.last = c.last
          /\ read.active = c.active /\ read.target = c.target /\ read.previous = c.previous
          /\ read.echoes = c.echoes /\ read.disturbed = c.disturbed
          /\ read.base = IF c.requested /\ c.target = player /\ c.raw # c.last THEN c.raw ELSE c.base
          /\ c.requested /\ c.target = player => weight = Carry!Capped(read.base * c.factor)
          /\ ~(c.requested /\ c.target = player) => weight = c.raw
          /\ weight \in 0 .. MaxWeight
      BY <2>2, CarryBased
    <2> HIDE DEF read, weight
    <2>7. weight \in -1 .. MaxWeight
      BY <2>3, CarryAssumption
    <2>8. sent \in CarryStates
      BY <2>3, <2>7 DEF CarryStates
    <2>4. /\ sent.step = "finish"
          /\ sent.requested = read.requested /\ sent.factor = read.factor /\ sent.raw = read.raw /\ sent.last = weight
          /\ sent.active = read.active /\ sent.target = read.target /\ sent.previous = read.previous
          /\ sent.echoes = read.echoes \cup {weight} /\ sent.disturbed = read.disturbed
          /\ sent.base = read.base
      BY <2>3 DEF CarryStates
    <2> HIDE DEF sent
    <2>5. state.requested \in BOOLEAN /\ state.raw # -1
      BY <1>0 DEF CarryStates
    <2>6. ASSUME ~state.disturbed PROVE CarrySteady(read, player) /\ CarrySteady(sent, player)
      <3>1. CarrySteady(state, player)
        BY <1>0, <2>0, <2>6 DEF CarryGood
      <3>2. CASE state.requested
        <4>1. read.base = OwnWeight
          BY <2>2, <2>3, <2>5, <3>1, <3>2 DEF CarrySteady
        <4>2. weight = Carry!Capped(OwnWeight * state.factor)
          BY <2>2, <2>3, <3>2, <4>1
        <4>3. state.last # -1 => state.last = weight
          BY <3>1, <3>2, <4>2 DEF CarrySteady
        <4>4. state.last = -1 => state.raw = OwnWeight /\ state.echoes = {}
          BY <1>0, <2>5, <3>1 DEF CarrySteady, CarryStates
        <4>5. CarrySteady(read, player)
          BY <2>2, <2>3, <3>1, <3>2, <4>1 DEF CarrySteady
        <4>6. CarrySteady(sent, player)
          <5>1. sent.raw \in {OwnWeight, sent.last} /\ sent.echoes \subseteq {sent.last}
            BY <2>2, <2>3, <2>4, <3>1, <4>3, <4>4 DEF CarrySteady
          <5>2. sent.base = OwnWeight /\ sent.requested /\ sent.last = Carry!Capped(OwnWeight * sent.factor)
            BY <2>2, <2>3, <2>4, <3>2, <4>1, <4>2
          <5> QED
            BY <5>1, <5>2 DEF CarrySteady
        <4> QED
          BY <4>5, <4>6
      <3>3. CASE ~state.requested
        <4>1. state.raw = OwnWeight /\ (state.last = -1 => state.echoes = {})
          BY <1>0, <2>5, <3>1, <3>3 DEF CarrySteady, CarryStates
        <4>2. weight = OwnWeight /\ read.base = state.base
          BY <2>2, <2>3, <3>3, <4>1
        <4>3. player # NoPlayer /\ read.target # player
          BY <2>0, <2>2, <2>3, <3>3
        <4>4. CarrySteady(read, player)
          BY <2>2, <2>3, <3>1, <3>3, <4>1, <4>2, <4>3 DEF CarrySteady
        <4>5. CarrySteady(sent, player)
          BY <2>2, <2>3, <2>4, <3>1, <3>3, <4>1, <4>2, <4>3 DEF CarrySteady
        <4> QED
          BY <4>4, <4>5
      <3> QED
        BY <2>5, <3>2, <3>3
    <2> QED
      BY <1>0, <2>0, <2>1, <2>2, <2>3, <2>4, <2>6, <2>8 DEF CarryGood
  <1>9. CASE Carry!Finish
    <2>1. UNCHANGED <<player, met>> /\ state.step = "finish"
          /\ state' = [state EXCEPT !.active = state.requested, !.queued = FALSE, !.step = "none"]
      BY <1>9 DEF Carry!Finish, Carry!game
    <2>2. /\ state' \in CarryStates /\ state'.active = state.requested /\ state'.step = "none"
          /\ state'.requested = state.requested /\ state'.factor = state.factor /\ state'.raw = state.raw
          /\ state'.base = state.base /\ state'.last = state.last /\ state'.echoes = state.echoes
          /\ state'.disturbed = state.disturbed /\ state'.target = state.target /\ state'.previous = state.previous
      BY <1>0, <2>1 DEF CarryStates
    <2>3. state.previous = player /\ ~state.disturbed => CarrySteady(state', player)
      BY <1>0, <2>1, <2>2 DEF CarryGood, CarrySteady
    <2> QED
      BY <1>0, <2>1, <2>2, <2>3 DEF CarryGood
  <1>10. CASE UNCHANGED all
    BY <1>0, <1>10 DEF all, game
  <1> QED
    BY <1>1, <1>2, <1>3, <1>4, <1>5, <1>6, <1>7, <1>8, <1>9, <1>10 DEF Carry!Next

\* Whatever was read of this player, it is the weight the game gave him.
LEMMA CarryKept == CarryInv => Carry!SteadyEchoIsRecognised
  BY DEF CarryInv, CarryGood, CarrySteady, Carry!SteadyEchoIsRecognised

-----------------------------------------------------------------------------
(* PlayerWeapon: a weapon that is not as the game has it is the one that is changed. *)

LEMMA WeaponInit == Weapon!Init => WeaponInv
  BY DEF Weapon!Init, WeaponInv, WeaponGood, WeaponStates, Weapon!Chances

\* Fields that the property does not read.
LEMMA WeaponSame ==
  ASSUME NEW s, NEW t, WeaponGood(s), t \in WeaponStates,
         t.tracked = s.tracked, t.original = s.original, t.base = s.base, t.chance = s.chance,
         t.lost = s.lost
  PROVE  WeaponGood(t)
  BY DEF WeaponGood

LEMMA WeaponReleased ==
  ASSUME NEW s, WeaponGood(s), NEW ok \in BOOLEAN
  PROVE  LET r == Weapon!Released(s, ok) IN
         /\ WeaponGood(r) /\ r.tracked = NoWeapon /\ r.held = s.held
         /\ \A w \in Weapons \ {s.tracked} : r.chance[w] = s.chance[w]
  <1> DEFINE w == s.tracked
             r == Weapon!Released(s, ok)
  <1>1. CASE w = NoWeapon
    BY <1>1 DEF Weapon!Released
  <1>2. CASE w # NoWeapon
    <2> DEFINE chance == IF ok THEN s.original ELSE s.chance[w]
               lost == IF ok /\ s.original = s.base[w] THEN s.lost ELSE s.lost \cup {w}
    <2>0. w \in Weapons
      BY <1>2 DEF WeaponGood, WeaponStates
    <2>1. r = [s EXCEPT !.tracked = NoWeapon, !.original = 0, !.chance[w] = chance, !.lost = lost]
      BY <1>2 DEF Weapon!Released
    <2>2. chance \in Weapon!Chances /\ lost \in SUBSET Weapons /\ 0 \in Weapon!Chances
      BY <2>0 DEF WeaponGood, WeaponStates, Weapon!Chances
    <2>3. lost = IF ok /\ s.original = s.base[w] THEN s.lost ELSE s.lost \cup {w}
      OBVIOUS
    <2>4. ok => chance = s.original
      OBVIOUS
    <2> HIDE DEF chance, lost
    <2>5. r \in WeaponStates
      <3>1. [s.chance EXCEPT ![w] = chance] \in [Weapons -> Weapon!Chances]
        BY <2>0, <2>2 DEF WeaponGood, WeaponStates
      <3>2. r = [s EXCEPT !.tracked = NoWeapon, !.original = 0, !.chance = [s.chance EXCEPT ![w] = chance], !.lost = lost]
        BY <2>1 DEF WeaponGood, WeaponStates
      <3> QED
        BY ZenonT(60), <2>2, <3>1, <3>2 DEF WeaponGood, WeaponStates
    <2>6. /\ r.tracked = NoWeapon /\ r.held = s.held /\ r.lost = lost /\ r.base = s.base
          /\ r.chance = [s.chance EXCEPT ![w] = chance]
      BY <2>0, <2>1 DEF WeaponGood, WeaponStates
    <2>7. /\ r.chance[w] = chance
          /\ \A x \in Weapons \ {w} : r.chance[x] = s.chance[x]
      BY <2>0, <2>6 DEF WeaponGood, WeaponStates
    <2>8. ASSUME NEW x \in Weapons \ r.lost PROVE r.chance[x] = r.base[x]
      BY <2>3, <2>4, <2>6, <2>7 DEF WeaponGood
    <2> QED
      BY <2>5, <2>6, <2>7, <2>8 DEF WeaponGood
  <1> QED
    BY <1>1, <1>2

LEMMA WeaponTracked ==
  ASSUME NEW s, WeaponGood(s), s.held # NoWeapon, NEW ok \in BOOLEAN
  PROVE  LET t == Weapon!Tracked(s, ok) IN
         /\ WeaponGood(t) /\ t.tracked = s.held /\ t.held = s.held
         /\ s.held \notin t.lost => t.original = t.base[s.held]
  <1> DEFINE h == s.held
             r == Weapon!Released(s, ok)
  <1>0. h \in Weapons
    BY DEF WeaponGood, WeaponStates
  <1>1. CASE s.tracked = h /\ s.chance[h] = 0
    <2>1. Weapon!Tracked(s, ok) = s
      BY <1>1 DEF Weapon!Tracked
    <2> QED
      BY <1>0, <1>1, <2>1 DEF WeaponGood, WeaponStates
  <1>2. CASE s.tracked = h /\ s.chance[h] # 0
    <2>1. Weapon!Tracked(s, ok) = [s EXCEPT !.original = s.chance[h]]
      BY <1>2 DEF Weapon!Tracked
    <2> QED
      BY <1>0, <1>2, <2>1 DEF WeaponGood, WeaponStates
  <1>3. CASE s.tracked # h
    <2>1. Weapon!Tracked(s, ok) = [r EXCEPT !.tracked = h, !.original = s.chance[h]]
      <3>1. WeaponGood(r)
        BY WeaponReleased
      <3>2. [[r EXCEPT !.tracked = h, !.original = s.chance[h]] EXCEPT !.original = s.chance[h]]
              = [r EXCEPT !.tracked = h, !.original = s.chance[h]]
        BY <3>1 DEF WeaponGood, WeaponStates
      <3> QED
        BY <1>3, <3>2 DEF Weapon!Tracked, Weapon!Unhanded
    <2>2. WeaponGood(r) /\ r.tracked = NoWeapon /\ r.held = h /\ r.chance[h] = s.chance[h]
      BY <1>0, <1>3, WeaponReleased
    <2>3. s.chance[h] \in Weapon!Chances
      BY <1>0 DEF WeaponGood, WeaponStates
    <2> HIDE DEF r
    <2> QED
      <3>1. Weapon!Tracked(s, ok) \in WeaponStates
        BY <1>0, <2>1, <2>2, <2>3 DEF WeaponGood, WeaponStates
      <3>2. /\ Weapon!Tracked(s, ok).tracked = h /\ Weapon!Tracked(s, ok).held = h
            /\ Weapon!Tracked(s, ok).original = s.chance[h] /\ Weapon!Tracked(s, ok).chance = r.chance
            /\ Weapon!Tracked(s, ok).base = r.base /\ Weapon!Tracked(s, ok).lost = r.lost
        BY <2>1, <2>2 DEF WeaponGood, WeaponStates
      <3> QED
        BY <1>0, <2>2, <3>1, <3>2, WeaponAssumption DEF WeaponGood
  <1> QED
    BY <1>1, <1>2, <1>3

LEMMA WeaponUnjammed ==
  ASSUME NEW s, WeaponGood(s), NEW sent
  PROVE  WeaponGood(Weapon!Unjammed(s, sent))
  <1>1. CASE ~s.jammed
    BY <1>1 DEF Weapon!Unjammed
  <1>2. CASE s.jammed
    <2> DEFINE there == s.jammedOnServer /\ ~sent
               unsent == Weapon!Online /\ ~sent
    <2>1. Weapon!Unjammed(s, sent) = [s EXCEPT !.jammed = FALSE, !.jammedOnServer = there, !.unsent = unsent]
      BY <1>2 DEF Weapon!Unjammed
    <2>2. there \in BOOLEAN /\ unsent \in BOOLEAN
      OBVIOUS
    <2> HIDE DEF there, unsent
    <2>3. Weapon!Unjammed(s, sent) \in WeaponStates
      BY <2>1, <2>2 DEF WeaponGood, WeaponStates
    <2>4. LET u == Weapon!Unjammed(s, sent) IN
          /\ u.tracked = s.tracked /\ u.original = s.original /\ u.base = s.base
          /\ u.chance = s.chance /\ u.lost = s.lost
      BY <2>1 DEF WeaponGood, WeaponStates
    <2> QED
      BY <2>3, <2>4, WeaponSame
  <1> QED
    BY <1>1, <1>2

WeaponFieldsKept ==
  /\ state'.tracked = state.tracked /\ state'.original = state.original
  /\ state'.base = state.base /\ state'.chance = state.chance /\ state'.lost = state.lost

LEMMA WeaponStep == WeaponInv /\ [Weapon!Next]_all => WeaponInv'
  <1> SUFFICES ASSUME WeaponInv, [Weapon!Next]_all PROVE WeaponGood(state')
    BY DEF WeaponInv, WeaponGood, WeaponStates
  <1>0. WeaponGood(state) /\ state \in WeaponStates
    BY DEF WeaponInv, WeaponGood
  <1>1. ASSUME NEW w \in Weapons \cup {NoWeapon}, NEW n \in Nat, state' = Weapon!Holding(w, n)
        PROVE  WeaponGood(state')
    <2>1. state' \in WeaponStates
      BY <1>0, <1>1 DEF Weapon!Holding, WeaponStates
    <2>2. WeaponFieldsKept
      BY <1>0, <1>1 DEF Weapon!Holding, WeaponStates, WeaponFieldsKept
    <2> QED
      BY <1>0, <2>1, <2>2, WeaponSame DEF WeaponFieldsKept
  <1>2. CASE Weapon!Live
    BY <1>1, <1>2, 0 \in Nat DEF Weapon!Live
  <1>3. ASSUME NEW w \in Weapons \cup {NoWeapon}, Weapon!Hold(w) PROVE WeaponGood(state')
    <2>1. PICK n \in 0 .. (IF w = NoWeapon THEN 0 ELSE Capacity[w]) : state' = Weapon!Holding(w, n)
      BY <1>3 DEF Weapon!Hold
    <2>2. n \in Nat
      BY CapacityAssumption
    <2> QED
      BY <1>1, <2>1, <2>2
  <1>4. CASE Weapon!Shoot
    <2>1. PICK jam \in BOOLEAN :
            state' = [state EXCEPT !.rounds = @ - 1, !.fired = TRUE, !.jammed = jam,
                        !.jammedOnServer = (@ \/ jam) /\ Weapon!Online]
      BY <1>4 DEF Weapon!Shoot
    <2>2. state.rounds - 1 \in Nat
      BY <1>0, <1>4 DEF Weapon!Shoot, WeaponStates
    <2>3. ((state.jammedOnServer \/ jam) /\ Weapon!Online) \in BOOLEAN
      OBVIOUS
    <2>a. state' \in WeaponStates
      BY <1>0, <2>1, <2>2, <2>3 DEF WeaponStates
    <2>b. WeaponFieldsKept
      BY <1>0, <2>1, <2>2, <2>3 DEF WeaponStates, WeaponFieldsKept
    <2> QED
      BY <1>0, <2>a, <2>b, WeaponSame DEF WeaponFieldsKept
  <1>5. CASE Weapon!ChangeClip
    <2>1. (~state.clip) \in BOOLEAN
      OBVIOUS
    <2>a. state' \in WeaponStates
      BY <1>0, <1>5, <2>1 DEF Weapon!ChangeClip, WeaponStates
    <2>b. WeaponFieldsKept
      BY <1>0, <1>5, <2>1 DEF Weapon!ChangeClip, WeaponStates, WeaponFieldsKept
    <2> QED
      BY <1>0, <2>a, <2>b, WeaponSame DEF WeaponFieldsKept
  <1>6. CASE Weapon!Modify
    <2> DEFINE h == state.held
               chance == 3 - state.base[h]
    <2>1. h \in Weapons /\ chance \in Weapon!Chances \ {0}
      BY <1>0, <1>6 DEF Weapon!Modify, WeaponStates, Weapon!Chances
    <2>2. state' = [state EXCEPT !.base[h] = chance, !.chance[h] = chance, !.lost = @ \ {h}]
      BY <1>6 DEF Weapon!Modify
    <2> HIDE DEF chance
    <2>3. state' \in WeaponStates
      BY <1>0, <2>1, <2>2 DEF WeaponStates
    <2>4. /\ state'.base = [state.base EXCEPT ![h] = chance] /\ state'.lost = state.lost \ {h}
          /\ state'.chance = [state.chance EXCEPT ![h] = chance]
          /\ state'.tracked = state.tracked /\ state'.original = state.original
      BY <1>0, <2>2 DEF WeaponStates
    <2> QED
      <3>1. /\ state'.base[h] = chance /\ state'.chance[h] = chance
            /\ \A w \in Weapons \ {h} : state'.base[w] = state.base[w] /\ state'.chance[w] = state.chance[w]
        BY <1>0, <2>1, <2>4 DEF WeaponStates
      <3> QED
        BY <1>0, <2>1, <2>3, <2>4, <3>1 DEF WeaponGood
  <1>7. ASSUME NEW on \in BOOLEAN, Weapon!SetNoWeaponJamEnabled(on) \/ Weapon!SetInfiniteAmmoEnabled(on)
        PROVE  WeaponGood(state')
    <2>a. state' \in WeaponStates
      BY <1>0, <1>7 DEF Weapon!SetNoWeaponJamEnabled, Weapon!SetInfiniteAmmoEnabled, WeaponStates
    <2>b. WeaponFieldsKept
      BY <1>0, <1>7 DEF Weapon!SetNoWeaponJamEnabled, Weapon!SetInfiniteAmmoEnabled, WeaponStates, WeaponFieldsKept
    <2> QED
      BY <1>0, <2>a, <2>b, WeaponSame DEF WeaponFieldsKept
  <1>8. CASE Weapon!UpdateAmmo
    <2>1. Capacity[state.held] - 1 \in Nat
      BY <1>0, <1>8, CapacityAssumption DEF Weapon!UpdateAmmo, Weapon!Due, WeaponStates
    <2>2. (~state.fired) \in BOOLEAN
      OBVIOUS
    <2>a. state' \in WeaponStates
      BY <1>0, <1>8, <2>1, <2>2 DEF Weapon!UpdateAmmo, WeaponStates
    <2>b. WeaponFieldsKept
      BY <1>0, <1>8, <2>1, <2>2 DEF Weapon!UpdateAmmo, WeaponStates, WeaponFieldsKept
    <2> QED
      BY <1>0, <2>a, <2>b, WeaponSame DEF WeaponFieldsKept
  <1>9. CASE Weapon!UpdateReliability
    <2>1. WeaponGood(Weapon!Released(state, TRUE)) /\ WeaponGood(Weapon!Released(state, FALSE))
      BY <1>0, WeaponReleased
    <2>2. CASE player = NoPlayer \/ state.held = NoWeapon \/ ~state.reliable
      BY <1>9, <2>1, <2>2 DEF Weapon!UpdateReliability, Weapon!NoFault, Weapon!Fault
    <2>3. CASE ~(player = NoPlayer \/ state.held = NoWeapon \/ ~state.reliable)
      <3>1. PICK ok \in BOOLEAN : \E sent :
              state' \in {Weapon!Unhanded(state, ok), Weapon!Tracked(state, ok), Weapon!Reliable(state, ok),
                         Weapon!Unjammed(Weapon!Reliable(state, ok), sent)}
        <4> HIDE DEF Weapon!Unjammed
        <4> QED
          BY <1>9, <2>3 DEF Weapon!UpdateReliability
      <3> DEFINE t == Weapon!Tracked(state, ok)
                 on == Weapon!Reliable(state, ok)
      <3>2. /\ WeaponGood(t) /\ t.tracked = state.held
            /\ state.held \notin t.lost => t.original = t.base[state.held]
        BY <1>0, <2>3, WeaponTracked
      <3>3. state.held \in Weapons
        BY <1>0, <2>3 DEF WeaponStates
      <3>4. WeaponGood(on)
        <4>1. on = [t EXCEPT !.chance[state.held] = 0]
          BY DEF Weapon!Reliable
        <4> HIDE DEF t, on
        <4> QED
          BY <3>2, <3>3, <4>1 DEF WeaponGood, WeaponStates, Weapon!Chances
      <3>5. \A sent : WeaponGood(Weapon!Unjammed(on, sent))
        BY <3>4, WeaponUnjammed
      <3>6. WeaponGood(Weapon!Unhanded(state, ok))
        BY <1>0, <2>1 DEF Weapon!Unhanded
      <3> QED
        BY <3>1, <3>2, <3>4, <3>5, <3>6
    <2> QED
      BY <2>2, <2>3
  <1>10. CASE UNCHANGED all
    <2>1. state' = state
      BY <1>10 DEF all
    <2> QED
      BY <1>0, <2>1
  <1> QED
    BY <1>2, <1>3, <1>4, <1>5, <1>6, <1>7, <1>8, <1>9, <1>10 DEF Weapon!Next, WeaponInv

LEMMA WeaponKept == WeaponInv => Weapon!OtherWeaponsAreUntouched
  BY DEF WeaponInv, WeaponGood, Weapon!OtherWeaponsAreUntouched

-----------------------------------------------------------------------------
(* MultiHit: what is remembered of a world is what that world had. *)

MultiHit == INSTANCE MultiHit WITH multiHit <- state

MultiHitInv ==
  /\ MultiHit!MultiHitTypeOK
  /\ MultiHit!OriginalIsTheWorlds
  /\ MultiHit!ForgottenMeansRestored

LEMMA MultiHitStep == MultiHitInv /\ [MultiHit!Next]_all => MultiHitInv'
  <1> SUFFICES ASSUME MultiHitInv, [MultiHit!Next]_all PROVE MultiHitInv'
    OBVIOUS
  <1> USE DEF MultiHitInv, MultiHit!MultiHitTypeOK, MultiHit!OriginalIsTheWorlds, MultiHit!ForgottenMeansRestored
  <1>1. CASE MultiHit!Live
    <2>1. CASE UNCHANGED state
      BY <2>1
    <2>2. ASSUME NEW own \in BOOLEAN,
                 state' = [state EXCEPT !.option = own, !.own = own, !.foreign = @ \/ state.captured]
          PROVE  MultiHitInv'
      <3>1. (state.foreign \/ state.captured) \in BOOLEAN
        OBVIOUS
      <3> QED
        BY <2>2, <3>1
    <2> QED
      BY <1>1, <2>1, <2>2 DEF MultiHit!Live
  <1>2. ASSUME NEW enabled \in BOOLEAN, MultiHit!SetMultiHitEnabled(enabled) PROVE MultiHitInv'
    BY <1>2 DEF MultiHit!SetMultiHitEnabled
  <1>3. CASE MultiHit!Update
    <2> DEFINE c == MultiHit!Captured(state)
               s == MultiHit!Settled(c)
    <2>1. /\ c \in [requested : BOOLEAN, applied : BOOLEAN, captured : BOOLEAN,
                    original : BOOLEAN, option : BOOLEAN, own : BOOLEAN, foreign : BOOLEAN]
          /\ c.captured => c.original = c.own \/ c.foreign
          /\ ~c.captured => c.option = c.own \/ c.foreign
          /\ c.requested => c.captured
      <3>1. CASE state.requested /\ ~state.captured
        <4>1. (state.foreign /\ state.option # state.own) \in BOOLEAN
          OBVIOUS
        <4>2. c = [state EXCEPT !.captured = TRUE, !.original = state.option,
                     !.foreign = @ /\ state.option # state.own]
          BY <3>1 DEF MultiHit!Captured
        <4>3. c \in [requested : BOOLEAN, applied : BOOLEAN, captured : BOOLEAN,
                    original : BOOLEAN, option : BOOLEAN, own : BOOLEAN, foreign : BOOLEAN]
          BY <4>1, <4>2
        <4>4. c.captured /\ c.original = state.option /\ c.own = state.own
              /\ c.foreign = (state.foreign /\ state.option # state.own)
          BY <4>2
        <4> HIDE DEF c
        <4> QED
          BY <3>1, <4>3, <4>4
      <3>2. CASE ~(state.requested /\ ~state.captured)
        BY <3>2 DEF MultiHit!Captured
      <3> QED
        BY <3>1, <3>2
    <2> HIDE DEF c
    <2>2. /\ s \in [requested : BOOLEAN, applied : BOOLEAN, captured : BOOLEAN,
                    original : BOOLEAN, option : BOOLEAN, own : BOOLEAN, foreign : BOOLEAN]
          /\ s.captured => s.original = s.own \/ s.foreign
          /\ ~s.captured => s.option = s.own \/ s.foreign
      <3>1. MultiHit!Target(c) \in BOOLEAN /\ (c.captured /\ c.requested) \in BOOLEAN
        BY <2>1 DEF MultiHit!Target
      <3>2. s = [c EXCEPT !.option = MultiHit!Target(c), !.captured = c.captured /\ c.requested, !.applied = c.requested]
        BY DEF MultiHit!Settled
      <3>3. s \in [requested : BOOLEAN, applied : BOOLEAN, captured : BOOLEAN,
                    original : BOOLEAN, option : BOOLEAN, own : BOOLEAN, foreign : BOOLEAN]
        BY <2>1, <3>1, <3>2
      <3>4. /\ s.captured = (c.captured /\ c.requested) /\ s.option = MultiHit!Target(c)
            /\ s.original = c.original /\ s.own = c.own /\ s.foreign = c.foreign
        BY <2>1, <3>2
      <3> HIDE DEF s
      <3> QED
        BY <2>1, <3>3, <3>4 DEF MultiHit!Target
    <2> HIDE DEF s
    <2>3. CASE state' = s
      BY <2>2, <2>3
    <2>4. CASE state' \in {[state EXCEPT !.applied = FALSE], [c EXCEPT !.applied = FALSE]}
      BY <2>1, <2>4
    <2> QED
      BY <1>3, <2>3, <2>4 DEF MultiHit!Update, c, s
  <1>4. CASE UNCHANGED all
    BY <1>4 DEF all
  <1> QED
    BY <1>1, <1>2, <1>3, <1>4 DEF MultiHit!Next

LEMMA MultiHitInit == MultiHit!Init => MultiHitInv
  BY DEF MultiHit!Init, MultiHitInv, MultiHit!MultiHitTypeOK, MultiHit!OriginalIsTheWorlds, MultiHit!ForgottenMeansRestored

LEMMA MultiHitKept == MultiHitInv => MultiHit!OriginalIsTheWorlds /\ MultiHit!ForgottenMeansRestored
  BY DEF MultiHitInv

-----------------------------------------------------------------------------
(* FreeBuild: the functions that are kept are those of the Lua runtime they were taken from. *)

LEMMA BuildInit == Build!Init => BuildInv
  <1> SUFFICES ASSUME NEW e \in Environments, NEW patch \in [Environments -> {"none", "old"}],
       state = [requested |-> FALSE, applied |-> FALSE, target |-> FALSE, phase |-> "Idle",
                call |-> "none", env |-> e, current |-> e, entered |-> {e}, patch |-> patch,
                enabled |-> [x \in Environments |-> FALSE],
                code |-> [x \in Environments |-> IF patch[x] = "old" THEN "old" ELSE "game"],
                kept |-> [x \in Environments |-> IF patch[x] = "old" THEN "game" ELSE "none"],
                late |-> {}, strayed |-> FALSE]
      PROVE BuildGood(state)
    BY DEF Build!Init, BuildInv
  <1>1. patch \in [Environments -> {"none", "old", "new"}]
    OBVIOUS
  <1>2. [x \in Environments |-> IF patch[x] = "old" THEN "old" ELSE "game"] \in [Environments -> {"game", "old", "new"}]
    OBVIOUS
  <1>3. [x \in Environments |-> IF patch[x] = "old" THEN "game" ELSE "none"] \in [Environments -> {"none", "game", "old", "new"}]
    OBVIOUS
  <1>4. state \in BuildStates
    BY <1>1, <1>2, <1>3 DEF BuildStates, Build!Phases
  <1> QED
    BY <1>4 DEF BuildGood

\* Fields that the property does not read.
LEMMA BuildSame ==
  ASSUME NEW b, NEW c, BuildGood(b), c \in BuildStates,
         c.patch = b.patch, c.code = b.code, c.kept = b.kept
  PROVE  BuildGood(c)
  BY DEF BuildGood

LEMMA BuildInstalled ==
  ASSUME NEW b, BuildGood(b), NEW e \in Environments, NEW target \in BOOLEAN
  PROVE  BuildGood(Build!Executed(b, e, target))
  <1> DEFINE i == Build!Installed(b, e)
  <1>1. BuildGood(i)
    <2>1. CASE b.patch[e] = "new"
      BY <2>1 DEF Build!Installed
    <2>2. CASE b.patch[e] # "new"
      <3>1. i = [b EXCEPT !.patch[e] = "new", !.kept[e] = "game", !.code[e] = "new"]
        BY <2>2 DEF Build!Installed, BuildGood, BuildStates
      <3>2. i \in BuildStates
        <4>1. /\ [b.patch EXCEPT ![e] = "new"] \in [Environments -> {"none", "old", "new"}]
              /\ [b.kept EXCEPT ![e] = "game"] \in [Environments -> {"none", "game", "old", "new"}]
              /\ [b.code EXCEPT ![e] = "new"] \in [Environments -> {"game", "old", "new"}]
          BY DEF BuildGood, BuildStates
        <4> DEFINE first == [b EXCEPT !.patch[e] = "new"]
                   second == [first EXCEPT !.kept[e] = "game"]
        <4>2. first \in BuildStates /\ first.kept = b.kept /\ first.code = b.code
          BY <4>1 DEF BuildGood, BuildStates
        <4> HIDE DEF first
        <4>3. second \in BuildStates /\ second.code = b.code
          BY <4>1, <4>2 DEF BuildStates
        <4>4. i = [second EXCEPT !.code[e] = "new"]
          BY <3>1 DEF first
        <4> HIDE DEF second
        <4> QED
          BY <4>1, <4>3, <4>4 DEF BuildStates
      <3>3. /\ i.patch = [b.patch EXCEPT ![e] = "new"] /\ i.kept = [b.kept EXCEPT ![e] = "game"]
            /\ i.code = [b.code EXCEPT ![e] = "new"]
        BY <3>1 DEF BuildGood, BuildStates
      <3> HIDE DEF i
      <3> QED
        BY <3>2, <3>3 DEF BuildGood, BuildStates
    <2> QED
      BY <2>1, <2>2
  <1> HIDE DEF i
  <1>2. Build!Executed(b, e, target) = [i EXCEPT !.enabled[e] = target]
    BY DEF Build!Executed, i
  <1>3. [i.enabled EXCEPT ![e] = target] \in [Environments -> BOOLEAN]
    BY <1>1 DEF BuildGood, BuildStates
  <1>4. [i EXCEPT !.enabled[e] = target] \in BuildStates
    BY <1>1, <1>3 DEF BuildGood, BuildStates
  <1>5. LET c == [i EXCEPT !.enabled[e] = target] IN
        c.patch = i.patch /\ c.code = i.code /\ c.kept = i.kept
    BY <1>1 DEF BuildGood, BuildStates
  <1> QED
    BY <1>1, <1>2, <1>4, <1>5, BuildSame

LEMMA BuildFinished ==
  ASSUME NEW b, BuildGood(b)
  PROVE  BuildGood(Build!Finished(b))
  <1> DEFINE late == IF b.phase = "Execute" /\ b.call \in {"queued", "overdue"}
                     THEN b.late \cup {<<b.env, b.target>>} ELSE b.late
  <1>1. Build!Finished(b) = [b EXCEPT !.phase = "Idle", !.call = "none", !.late = late]
    BY DEF Build!Finished
  <1>2. late \in SUBSET (Environments \X BOOLEAN)
    BY DEF BuildGood, BuildStates
  <1> HIDE DEF late
  <1>3. Build!Finished(b) \in BuildStates
    BY ZenonT(60), <1>1, <1>2 DEF BuildGood, BuildStates, Build!Phases
  <1>4. LET c == Build!Finished(b) IN c.patch = b.patch /\ c.code = b.code /\ c.kept = b.kept
    BY <1>1 DEF BuildGood, BuildStates
  <1> QED
    BY <1>3, <1>4, BuildSame

LEMMA BuildPolled ==
  ASSUME NEW b, BuildGood(b), NEW fails \in BOOLEAN
  PROVE  BuildGood(Build!Polled(b, fails))
  <1> DEFINE f == Build!Finished(b)
  <1>1. BuildGood(f)
    BY BuildFinished
  <1> HIDE DEF f
  <1>2. BuildGood([b EXCEPT !.phase = "Execute", !.call = "queued"])
    <2>1. [b EXCEPT !.phase = "Execute", !.call = "queued"] \in BuildStates
      BY DEF BuildGood, BuildStates, Build!Phases
    <2>2. LET c == [b EXCEPT !.phase = "Execute", !.call = "queued"] IN
          c.patch = b.patch /\ c.code = b.code /\ c.kept = b.kept
      BY DEF BuildGood, BuildStates
    <2> QED
      BY <2>1, <2>2, BuildSame
  <1>3. BuildGood([f EXCEPT !.applied = b.target])
    <2>1. [f EXCEPT !.applied = b.target] \in BuildStates
      BY <1>1 DEF BuildGood, BuildStates
    <2>2. LET c == [f EXCEPT !.applied = b.target] IN
          c.patch = f.patch /\ c.code = f.code /\ c.kept = f.kept
      BY <1>1 DEF BuildGood, BuildStates
    <2> QED
      BY <1>1, <2>1, <2>2, BuildSame
  <1>4. BuildGood([f EXCEPT !.strayed = @ \/ (b.phase = "Execute" /\ b.call = "done")])
    <2> DEFINE strayed == f.strayed \/ (b.phase = "Execute" /\ b.call = "done")
    <2>0. strayed \in BOOLEAN
      OBVIOUS
    <2> HIDE DEF strayed
    <2>1. [f EXCEPT !.strayed = strayed] \in BuildStates
      BY <1>1, <2>0 DEF BuildGood, BuildStates
    <2>2. LET c == [f EXCEPT !.strayed = strayed] IN
          c.patch = f.patch /\ c.code = f.code /\ c.kept = f.kept
      BY <1>1 DEF BuildGood, BuildStates
    <2>3. BuildGood([f EXCEPT !.strayed = strayed])
      BY <1>1, <2>1, <2>2, BuildSame
    <2> QED
      BY <2>3 DEF strayed
  <1> QED
    BY <1>1, <1>2, <1>3, <1>4 DEF Build!Polled, f

LEMMA BuildBegun ==
  ASSUME NEW b, BuildGood(b)
  PROVE  BuildGood(Build!Begun(b))
  <1>1. CASE b.phase # "Idle" \/ b.applied = b.requested
    BY <1>1 DEF Build!Begun
  <1>2. CASE ~(b.phase # "Idle" \/ b.applied = b.requested)
    <2>1. Build!Begun(b) = [b EXCEPT !.phase = "Compile", !.call = "queued", !.target = b.requested, !.env = b.current]
      BY <1>2 DEF Build!Begun
    <2>2. Build!Begun(b) \in BuildStates
      BY <2>1 DEF BuildGood, BuildStates, Build!Phases
    <2>3. LET c == Build!Begun(b) IN c.patch = b.patch /\ c.code = b.code /\ c.kept = b.kept
      BY <2>1 DEF BuildGood, BuildStates
    <2> QED
      BY <2>2, <2>3, BuildSame
  <1> QED
    BY <1>1, <1>2

LEMMA BuildStep == BuildInv /\ [Build!Next]_all => BuildInv'
  <1> SUFFICES ASSUME BuildInv, [Build!Next]_all PROVE BuildGood(state')
    BY DEF BuildInv, BuildGood, BuildStates
  <1>0. BuildGood(state) /\ state \in BuildStates
    BY DEF BuildInv, BuildGood
  <1> DEFINE Kept == state'.patch = state.patch /\ state'.code = state.code /\ state'.kept = state.kept
  <1>1. CASE Build!Run
    <2>1. CASE state' = [state EXCEPT !.call = "done"] \/ state' = [state EXCEPT !.call = "error"]
      <3>1. state' \in BuildStates
        BY <1>0, <2>1 DEF BuildStates
      <3>2. Kept
        BY <1>0, <2>1 DEF BuildStates
      <3> QED
        BY <1>0, <3>1, <3>2, BuildSame
    <2>2. CASE \/ state' = [Build!Executed(state, state.env, state.target) EXCEPT !.call = "done"]
               \/ state' = [Build!Executed(state, state.env, state.target) EXCEPT !.call = "error", !.strayed = TRUE]
      <3> DEFINE x == Build!Executed(state, state.env, state.target)
      <3>1. BuildGood(x)
        BY <1>0, BuildInstalled DEF BuildStates
      <3> HIDE DEF x
      <3>2. state' = [x EXCEPT !.call = "done"] \/ state' = [x EXCEPT !.call = "error", !.strayed = TRUE]
        BY <2>2 DEF x
      <3>3. state' \in BuildStates
        BY ZenonT(60), <3>1, <3>2 DEF BuildGood, BuildStates
      <3>4. state'.patch = x.patch /\ state'.code = x.code /\ state'.kept = x.kept
        BY <3>1, <3>2 DEF BuildGood, BuildStates
      <3> QED
        BY <3>1, <3>3, <3>4, BuildSame
    <2> QED
      BY <1>1, <2>1, <2>2 DEF Build!Run
  <1>2. ASSUME NEW chunk \in state.late, Build!RunLate(chunk) PROVE BuildGood(state')
    <2> DEFINE x == Build!Executed(state, chunk[1], chunk[2])
    <2>1. chunk[1] \in Environments /\ chunk[2] \in BOOLEAN
      BY <1>0 DEF BuildStates
    <2>2. BuildGood(x)
      BY <1>0, <2>1, BuildInstalled
    <2> HIDE DEF x
    <2>3. state' = [x EXCEPT !.late = @ \ {chunk}, !.strayed = TRUE]
      BY <1>2 DEF Build!RunLate, x
    <2>4. state' \in BuildStates
      BY <2>2, <2>3 DEF BuildGood, BuildStates
    <2>5. state'.patch = x.patch /\ state'.code = x.code /\ state'.kept = x.kept
      BY <2>2, <2>3 DEF BuildGood, BuildStates
    <2> QED
      BY <2>2, <2>4, <2>5, BuildSame
  <1>3. ASSUME NEW e \in Environments, Build!ReplaceEnvironment(e) PROVE BuildGood(state')
    <2> DEFINE strayed == state.strayed \/ state.applied \/ state.phase # "Idle"
    <2>1. state' = [state EXCEPT !.current = e, !.entered = @ \cup {e}, !.strayed = strayed]
      BY <1>3 DEF Build!ReplaceEnvironment
    <2>2. strayed \in BOOLEAN
      OBVIOUS
    <2> HIDE DEF strayed
    <2>3. state' \in BuildStates
      BY <1>0, <2>1, <2>2 DEF BuildStates
    <2>4. Kept
      BY <1>0, <2>1 DEF BuildStates
    <2> QED
      BY <1>0, <2>3, <2>4, BuildSame
  <1>4. CASE Build!Elapse \/ \E enabled \in BOOLEAN : Build!SetFreeBuildEnabled(enabled)
    <2>1. state' \in BuildStates
      BY <1>0, <1>4 DEF BuildStates, Build!Elapse, Build!SetFreeBuildEnabled
    <2>2. Kept
      BY <1>0, <1>4 DEF BuildStates, Build!Elapse, Build!SetFreeBuildEnabled
    <2> QED
      BY <1>0, <2>1, <2>2, BuildSame
  <1>5. CASE Build!Update
    <2>1. \A fails \in BOOLEAN :
            BuildGood(Build!Polled(state, fails)) /\ BuildGood(Build!Begun(Build!Polled(state, fails)))
      BY <1>0, BuildPolled, BuildBegun
    <2> QED
      BY <1>5, <2>1 DEF Build!Update
  <1>6. CASE UNCHANGED all
    BY <1>0, <1>6 DEF all
  <1> QED
    BY <1>1, <1>2, <1>3, <1>4, <1>5, <1>6 DEF Build!Next

LEMMA BuildKept == BuildInv => Build!OriginalFunctionsAreKept
  BY DEF BuildInv, BuildGood, BuildStates, Build!OriginalFunctionsAreKept

-----------------------------------------------------------------------------
(* Medication: who has temporary flags is the patient, whose own are remembered. *)

LEMMA MedicationInit == Medication!Init => MedicationInv
  <1> SUFFICES ASSUME Medication!Init PROVE MedicationInv
    BY MedicineAssumption
  <1>1. player = NoPlayer
    BY DEF Medication!Init, Medication!GameInit
  <1>2. (CHOOSE m \in Medicines : TRUE) \in Medicines
    BY MedicineAssumption
  <1>3. state \in MedicationStates
    BY <1>2 DEF Medication!Init, MedicationStates
  <1>4. state.instant = state.own /\ state.temporary = {} /\ state.patient = NoPlayer
    BY DEF Medication!Init
  <1> QED
    BY <1>1, <1>3, <1>4, PlayerAssumption DEF MedicationInv, MedicationGood

\* Fields that the property does not read.
LEMMA MedicationSame ==
  ASSUME NEW s, NEW t, MedicationGood(s), t \in MedicationStates,
         t.patient = s.patient, t.previous = s.previous, t.own = s.own, t.instant = s.instant,
         t.temporary = s.temporary, t.broken = s.broken
  PROVE  MedicationGood(t)
  BY DEF MedicationGood

LEMMA MedicationPhases ==
  ASSUME NEW s, MedicationGood(s)
  PROVE  /\ MedicationGood(Medication!Idle(s)) /\ Medication!Idle(s).patient = s.patient
         /\ MedicationGood(Medication!Later(s)) /\ MedicationGood(Medication!Waiting(s))
  <1> USE DEF Medication!Idle, Medication!Later, Medication!Waiting
  <1>1. /\ Medication!Idle(s) \in MedicationStates /\ Medication!Later(s) \in MedicationStates
        /\ Medication!Waiting(s) \in MedicationStates
    BY DEF MedicationGood, MedicationStates
  <1>2. \A t \in {Medication!Idle(s), Medication!Later(s), Medication!Waiting(s)} :
          /\ t.patient = s.patient /\ t.previous = s.previous /\ t.own = s.own
          /\ t.instant = s.instant /\ t.temporary = s.temporary /\ t.broken = s.broken
    BY DEF MedicationGood, MedicationStates
  <1> QED
    BY <1>1, <1>2, MedicationSame

LEMMA MedicationSending ==
  ASSUME NEW s, MedicationGood(s), s.patient = NoPlayer, player \in Players
  PROVE  MedicationGood(Medication!Sending(s))
  <1> DEFINE t == Medication!Sending(s)
  <1>1. s.instant[player] \in BOOLEAN /\ s.effect[s.medicine] \in Nat
    BY DEF MedicationGood, MedicationStates
  <1> DEFINE first == [s EXCEPT !.baseline = s.effect[s.medicine], !.patient = player,
                         !.previous = s.instant[player], !.temporary = @ \cup {player}]
  <1>2. first \in MedicationStates
    BY <1>1 DEF MedicationGood, MedicationStates
  <1>3. /\ first.patient = player /\ first.previous = s.instant[player] /\ first.own = s.own
        /\ first.instant = s.instant /\ first.temporary = s.temporary \cup {player}
        /\ first.broken = s.broken
    BY DEF MedicationGood, MedicationStates
  <1>4. t = [first EXCEPT !.instant[player] = TRUE]
    BY <1>2, <1>3 DEF Medication!Sending, MedicationGood, MedicationStates
  <1> HIDE DEF first, t
  <1>5. [s.instant EXCEPT ![player] = TRUE] \in [Players -> BOOLEAN]
    BY DEF MedicationGood, MedicationStates
  <1>6. t \in MedicationStates
    BY <1>2, <1>3, <1>4, <1>5 DEF MedicationStates
  <1>7. /\ t.patient = player /\ t.previous = s.instant[player] /\ t.own = s.own
        /\ t.temporary = s.temporary \cup {player} /\ t.broken = s.broken
        /\ t.instant = [s.instant EXCEPT ![player] = TRUE]
    BY <1>2, <1>3, <1>4 DEF MedicationStates
  <1>8. \A p \in Players \ {player} : t.instant[p] = s.instant[p]
    BY <1>7 DEF MedicationGood, MedicationStates
  <1>9. MedicationGood(t)
    BY <1>6, <1>7, <1>8, PlayerAssumption DEF MedicationGood
  <1> QED
    BY <1>9 DEF t

LEMMA MedicationRestored ==
  ASSUME NEW s, MedicationGood(s), s.patient \in Players, NEW ok \in BOOLEAN
  PROVE  MedicationGood(Medication!Restored(s, ok))
  <1> DEFINE p == s.patient
             temporary == IF ok THEN s.temporary \ {p} ELSE s.temporary
             instant == IF ok THEN s.previous ELSE s.instant[p]
             broken == IF ok THEN s.broken ELSE s.broken \cup {p}
             first == [s EXCEPT !.patient = NoPlayer, !.reply = FALSE, !.temporary = temporary, !.broken = broken]
             t == Medication!Restored(s, ok)
  <1>1. temporary \in SUBSET Players /\ instant \in BOOLEAN /\ broken \in SUBSET Players
    BY DEF MedicationGood, MedicationStates
  <1>2. /\ ok => temporary = s.temporary \ {p} /\ instant = s.previous /\ broken = s.broken
        /\ ~ok => temporary = s.temporary /\ instant = s.instant[p] /\ broken = s.broken \cup {p}
    OBVIOUS
  <1>3. t = [s EXCEPT !.patient = NoPlayer, !.reply = FALSE, !.temporary = temporary,
                      !.instant[p] = instant, !.broken = broken]
    BY DEF Medication!Restored
  <1> HIDE DEF temporary, instant, broken, t
  <1>4. first \in MedicationStates
    BY <1>1 DEF MedicationGood, MedicationStates
  <1>5. /\ first.patient = NoPlayer /\ first.previous = s.previous /\ first.own = s.own
        /\ first.instant = s.instant /\ first.temporary = temporary /\ first.broken = broken
    BY DEF MedicationGood, MedicationStates
  <1>6. t = [first EXCEPT !.instant[p] = instant]
    BY <1>3, <1>4, <1>5 DEF MedicationGood, MedicationStates
  <1> HIDE DEF first
  <1>7. [s.instant EXCEPT ![p] = instant] \in [Players -> BOOLEAN]
    BY <1>1 DEF MedicationGood, MedicationStates
  <1>8. t \in MedicationStates
    BY <1>4, <1>5, <1>6, <1>7 DEF MedicationStates
  <1>9. /\ t.patient = NoPlayer /\ t.previous = s.previous /\ t.own = s.own
        /\ t.temporary = temporary /\ t.broken = broken /\ t.instant = [s.instant EXCEPT ![p] = instant]
    BY <1>4, <1>5, <1>6 DEF MedicationStates
  <1>10. t.instant[p] = instant /\ \A q \in Players \ {p} : t.instant[q] = s.instant[q]
    BY <1>9 DEF MedicationGood, MedicationStates
  <1>11. MedicationGood(t)
    BY <1>2, <1>8, <1>9, <1>10, PlayerAssumption DEF MedicationGood
  <1> QED
    BY <1>11 DEF t

LEMMA MedicationStep == MedicationInv /\ [Medication!Next]_all => MedicationInv'
  <1> SUFFICES ASSUME MedicationInv, [Medication!Next]_all
               PROVE  player' \in Players \cup {NoPlayer} /\ MedicationGood(state')
    BY DEF MedicationInv, MedicationGood, MedicationStates
  <1>0. /\ player \in Players \cup {NoPlayer}
        /\ MedicationGood(state) /\ state \in MedicationStates
    BY DEF MedicationInv, MedicationGood
  <1> DEFINE Kept ==
        /\ state'.patient = state.patient /\ state'.previous = state.previous
        /\ state'.own = state.own /\ state'.instant = state.instant
        /\ state'.temporary = state.temporary /\ state'.broken = state.broken
  <1>1. CASE Medication!Live
    <2>1. player' \in Players \cup {NoPlayer}
      BY <1>1 DEF Medication!Live, Medication!Play, Medication!LeaveWorld, Medication!Respawn, Medication!EnterWorld
    <2>2. state' \in MedicationStates
      BY <1>0, <1>1 DEF Medication!Live, MedicationStates
    <2>3. Kept
      BY <1>0, <1>1 DEF Medication!Live, MedicationStates
    <2> QED
      BY <1>0, <2>1, <2>2, <2>3, MedicationSame
  <1>2. ASSUME NEW m \in Medicines, Medication!Receive(m) \/ Medication!Feel(m)
        PROVE  UNCHANGED player /\ MedicationGood(state')
    <2>1. state' \in MedicationStates
      BY <1>0, <1>2 DEF Medication!Receive, Medication!Feel, MedicationStates
    <2>2. Kept
      BY <1>0, <1>2 DEF Medication!Receive, Medication!Feel, MedicationStates
    <2>3. UNCHANGED player
      BY <1>2 DEF Medication!Receive, Medication!Feel, Medication!game
    <2> QED
      BY <1>0, <2>1, <2>2, <2>3, MedicationSame
  <1>3. CASE Medication!Elapse
    <2>1. PICK expired \in BOOLEAN : state' = [state EXCEPT !.due = TRUE, !.expired = @ \/ expired]
      BY <1>3 DEF Medication!Elapse
    <2>2. (state.expired \/ expired) \in BOOLEAN
      OBVIOUS
    <2>3. state' \in MedicationStates
      BY <1>0, <2>1, <2>2 DEF MedicationStates
    <2>4. Kept
      BY <1>0, <2>1 DEF MedicationStates
    <2>5. UNCHANGED player
      BY <1>3 DEF Medication!Elapse, Medication!game
    <2> QED
      BY <1>0, <2>3, <2>4, <2>5, MedicationSame
  <1>4. CASE Medication!Reply
    <2>0. \/ state' = [state EXCEPT !.reply = TRUE, !.sent = @ + 1]
          \/ state' = [state EXCEPT !.reply = TRUE]
      BY <1>4 DEF Medication!Reply
    <2>1. state' \in MedicationStates
      <3>1. state.sent + 1 \in Nat
        BY <1>0 DEF MedicationStates
      <3> QED
        BY ZenonT(60), <1>0, <2>0, <3>1 DEF MedicationStates
    <2>2. Kept
      BY <1>0, <2>0 DEF MedicationStates
    <2>3. UNCHANGED player
      BY <1>4 DEF Medication!Reply, Medication!game
    <2> QED
      BY <1>0, <2>1, <2>2, <2>3, MedicationSame
  <1>5. CASE Medication!Started
    <2>1. PICK ok \in BOOLEAN :
            LET s == Medication!Restored(state, ok) IN
            state' \in {Medication!Waiting(s), Medication!Idle(s)}
      BY <1>5 DEF Medication!Started
    <2>2. MedicationGood(Medication!Restored(state, ok))
      BY <1>0, <1>5, MedicationRestored DEF Medication!Started, Medication!Busy, MedicationStates
    <2>3. UNCHANGED player
      BY <1>5 DEF Medication!Started, Medication!game
    <2> QED
      BY <1>0, <2>1, <2>2, <2>3, MedicationPhases
  <1>6. ASSUME NEW s, MedicationGood(s), NEW missing, MedicationGood(missing),
               s.patient = NoPlayer, player # NoPlayer, Medication!Take(s, missing)
        PROVE  MedicationGood(state')
    <2>1. MedicationGood(Medication!Sending(s)) /\ MedicationGood(Medication!Idle(s))
      BY <1>0, <1>6, MedicationSending, MedicationPhases
    <2> QED
      BY <1>6, <2>1 DEF Medication!Take
  <1>7. ASSUME NEW m \in Medicines, Medication!RequestServerTimedMedication(m)
        PROVE  UNCHANGED player /\ MedicationGood(state')
    <2> DEFINE idle == Medication!Idle(state)
               asked == [idle EXCEPT !.medicine = m]
               waiting == [asked EXCEPT !.phase = "item"]
    <2>1. MedicationGood(idle) /\ idle.patient = NoPlayer
      BY <1>0, <1>7, MedicationPhases DEF Medication!RequestServerTimedMedication, Medication!Busy
    <2>2. \E missing \in {asked, waiting} : Medication!Take(asked, missing)
      BY <1>7 DEF Medication!RequestServerTimedMedication
    <2> HIDE DEF idle
    <2>3. MedicationGood(asked) /\ asked.patient = NoPlayer
      <3>1. asked \in MedicationStates
        BY <2>1 DEF MedicationGood, MedicationStates
      <3>2. /\ asked.patient = idle.patient /\ asked.previous = idle.previous /\ asked.own = idle.own
            /\ asked.instant = idle.instant /\ asked.temporary = idle.temporary
            /\ asked.broken = idle.broken
        BY <2>1 DEF MedicationGood, MedicationStates
      <3> QED
        BY <2>1, <3>1, <3>2, MedicationSame
    <2> HIDE DEF asked
    <2>4. MedicationGood(waiting)
      <3>1. waiting \in MedicationStates
        BY <2>3 DEF MedicationGood, MedicationStates
      <3>2. /\ waiting.patient = asked.patient /\ waiting.previous = asked.previous
            /\ waiting.own = asked.own /\ waiting.instant = asked.instant
            /\ waiting.temporary = asked.temporary /\ waiting.broken = asked.broken
        BY <2>3 DEF MedicationGood, MedicationStates
      <3> QED
        BY <2>3, <3>1, <3>2, MedicationSame
    <2>5. UNCHANGED player /\ player # NoPlayer
      BY <1>7 DEF Medication!RequestServerTimedMedication, Medication!game
    <2> QED
      BY <1>6, <2>2, <2>3, <2>4, <2>5
  <1>8. CASE Medication!Update
    <2>1. UNCHANGED player /\ player # NoPlayer /\ state.patient = NoPlayer
      BY <1>8 DEF Medication!Update, Medication!game, Medication!Busy
    <2>2. MedicationGood(Medication!Idle(state)) /\ MedicationGood(Medication!Later(state))
      BY <1>0, MedicationPhases
    <2>3. CASE Medication!LookForItem
      BY <1>0, <1>6, <2>1, <2>2, <2>3 DEF Medication!LookForItem
    <2>4. CASE Medication!Expire \/ Medication!LookForEffect
      <3>1. state' = Medication!Idle(state) \/ state' = Medication!Later(state)
        BY <2>4 DEF Medication!Expire, Medication!LookForEffect
      <3> QED
        BY <1>0, <2>1, <2>2, <3>1
    <2> QED
      BY <1>0, <1>8, <2>1, <2>3, <2>4 DEF Medication!Update
  <1>9. CASE UNCHANGED all
    BY <1>0, <1>9 DEF all, game
  <1> QED
    BY <1>0, <1>1, <1>2, <1>3, <1>4, <1>5, <1>7, <1>8, <1>9 DEF Medication!Next

LEMMA MedicationKept == MedicationInv => Medication!PlayersKeepTheirFlags
  BY DEF MedicationInv, MedicationGood, Medication!PlayersKeepTheirFlags

-----------------------------------------------------------------------------
(* MapOverrides: a setting that is not its own is held, with what it was. *)

Override == INSTANCE MapOverrides WITH override <- state, MaxRequests <- SomeRequests, Settings <- Places, NoSetting <- NoWeapon

OverrideStates ==
  [kind : {"reveal", "players"}, wanted : BOOLEAN, applied : BOOLEAN,
   present : Places \cup {NoWeapon}, held : Places \cup {NoWeapon}, original : 0 .. 2,
   value : [Places -> 0 .. 2], own : [Places -> 1 .. 2], lost : SUBSET Places,
   settled : BOOLEAN, other : {"absent", "alive", "dead"}, marked : BOOLEAN]

\* A setting that is not lost has its own value, or it is the one that is held.
OverrideGood(o) ==
  /\ o \in OverrideStates
  /\ \A s \in Places \ o.lost : o.value[s] = o.own[s] \/ o.held = s
  /\ o.held \in Places \ o.lost => o.original = o.own[o.held]

\* Nothing is held after a frame that withdrew it, until something changes.
OverrideInv ==
  /\ OverrideGood(state)
  /\ state.settled => state.held = NoWeapon /\ ~Override!Wanted(state)

LEMMA OverrideInit == Override!Init => OverrideInv
  <1> SUFFICES ASSUME Override!Init PROVE OverrideInv
    OBVIOUS
  <1>1. PICK kind \in {"reveal", "players"}, own \in [Places -> 1 .. 2] :
       state = [kind |-> kind, wanted |-> FALSE, applied |-> FALSE, present |-> NoWeapon,
                held |-> NoWeapon, original |-> 1, value |-> own, own |-> own,
                lost |-> {}, settled |-> FALSE, other |-> "absent", marked |-> FALSE]
    <2>1. (0 .. 2) \ {0} = 1 .. 2
      OBVIOUS
    <2> QED
      BY <2>1 DEF Override!Init, Override!Values
  <1>2. own \in [Places -> 0 .. 2]
    OBVIOUS
  <1>3. state \in OverrideStates
    BY <1>1, <1>2 DEF OverrideStates
  <1> QED
    BY <1>1, <1>3, PlaceAssumption DEF OverrideInv, OverrideGood

\* Fields that the property does not read.
LEMMA OverrideSame ==
  ASSUME NEW o, NEW c, OverrideGood(o), c \in OverrideStates,
         c.held = o.held, c.original = o.original, c.value = o.value, c.own = o.own, c.lost = o.lost
  PROVE  OverrideGood(c)
  BY DEF OverrideGood

LEMMA OverrideRestored ==
  ASSUME NEW o, OverrideGood(o), NEW ok \in BOOLEAN
  PROVE  LET r == Override!Restored(o, ok) IN
         /\ OverrideGood(r) /\ r.held = NoWeapon /\ r.present = o.present /\ r.wanted = o.wanted
         /\ r.kind = o.kind /\ \A s \in Places \ {o.held} : r.value[s] = o.value[s]
  <1> DEFINE h == o.held
             r == Override!Restored(o, ok)
  <1>1. CASE h = NoWeapon
    BY <1>1 DEF Override!Restored
  <1>2. CASE h # NoWeapon
    <2> DEFINE value == IF ok THEN o.original ELSE o.value[h]
               lost == IF ok /\ o.original = o.own[h] THEN o.lost \ {h} ELSE o.lost \cup {h}
               first == [o EXCEPT !.held = NoWeapon, !.lost = lost]
    <2>0. h \in Places
      BY <1>2 DEF OverrideGood, OverrideStates
    <2>1. value \in 0 .. 2 /\ lost \in SUBSET Places
      BY <2>0 DEF OverrideGood, OverrideStates
    <2>2. h \notin lost => value = o.own[h]
      OBVIOUS
    <2>3. \A s \in Places \ {h} : s \in lost <=> s \in o.lost
      OBVIOUS
    <2>4. r = [o EXCEPT !.held = NoWeapon, !.value[h] = value, !.lost = lost]
      BY <1>2 DEF Override!Restored
    <2> HIDE DEF value, lost, r
    <2>5. first \in OverrideStates
      BY <2>1 DEF OverrideGood, OverrideStates
    <2>6. /\ first.held = NoWeapon /\ first.lost = lost /\ first.own = o.own /\ first.value = o.value
          /\ first.present = o.present /\ first.wanted = o.wanted /\ first.kind = o.kind
      BY DEF OverrideGood, OverrideStates
    <2>7. r = [first EXCEPT !.value[h] = value]
      BY <2>4, <2>5, <2>6 DEF OverrideGood, OverrideStates
    <2> HIDE DEF first
    <2>8. [o.value EXCEPT ![h] = value] \in [Places -> 0 .. 2]
      BY <2>1 DEF OverrideGood, OverrideStates
    <2>9. r \in OverrideStates
      BY <2>5, <2>6, <2>7, <2>8 DEF OverrideStates
    <2>10. /\ r.held = NoWeapon /\ r.lost = lost /\ r.own = o.own
           /\ r.value = [o.value EXCEPT ![h] = value]
           /\ r.present = o.present /\ r.wanted = o.wanted /\ r.kind = o.kind
      BY <2>5, <2>6, <2>7 DEF OverrideStates
    <2>11. r.value[h] = value /\ \A s \in Places \ {h} : r.value[s] = o.value[s]
      BY <2>0, <2>10 DEF OverrideGood, OverrideStates
    <2>12. OverrideGood(r)
      BY <2>2, <2>3, <2>9, <2>10, <2>11, PlaceAssumption DEF OverrideGood
    <2> QED
      BY <2>10, <2>11, <2>12 DEF r
  <1> QED
    BY <1>1, <1>2

LEMMA OverrideCaptured ==
  ASSUME NEW o, OverrideGood(o), o.present # NoWeapon
  PROVE  LET c == Override!Captured(o) IN
         OverrideGood(c) /\ c.held = o.present
  <1> DEFINE p == o.present
             c == Override!Captured(o)
             free == Override!Restored(o, TRUE)
  <1>1. CASE o.held = p
    BY <1>1 DEF Override!Captured
  <1>2. CASE o.held # p
    <2>0. p \in Places /\ o.value[p] \in 0 .. 2
      BY DEF OverrideGood, OverrideStates
    <2>1. c = [free EXCEPT !.held = p, !.original = o.value[p]]
      BY <1>2 DEF Override!Captured
    <2>2. OverrideGood(free) /\ free.held = NoWeapon /\ free.value[p] = o.value[p]
      BY <1>2, <2>0, OverrideRestored
    <2> HIDE DEF free, c
    <2>3. c \in OverrideStates
      BY <2>0, <2>1, <2>2 DEF OverrideGood, OverrideStates
    <2>4. /\ c.held = p /\ c.original = free.value[p] /\ c.value = free.value /\ c.own = free.own
          /\ c.lost = free.lost
      BY <2>0, <2>1, <2>2 DEF OverrideGood, OverrideStates
    <2>5. OverrideGood(c)
      BY <2>0, <2>2, <2>3, <2>4, PlaceAssumption DEF OverrideGood
    <2> QED
      BY <2>4, <2>5 DEF c
  <1> QED
    BY <1>1, <1>2

LEMMA OverrideApplied ==
  ASSUME NEW o, OverrideGood(o), o.present # NoWeapon
  PROVE  OverrideGood(Override!Applied(o))
  <1> DEFINE c == Override!Captured(o)
             forced == [c EXCEPT !.value[c.held] = 0, !.applied = TRUE]
             marked == forced.marked \/ (forced.kind = "players" /\ forced.other = "alive")
  <1>1. OverrideGood(c) /\ c.held = o.present /\ c.held \in Places
    BY OverrideCaptured DEF OverrideGood, OverrideStates
  <1>2. Override!Applied(o) = [forced EXCEPT !.marked = marked]
    BY DEF Override!Applied, Override!Published
  <1> HIDE DEF c
  <1>3. forced \in OverrideStates
    <2>1. [c.value EXCEPT ![c.held] = 0] \in [Places -> 0 .. 2]
      BY <1>1 DEF OverrideGood, OverrideStates
    <2> QED
      BY <1>1, <2>1 DEF OverrideGood, OverrideStates
  <1>4. /\ forced.held = c.held /\ forced.own = c.own /\ forced.lost = c.lost
        /\ forced.original = c.original /\ forced.value = [c.value EXCEPT ![c.held] = 0]
    BY <1>1 DEF OverrideGood, OverrideStates
  <1>5. \A s \in Places \ {c.held} : forced.value[s] = c.value[s]
    BY <1>1, <1>4 DEF OverrideGood, OverrideStates
  <1> HIDE DEF forced
  <1>6. OverrideGood(forced)
    BY <1>1, <1>3, <1>4, <1>5 DEF OverrideGood
  <1>7. marked \in BOOLEAN
    BY <1>3 DEF OverrideStates
  <1> HIDE DEF marked
  <1>8. [forced EXCEPT !.marked = marked] \in OverrideStates
    BY <1>3, <1>7 DEF OverrideStates
  <1>9. LET m == [forced EXCEPT !.marked = marked] IN
        /\ m.held = forced.held /\ m.original = forced.original /\ m.value = forced.value
        /\ m.own = forced.own /\ m.lost = forced.lost
    BY <1>3 DEF OverrideStates
  <1> QED
    BY <1>2, <1>6, <1>8, <1>9, OverrideSame

LEMMA OverrideUnapplied ==
  ASSUME NEW o, OverrideGood(o), NEW settled \in BOOLEAN
  PROVE  /\ OverrideGood([o EXCEPT !.applied = FALSE])
         /\ OverrideGood([o EXCEPT !.applied = FALSE, !.settled = settled])
  <1>1. /\ [o EXCEPT !.applied = FALSE] \in OverrideStates
        /\ [o EXCEPT !.applied = FALSE, !.settled = settled] \in OverrideStates
    BY DEF OverrideGood, OverrideStates
  <1>2. \A c \in {[o EXCEPT !.applied = FALSE], [o EXCEPT !.applied = FALSE, !.settled = settled]} :
          /\ c.held = o.held /\ c.original = o.original /\ c.value = o.value
          /\ c.own = o.own /\ c.lost = o.lost
    BY DEF OverrideGood, OverrideStates
  <1> QED
    BY <1>1, <1>2, OverrideSame

LEMMA OverrideStep == OverrideInv /\ [Override!Next]_all => OverrideInv'
  <1> SUFFICES ASSUME OverrideInv, [Override!Next]_all
               PROVE  /\ OverrideGood(state')
                      /\ state'.settled => state'.held = NoWeapon /\ ~Override!Wanted(state)'
    BY DEF OverrideInv, OverrideGood, OverrideStates
  <1>0. OverrideGood(state) /\ state \in OverrideStates
    BY DEF OverrideInv, OverrideGood
  <1> DEFINE Kept ==
        /\ state'.held = state.held /\ state'.original = state.original
        /\ state'.value = state.value /\ state'.own = state.own /\ state'.lost = state.lost
  <1>1. CASE Override!Live
    <2>1. state' \in OverrideStates
      BY <1>0, <1>1 DEF Override!Live, OverrideStates
    <2>2. Kept /\ ~state'.settled
      BY <1>0, <1>1 DEF Override!Live, OverrideStates
    <2> QED
      BY <1>0, <2>1, <2>2, OverrideSame
  <1>2. ASSUME NEW s \in Places \cup {NoWeapon}, Override!Show(s)
        PROVE  OverrideGood(state') /\ ~state'.settled
    <2>1. state' \in OverrideStates
      BY <1>0, <1>2 DEF Override!Show, OverrideStates
    <2>2. Kept /\ ~state'.settled
      BY <1>0, <1>2 DEF Override!Show, OverrideStates
    <2> QED
      BY <1>0, <2>1, <2>2, OverrideSame
  <1>3. CASE Override!Change
    <2> DEFINE s == state.present
               own == 3 - state.own[s]
               lost == IF state.held = s THEN state.lost \cup {s} ELSE state.lost \ {s}
               first == [state EXCEPT !.lost = lost]
               second == [first EXCEPT !.own[s] = own]
    <2>1. s \in Places /\ own \in 1 .. 2 /\ own \in 0 .. 2 /\ lost \in SUBSET Places
      <3>1. s \in Places
        BY <1>0, <1>3 DEF Override!Change, OverrideStates
      <3>2. state.own[s] \in 1 .. 2
        BY <1>0, <3>1 DEF OverrideStates
      <3>3. own \in 1 .. 2 /\ own \in 0 .. 2
        BY <3>2
      <3> QED
        BY <1>0, <3>1, <3>3 DEF OverrideStates
    <2>2. state' = [state EXCEPT !.own[s] = own, !.value[s] = own, !.lost = lost]
      BY <1>3 DEF Override!Change
    <2>3. /\ s \in lost <=> state.held = s
          /\ \A x \in Places \ {s} : x \in lost <=> x \in state.lost
      OBVIOUS
    <2> HIDE DEF own, lost
    <2>4. /\ [state.own EXCEPT ![s] = own] \in [Places -> 1 .. 2]
          /\ [state.value EXCEPT ![s] = own] \in [Places -> 0 .. 2]
      BY <1>0, <2>1 DEF OverrideStates
    <2>5. first \in OverrideStates /\ first.own = state.own /\ first.value = state.value
      BY <1>0, <2>1 DEF OverrideStates
    <2>6. state' = [second EXCEPT !.value[s] = own]
      BY <1>0, <2>2 DEF OverrideStates
    <2> HIDE DEF first
    <2>7. second \in OverrideStates /\ second.value = state.value
      BY <2>4, <2>5 DEF OverrideStates
    <2> HIDE DEF second
    <2>8. state' \in OverrideStates
      BY <2>4, <2>6, <2>7 DEF OverrideStates
    <2>9. /\ state'.held = state.held /\ state'.original = state.original /\ state'.lost = lost
          /\ state'.own = [state.own EXCEPT ![s] = own]
          /\ state'.value = [state.value EXCEPT ![s] = own]
          /\ state'.settled = state.settled /\ state'.wanted = state.wanted
          /\ state'.present = state.present /\ state'.kind = state.kind
      BY <1>0, <2>2 DEF OverrideStates
    <2>10. /\ state'.own[s] = own /\ state'.value[s] = own
           /\ \A x \in Places \ {s} : state'.own[x] = state.own[x] /\ state'.value[x] = state.value[x]
      BY <1>0, <2>1, <2>9 DEF OverrideStates
    <2>11. OverrideGood(state')
      BY <1>0, <2>3, <2>8, <2>9, <2>10 DEF OverrideGood
    <2> QED
      BY <1>3, <2>9, <2>11 DEF Override!Change, Override!game, Override!Wanted, Override!Online, OverrideInv
  <1>4. ASSUME NEW o \in {"alive", "dead"}, Override!OtherPlayer(o) PROVE OverrideInv'
    <2> DEFINE marked == state.marked /\ o = "dead"
    <2>1. state' = [state EXCEPT !.other = o, !.marked = marked]
      BY <1>4 DEF Override!OtherPlayer
    <2>2. marked \in BOOLEAN
      OBVIOUS
    <2> HIDE DEF marked
    <2>3. state' \in OverrideStates
      BY <1>0, <2>1, <2>2 DEF OverrideStates
    <2>4. /\ Kept /\ state'.settled = state.settled /\ state'.wanted = state.wanted
          /\ state'.present = state.present /\ state'.kind = state.kind
      BY <1>0, <2>1 DEF OverrideStates
    <2>5. OverrideGood(state')
      BY <1>0, <2>3, <2>4, OverrideSame
    <2>6. Override!Wanted(state)' = Override!Wanted(state)
      BY <1>4, <2>4 DEF Override!OtherPlayer, Override!game, Override!Wanted, Override!Online
    <2> QED
      BY <2>4, <2>5, <2>6 DEF OverrideInv, OverrideGood, OverrideStates
  <1>5. ASSUME NEW wanted \in BOOLEAN, Override!SetEnabled(wanted)
        PROVE  OverrideGood(state') /\ ~state'.settled
    <2>1. state' \in OverrideStates
      BY <1>0, <1>5 DEF Override!SetEnabled, OverrideStates
    <2>2. Kept /\ ~state'.settled
      BY <1>0, <1>5 DEF Override!SetEnabled, OverrideStates
    <2> QED
      BY <1>0, <2>1, <2>2, OverrideSame
  <1>6. CASE Override!Update
    <2>0. UNCHANGED session
      BY <1>6 DEF Override!Update, Override!game
    <2>1. CASE Override!Uninitialized
      <3>1. state' = [state EXCEPT !.applied = FALSE]
        BY <2>1 DEF Override!Uninitialized
      <3>2. OverrideGood(state')
        BY <1>0, <3>1, OverrideUnapplied
      <3>3. /\ state'.held = state.held /\ state'.settled = state.settled /\ state'.wanted = state.wanted
            /\ state'.present = state.present /\ state'.kind = state.kind
        BY <1>0, <3>1 DEF OverrideStates
      <3>4. Override!Wanted(state)' <=> Override!Wanted(state)
        BY <2>0, <3>3 DEF Override!Wanted, Override!Online
      <3> QED
        BY <3>2, <3>3, <3>4 DEF OverrideInv
    <2>2. CASE Override!Apply
      <3>1. state.present # NoWeapon /\ Override!Wanted(state)
        BY <2>2 DEF Override!Apply, Override!Wanted
      <3>2. ~state.settled
        BY <3>1 DEF OverrideInv
      <3> DEFINE free == IF state.held = state.present THEN state ELSE Override!Restored(state, TRUE)
      <3>3. OverrideGood(Override!Applied(state)) /\ OverrideGood(free) /\ OverrideGood(Override!Captured(state))
        BY <1>0, <3>1, OverrideApplied, OverrideRestored, OverrideCaptured
      <3>4. OverrideGood(state')
        <4>1. CASE state' = Override!Applied(state)
          BY <3>3, <4>1
        <4>2. CASE state' \in {[o EXCEPT !.applied = FALSE] : o \in {free, Override!Captured(state)}}
          BY <3>3, <4>2, OverrideUnapplied
        <4> QED
          BY <2>2, <4>1, <4>2 DEF Override!Apply
      <3>5. ~state'.settled
        <4>1. \A o : o \in OverrideStates /\ ~o.settled => ~[o EXCEPT !.applied = FALSE].settled
          BY DEF OverrideStates
        <4>2. ~Override!Restored(state, TRUE).settled
          BY <1>0, <3>2 DEF Override!Restored, OverrideStates
        <4>3. ~Override!Captured(state).settled
          BY <1>0, <3>2, <4>2, OverrideRestored DEF Override!Captured, OverrideGood, OverrideStates
        <4>4. ~Override!Applied(state).settled
          <5>1. Override!Captured(state) \in OverrideStates
            BY <3>3 DEF OverrideGood
          <5> QED
            BY <4>3, <5>1 DEF Override!Applied, Override!Published, OverrideStates
        <4>5. CASE state' = Override!Applied(state)
          BY <4>4, <4>5
        <4>6. CASE state' \in {[o EXCEPT !.applied = FALSE] : o \in {free, Override!Captured(state)}}
          BY <3>2, <3>3, <4>1, <4>2, <4>3, <4>6 DEF OverrideGood
        <4> QED
          BY <2>2, <4>5, <4>6 DEF Override!Apply
      <3> QED
        BY <3>4, <3>5
    <2>3. CASE Override!Withdraw
      <3>1. PICK ok \in BOOLEAN : state' = [Override!Restored(state, ok) EXCEPT !.applied = FALSE, !.settled = ok]
        BY <2>3 DEF Override!Withdraw, Override!Withdrawn
      <3> DEFINE r == Override!Restored(state, ok)
      <3>2. /\ OverrideGood(r) /\ r.held = NoWeapon /\ r.present = state.present
            /\ r.wanted = state.wanted /\ r.kind = state.kind
        BY <1>0, OverrideRestored
      <3> HIDE DEF r
      <3>3. OverrideGood(state')
        BY <3>1, <3>2, OverrideUnapplied DEF r
      <3>4. /\ state'.held = NoWeapon /\ state'.present = state.present /\ state'.wanted = state.wanted
            /\ state'.kind = state.kind
        <4>1. state' = [r EXCEPT !.applied = FALSE, !.settled = ok]
          BY <3>1 DEF r
        <4> QED
          BY <3>2, <4>1 DEF OverrideGood, OverrideStates
      <3>5. ~Override!Wanted(state)'
        BY <2>0, <2>3, <3>4 DEF Override!Withdraw, Override!Wanted, Override!Online
      <3> QED
        BY <3>3, <3>4, <3>5
    <2> QED
      BY <1>6, <2>1, <2>2, <2>3 DEF Override!Update
  <1>7. CASE UNCHANGED all
    BY <1>7 DEF all, game, OverrideInv, OverrideGood, Override!Wanted, Override!Online
  <1> QED
    BY <1>1, <1>2, <1>3, <1>4, <1>5, <1>6, <1>7
    DEF Override!Next, OverrideInv

LEMMA OverrideKept ==
  OverrideInv => Override!SettingsAreRemembered /\ Override!WithdrawnMeansOwn
  BY PlaceAssumption
  DEF OverrideInv, OverrideGood, Override!SettingsAreRemembered, Override!WithdrawnMeansOwn

-----------------------------------------------------------------------------
(* WorldVisuals: a variable of the climate that is not the game's is remembered, with what
   the game had. *)

LEMMA VisualsInit == Visuals!Init => VisualsInv
  BY DEF Visuals!Init, VisualsInv, VisualsGood, VisualsStates, Visuals!FogModes, Visuals!RainModes, Visuals!Climate

\* Fields that the property does not read.
LEMMA VisualsSame ==
  ASSUME NEW v, NEW t, VisualsGood(v), t \in VisualsStates,
         t.forced = v.forced, t.taken = v.taken, t.right = v.right, t.broken = v.broken
  PROVE  VisualsGood(t)
  BY DEF VisualsGood

LEMMA VisualsTaken ==
  ASSUME NEW v, VisualsGood(v), NEW c \in Visuals!Climate
  PROVE  /\ VisualsGood(Visuals!Taken(v, c)) /\ c \in Visuals!Taken(v, c).taken
         /\ VisualsGood(Visuals!Forced(v, c))
  <1> DEFINE t == Visuals!Taken(v, c)
             f == Visuals!Forced(v, c)
  <1>1. VisualsGood(t) /\ c \in t.taken
    <2>1. CASE c \in v.taken
      BY <2>1 DEF Visuals!Taken
    <2>2. CASE c \notin v.taken
      <3> DEFINE right == IF c \in v.forced THEN v.right \ {c} ELSE v.right \cup {c}
      <3>1. t = [v EXCEPT !.taken = @ \cup {c}, !.right = right]
        BY <2>2 DEF Visuals!Taken
      <3>2. right \in SUBSET Visuals!Climate
        BY DEF VisualsGood, VisualsStates
      <3>3. t \in VisualsStates
        <4> HIDE DEF right, t
        <4> QED
          BY <3>1, <3>2 DEF VisualsGood, VisualsStates
      <3>4. t.taken = v.taken \cup {c} /\ t.right = right /\ t.forced = v.forced /\ t.broken = v.broken
        <4> HIDE DEF right, t
        <4> QED
          BY <3>1 DEF VisualsGood, VisualsStates
      <3> HIDE DEF t
      <3> QED
        BY <2>2, <3>3, <3>4 DEF VisualsGood
    <2> QED
      BY <2>1, <2>2
  <1>2. VisualsGood(f)
    <2>1. f = [t EXCEPT !.forced = @ \cup {c}]
      BY DEF Visuals!Forced
    <2> HIDE DEF t, f
    <2>2. f \in VisualsStates
      BY <1>1, <2>1 DEF VisualsGood, VisualsStates
    <2>3. f.taken = t.taken /\ f.right = t.right /\ f.forced = t.forced \cup {c} /\ f.broken = t.broken
      BY <1>1, <2>1 DEF VisualsGood, VisualsStates
    <2> QED
      BY <1>1, <2>2, <2>3 DEF VisualsGood
  <1> QED
    BY <1>1, <1>2

LEMMA VisualsRestored ==
  ASSUME NEW v, VisualsGood(v), NEW c \in Visuals!Climate
  PROVE  /\ VisualsGood(Visuals!Restored(v, c))
         /\ VisualsGood([Visuals!Restored(v, c) EXCEPT !.forced = v.forced, !.broken = @ \cup {c}])
  <1> DEFINE r == Visuals!Restored(v, c)
             f == [r EXCEPT !.forced = v.forced, !.broken = @ \cup {c}]
  <1>1. CASE c \notin v.taken
    <2>1. r = v
      BY <1>1 DEF Visuals!Restored
    <2>2. f \in VisualsStates
      BY <2>1 DEF VisualsGood, VisualsStates
    <2>3. f.taken = v.taken /\ f.right = v.right /\ f.forced = v.forced /\ f.broken = v.broken \cup {c}
      BY <2>1 DEF VisualsGood, VisualsStates
    <2> HIDE DEF f
    <2>4. VisualsGood(f)
      BY <2>2, <2>3 DEF VisualsGood
    <2> QED
      BY <2>1, <2>4 DEF f
  <1>2. CASE c \in v.taken
    <2> DEFINE forced == IF c \in v.right THEN v.forced \ {c} ELSE v.forced \cup {c}
    <2>1. r = [v EXCEPT !.taken = @ \ {c}, !.forced = forced]
      BY <1>2 DEF Visuals!Restored
    <2>2. forced \in SUBSET Visuals!Climate
      BY DEF VisualsGood, VisualsStates
    <2>3. forced = IF c \in v.right THEN v.forced \ {c} ELSE v.forced \cup {c}
      OBVIOUS
    <2> HIDE DEF forced, r
    <2>4. r \in VisualsStates
      BY <2>1, <2>2 DEF VisualsGood, VisualsStates
    <2>5. r.taken = v.taken \ {c} /\ r.right = v.right /\ r.forced = forced /\ r.broken = v.broken
      BY <2>1 DEF VisualsGood, VisualsStates
    <2>6. VisualsGood(r)
      BY <1>2, <2>3, <2>4, <2>5 DEF VisualsGood
    <2>7. f \in VisualsStates
      BY <2>4 DEF VisualsGood, VisualsStates
    <2>8. f.taken = r.taken /\ f.right = r.right /\ f.forced = v.forced /\ f.broken = r.broken \cup {c}
      BY <2>4 DEF VisualsStates
    <2> HIDE DEF f
    <2>9. VisualsGood(f)
      BY <2>5, <2>7, <2>8 DEF VisualsGood
    <2> QED
      BY <2>6, <2>9 DEF r, f
  <1> QED
    BY <1>1, <1>2

LEMMA VisualsSteered ==
  ASSUME NEW v, VisualsGood(v), NEW c \in Visuals!Climate, NEW wanted \in BOOLEAN
  PROVE  /\ VisualsGood(Visuals!Steered(v, c, wanted))
         /\ \A t \in Visuals!Failed(v, c, wanted) : VisualsGood(t)
  <1>1. VisualsGood(Visuals!Steered(v, c, wanted))
    BY VisualsTaken, VisualsRestored DEF Visuals!Steered
  <1>2. VisualsGood(Visuals!Taken(v, c)) /\ VisualsGood(Visuals!Restored(Visuals!Taken(v, c), c))
    BY VisualsTaken, VisualsRestored
  <1>3. VisualsGood([v EXCEPT !.forced = @ \cup {c}, !.broken = @ \cup {c}])
    <2> DEFINE t == [v EXCEPT !.forced = @ \cup {c}, !.broken = @ \cup {c}]
    <2>1. t \in VisualsStates
      BY DEF VisualsGood, VisualsStates
    <2>2. t.taken = v.taken /\ t.right = v.right /\ t.forced = v.forced \cup {c} /\ t.broken = v.broken \cup {c}
      BY DEF VisualsGood, VisualsStates
    <2> HIDE DEF t
    <2>3. VisualsGood(t)
      BY <2>1, <2>2 DEF VisualsGood
    <2> QED
      BY <2>3 DEF t
  <1>4. ASSUME NEW t \in Visuals!Failed(v, c, wanted) PROVE VisualsGood(t)
    <2>1. CASE ~wanted
      BY <1>4, <2>1, VisualsRestored DEF Visuals!Failed
    <2>2. CASE wanted
      BY <1>2, <1>3, <1>4, <2>2 DEF Visuals!Failed
    <2> QED
      BY <2>1, <2>2
  <1> QED
    BY <1>1, <1>4

LEMMA VisualsLight ==
  ASSUME NEW v, VisualsGood(v), NEW failing
  PROVE  \A t \in Visuals!Lit(v, failing) : VisualsGood(t)
  <1> DEFINE off == Visuals!RemoveLocalLight(v)
             lit == [off EXCEPT !.lamp = v.square, !.lamps = @ \cup {v.square}]
             dark == [v EXCEPT !.lamp = NoWeapon]
             left == [dark EXCEPT !.orphans = @ \cup ({v.lamp} \ {NoWeapon})]
             stray == [off EXCEPT !.lamps = @ \cup {v.square}, !.orphans = @ \cup {v.square}]
  <1>0. v \in VisualsStates /\ v.square \in Places /\ {v.lamp} \ {NoWeapon} \subseteq Places
    BY DEF VisualsGood, VisualsStates
  <1>1. off \in VisualsStates /\ off.forced = v.forced /\ off.taken = v.taken /\ off.right = v.right
        /\ off.broken = v.broken
    BY <1>0 DEF VisualsStates, Visuals!RemoveLocalLight
  <1>2. dark \in VisualsStates /\ dark.forced = v.forced /\ dark.taken = v.taken /\ dark.right = v.right
        /\ dark.broken = v.broken
    BY <1>0 DEF VisualsStates
  <1> HIDE DEF off, dark
  <1>3. lit \in VisualsStates /\ lit.forced = v.forced /\ lit.taken = v.taken /\ lit.right = v.right
        /\ lit.broken = v.broken
    BY <1>0, <1>1 DEF VisualsStates
  <1>4. left \in VisualsStates /\ left.forced = v.forced /\ left.taken = v.taken /\ left.right = v.right
        /\ left.broken = v.broken
    BY <1>0, <1>2 DEF VisualsStates
  <1>5. stray \in VisualsStates /\ stray.forced = v.forced /\ stray.taken = v.taken /\ stray.right = v.right
        /\ stray.broken = v.broken
    BY <1>0, <1>1 DEF VisualsStates
  <1> HIDE DEF lit, left, stray
  <1>6. VisualsGood(off) /\ VisualsGood(lit) /\ VisualsGood(left) /\ VisualsGood(stray)
    BY <1>1, <1>3, <1>4, <1>5, VisualsSame
  <1>7. Visuals!UpdateLocalLight(v) \in {off, v, lit}
    BY DEF Visuals!UpdateLocalLight, off, lit
  <1>8. Visuals!LightFails(v) \subseteq {v, off, left, stray}
    BY DEF Visuals!LightFails, off, left, dark, stray
  <1> QED
    BY <1>6, <1>7, <1>8 DEF Visuals!Lit

LEMMA VisualsWanted ==
  ASSUME NEW v, VisualsGood(v), NEW c \in Visuals!Climate
  PROVE  Visuals!Wanted(v, c) \in BOOLEAN
  <1>1. v.daylight \in BOOLEAN /\ v.vision \in BOOLEAN
    BY DEF VisualsGood, VisualsStates
  <1>2. (v.fog # "follow") \in BOOLEAN /\ (v.rain # "follow") \in BOOLEAN /\ (v.rain \in {"rain", "snow"}) \in BOOLEAN
    OBVIOUS
  <1>3. \/ c = "daylight" /\ Visuals!Wanted(v, c) = v.daylight
        \/ c = "vision" /\ Visuals!Wanted(v, c) = v.vision
        \/ c = "fog" /\ Visuals!Wanted(v, c) = (v.fog # "follow")
        \/ c = "precipitation" /\ Visuals!Wanted(v, c) = (v.rain # "follow")
        \/ c = "snow" /\ Visuals!Wanted(v, c) = (v.rain \in {"rain", "snow"})
    <2>1. c \in {"daylight", "vision", "fog", "precipitation", "snow"}
      BY DEF Visuals!Climate
    <2> QED
      BY <2>1 DEF Visuals!Wanted
  <1> QED
    BY <1>1, <1>2, <1>3

LEMMA VisualsAfter ==
  ASSUME NEW v, VisualsGood(v), NEW c \in Visuals!Climate, NEW failing
  PROVE  \A t \in Visuals!After(v, c, failing) : VisualsGood(t)
  BY VisualsSteered, VisualsWanted DEF Visuals!After

LEMMA VisualsRained ==
  ASSUME NEW v, VisualsGood(v), NEW failing
  PROVE  \A t \in Visuals!Rained(v, failing) : VisualsGood(t)
  <1> DEFINE wet == Visuals!Steered(v, "precipitation", Visuals!Wanted(v, "precipitation"))
  <1>1. "precipitation" \in Visuals!Climate /\ "snow" \in Visuals!Climate
    BY DEF Visuals!Climate
  <1>2. Visuals!Wanted(v, "precipitation") \in BOOLEAN /\ Visuals!Wanted(v, "snow") \in BOOLEAN
    BY <1>1, VisualsWanted
  <1>3. VisualsGood(wet) /\ \A t \in Visuals!Failed(v, "precipitation", Visuals!Wanted(v, "precipitation")) : VisualsGood(t)
    BY <1>1, <1>2, VisualsSteered
  <1> HIDE DEF wet
  <1>4. /\ VisualsGood(Visuals!Steered(wet, "snow", Visuals!Wanted(v, "snow")))
        /\ \A t \in Visuals!Failed(wet, "snow", Visuals!Wanted(v, "snow")) : VisualsGood(t)
    BY <1>1, <1>2, <1>3, VisualsSteered
  <1> QED
    BY <1>3, <1>4 DEF Visuals!Rained, Visuals!Precipitation, wet

LEMMA VisualsStep == VisualsInv /\ [Visuals!Next]_all => VisualsInv'
  <1> SUFFICES ASSUME VisualsInv, [Visuals!Next]_all
               PROVE  /\ VisualsGood(state')
                      /\ player' = NoPlayer /\ ~state'.ended => state'.taken = {}
    BY DEF VisualsInv, VisualsGood, VisualsStates, Visuals!Climate, Visuals!FogModes, Visuals!RainModes
  <1>0. VisualsGood(state) /\ state \in VisualsStates
    BY DEF VisualsInv, VisualsGood
  <1> DEFINE Kept ==
        /\ state'.forced = state.forced /\ state'.taken = state.taken
        /\ state'.right = state.right /\ state'.broken = state.broken
  <1>1. CASE Visuals!Leave
    <2>1. state' \in VisualsStates
      BY <1>0, <1>1 DEF Visuals!Leave, VisualsStates
    <2>2. Kept /\ state'.ended
      BY <1>0, <1>1 DEF Visuals!Leave, VisualsStates
    <2> QED
      BY <1>0, <2>1, <2>2, VisualsSame
  <1>2. CASE Visuals!Enter
    <2>1. player = NoPlayer /\ ~state.ended /\ player' \in Players
      BY <1>2 DEF Visuals!Enter, Visuals!EnterWorld
    <2>2. state.taken = {}
      BY <2>1 DEF VisualsInv
    <2>3. state' \in VisualsStates
      BY <1>0, <1>2 DEF Visuals!Enter, VisualsStates
    <2>4. state'.forced = {} /\ state'.taken = state.taken
      BY <1>0, <1>2 DEF Visuals!Enter, VisualsStates
    <2> QED
      BY <2>1, <2>2, <2>3, <2>4, PlayerAssumption DEF VisualsGood
  <1>3. CASE Visuals!Die
    <2>1. UNCHANGED state /\ player' \in Players
      BY <1>3 DEF Visuals!Die, Visuals!Respawn
    <2> QED
      BY <1>0, <2>1, PlayerAssumption
  <1>4. ASSUME NEW s \in Places, Visuals!Walk(s)
        PROVE  VisualsGood(state') /\ UNCHANGED <<player, state.ended, state.taken>>
    <2>1. state' \in VisualsStates
      BY <1>0, <1>4 DEF Visuals!Walk, VisualsStates
    <2>2. Kept /\ UNCHANGED <<player, state.ended>>
      BY <1>0, <1>4 DEF Visuals!Walk, VisualsStates, Visuals!game
    <2> QED
      BY <1>0, <2>1, <2>2, VisualsSame
  <1>5. CASE Visuals!Set
    <2>1. CASE \E on \in BOOLEAN :
                 state' \in {[state EXCEPT !.daylight = on, !.obeyed = FALSE],
                             [state EXCEPT !.vision = on, !.obeyed = FALSE],
                             [state EXCEPT !.dark = on, !.obeyed = FALSE],
                             Visuals!SetRevealUnexploredEnabled(on)}
      <3>1. PICK on \in BOOLEAN :
                 state' \in {[state EXCEPT !.daylight = on, !.obeyed = FALSE],
                             [state EXCEPT !.vision = on, !.obeyed = FALSE],
                             [state EXCEPT !.dark = on, !.obeyed = FALSE],
                             Visuals!SetRevealUnexploredEnabled(on)}
        BY <2>1
      <3>2. (on /\ player # NoPlayer) \in BOOLEAN
        OBVIOUS
      <3>3. state' \in VisualsStates
        BY ZenonT(60), <1>0, <3>1, <3>2 DEF VisualsStates, Visuals!SetRevealUnexploredEnabled
      <3>4. Kept /\ state'.ended = state.ended
        BY <1>0, <3>1 DEF VisualsStates, Visuals!SetRevealUnexploredEnabled
      <3>5. UNCHANGED player
        BY <1>5 DEF Visuals!Set, Visuals!game
      <3>6. VisualsGood(state')
        BY <1>0, <3>3, <3>4, VisualsSame
      <3> QED
        BY <3>4, <3>5, <3>6 DEF VisualsInv
    <2>2. CASE \/ \E mode \in Visuals!FogModes : state' = [state EXCEPT !.fog = mode, !.obeyed = FALSE]
               \/ \E mode \in Visuals!RainModes : state' = [state EXCEPT !.rain = mode, !.obeyed = FALSE]
      <3>1. state' \in VisualsStates
        BY <1>0, <2>2 DEF VisualsStates
      <3>2. Kept /\ state'.ended = state.ended
        BY <1>0, <2>2 DEF VisualsStates
      <3>3. UNCHANGED player
        BY <1>5 DEF Visuals!Set, Visuals!game
      <3>4. VisualsGood(state')
        BY <1>0, <3>1, <3>2, VisualsSame
      <3> QED
        BY <3>2, <3>3, <3>4 DEF VisualsInv
    <2> QED
      BY <1>5, <2>1, <2>2 DEF Visuals!Set
  <1>6. CASE Visuals!UpdateWithoutWorld
    <2> DEFINE clean == [state EXCEPT !.taken = {}, !.forced = (@ \ state.taken) \cup (state.taken \ state.right),
                           !.masked = FALSE, !.ended = FALSE, !.obeyed = FALSE]
    <2>1. clean \in VisualsStates
      BY <1>0 DEF VisualsStates
    <2>2. /\ clean.taken = {} /\ clean.right = state.right /\ clean.broken = state.broken
          /\ clean.forced = (state.forced \ state.taken) \cup (state.taken \ state.right)
      BY <1>0 DEF VisualsStates
    <2>3. state' = [clean EXCEPT !.lamp = NoWeapon, !.lamps = @ \ {clean.lamp}]
      BY <1>6 DEF Visuals!UpdateWithoutWorld, Visuals!Ended, Visuals!RemoveLocalLight
    <2> HIDE DEF clean
    <2>4. VisualsGood(clean)
      BY <1>0, <2>1, <2>2 DEF VisualsGood
    <2>5. state' \in VisualsStates
      BY <2>1, <2>3 DEF VisualsStates
    <2>6. /\ state'.taken = clean.taken /\ state'.right = clean.right /\ state'.broken = clean.broken
          /\ state'.forced = clean.forced
      BY <2>1, <2>3 DEF VisualsStates
    <2> QED
      BY <2>2, <2>4, <2>5, <2>6, VisualsSame
  <1>7. CASE Visuals!UpdateInWorld /\ player' = player
    <2>0. player' # NoPlayer
      BY <1>7 DEF Visuals!UpdateInWorld
    <2> DEFINE begun == [state EXCEPT !.masked = state.reveal]
    <2>1. VisualsGood(begun)
      <3>1. begun \in VisualsStates
        BY <1>0 DEF VisualsStates
      <3>2. begun.forced = state.forced /\ begun.taken = state.taken /\ begun.right = state.right
            /\ begun.broken = state.broken
        BY <1>0 DEF VisualsStates
      <3> QED
        BY <1>0, <3>1, <3>2, VisualsSame
    <2>2. ASSUME NEW v, VisualsGood(v), NEW ok \in BOOLEAN, state' = [v EXCEPT !.obeyed = ok]
          PROVE  VisualsGood(state')
      <3>1. state' \in VisualsStates
        BY <2>2 DEF VisualsGood, VisualsStates
      <3>2. /\ state'.forced = v.forced /\ state'.taken = v.taken /\ state'.right = v.right
            /\ state'.broken = v.broken
        BY <2>2 DEF VisualsGood, VisualsStates
      <3> QED
        BY <2>2, <3>1, <3>2, VisualsSame
    <2> HIDE DEF begun
    <2>3. CASE state' = [begun EXCEPT !.obeyed = FALSE]
      <3>1. PICK ok \in BOOLEAN : state' = [begun EXCEPT !.obeyed = ok]
        BY <2>3
      <3> QED
        BY <2>0, <2>1, <2>2, <3>1
    <2>4. CASE \E failing \in {"nothing", "light"} \cup Visuals!Climate :
            \E d \in Visuals!After(begun, "daylight", failing) : \E l \in Visuals!Lit(d, failing) :
             \E s \in Visuals!After(l, "vision", failing) : \E f \in Visuals!After(s, "fog", failing) :
             \E r \in Visuals!Rained(f, failing) :
               state' = [r EXCEPT !.obeyed = failing = "nothing"]
      <3> DEFINE Ends(v, failing) == state' = [v EXCEPT !.obeyed = failing = "nothing"]
      <3>a. PICK failing \in {"nothing", "light"} \cup Visuals!Climate :
              \E d \in Visuals!After(begun, "daylight", failing) : \E l \in Visuals!Lit(d, failing) :
               \E s \in Visuals!After(l, "vision", failing) : \E f \in Visuals!After(s, "fog", failing) :
               \E r \in Visuals!Rained(f, failing) : Ends(r, failing)
        BY <2>4
      <3>b. PICK d \in Visuals!After(begun, "daylight", failing) : \E l \in Visuals!Lit(d, failing) :
               \E s \in Visuals!After(l, "vision", failing) : \E f \in Visuals!After(s, "fog", failing) :
               \E r \in Visuals!Rained(f, failing) : Ends(r, failing)
        BY <3>a
      <3>c. PICK l \in Visuals!Lit(d, failing) :
               \E s \in Visuals!After(l, "vision", failing) : \E f \in Visuals!After(s, "fog", failing) :
               \E r \in Visuals!Rained(f, failing) : Ends(r, failing)
        BY <3>b
      <3>d. PICK s \in Visuals!After(l, "vision", failing) : \E f \in Visuals!After(s, "fog", failing) :
               \E r \in Visuals!Rained(f, failing) : Ends(r, failing)
        BY <3>c
      <3>e. PICK f \in Visuals!After(s, "fog", failing) : \E r \in Visuals!Rained(f, failing) : Ends(r, failing)
        BY <3>d
      <3>1. PICK r \in Visuals!Rained(f, failing) : Ends(r, failing)
        BY <3>e
      <3>2. "daylight" \in Visuals!Climate /\ "vision" \in Visuals!Climate /\ "fog" \in Visuals!Climate
        BY DEF Visuals!Climate
      <3>3. VisualsGood(d)
        BY <3>b, <2>1, <3>2, VisualsAfter
      <3>4. VisualsGood(l)
        BY <3>c, <3>3, VisualsLight
      <3>5. VisualsGood(s)
        BY <3>d, <3>2, <3>4, VisualsAfter
      <3>6. VisualsGood(f)
        BY <3>e, <3>2, <3>5, VisualsAfter
      <3>7. VisualsGood(r)
        BY <3>1, <3>6, VisualsRained
      <3>8. PICK ok \in BOOLEAN : state' = [r EXCEPT !.obeyed = ok]
        <4> DEFINE well == failing = "nothing"
        <4>1. well \in BOOLEAN /\ state' = [r EXCEPT !.obeyed = well]
          BY <3>1
        <4> QED
          BY <4>1
      <3> QED
        BY <2>0, <2>2, <3>7, <3>8
    <2>5. VisualsGood(state')
      BY <1>7, <2>3, <2>4 DEF Visuals!UpdateInWorld, begun
    <2> QED
      BY <1>7, <2>5 DEF Visuals!UpdateInWorld
  <1>8. CASE UNCHANGED all
    BY <1>0, <1>8 DEF all, game, VisualsInv
  <1>9. Visuals!Update => player' = player
    BY DEF Visuals!Update, Visuals!game
  <1> QED
    BY <1>1, <1>2, <1>3, <1>4, <1>5, <1>6, <1>7, <1>8, <1>9 DEF Visuals!Next, Visuals!Update, VisualsInv

LEMMA VisualsKept == VisualsInv => Visuals!ClimateIsRemembered
  BY DEF VisualsInv, VisualsGood, Visuals!ClimateIsRemembered

-----------------------------------------------------------------------------
(* HandTools: what a weapon has that it did not bring counts as applied, or was altered. *)

Hand == INSTANCE HandTools WITH hand <- state, MaxRequests <- FewRequests, MaxFaults <- FewFaults, Clothes <- Things

HandFields ==
  {"flags", "held", "weapon", "value", "applied", "original", "mended", "told", "lost", "altered", "previous"}

HandValues == Weapons \cup {"altered", "ours"}
HandTable == [Weapons -> [Hand!Groups -> HandValues]]

\* One value of one weapon: it is ours where it counts as changed only, what is remembered
\* of it is the game's, and what the user altered is there or is what is remembered.
HandPair(h, w, g) ==
  /\ h.value[w][g] \in {w, "altered", "ours"}
  /\ h.value[w][g] = "ours" => w = h.weapon /\ g \in h.applied
  /\ w = h.weapon /\ g \in h.applied =>
       h.value[w][g] \in {"altered", "ours"} /\ h.original[g] \in {w, "altered"}
  /\ <<w, g>> \in h.altered =>
       IF w = h.weapon /\ g \in h.applied THEN h.original[g] = "altered" ELSE h.value[w][g] = "altered"

HandGood(h) ==
  /\ DOMAIN h = HandFields /\ h = [f \in HandFields |-> h[f]]
  /\ h.value \in HandTable /\ h.applied \subseteq Hand!Groups
  /\ h.original \in [Hand!Groups -> HandValues \cup {Hand!NoValue}]
  /\ h.weapon \in Weapons \cup {NoWeapon} /\ h.held \in Weapons \cup {NoWeapon}
  /\ h.weapon = NoWeapon => h.applied = {}
  /\ \A w \in Weapons, g \in Hand!Groups : HandPair(h, w, g)

HandInv == HandGood(state)

LEMMA HandInit == Hand!Init => HandInv
  <1> SUFFICES ASSUME Hand!Init PROVE HandGood(state)
    BY DEF HandInv
  <1> DEFINE value == [w \in Weapons |-> [g \in Hand!Groups |-> w]]
             original == [g \in Hand!Groups |-> Hand!NoValue]
  <1>1. state = [flags |-> {}, held |-> NoWeapon, weapon |-> NoWeapon, value |-> value,
                 applied |-> {}, original |-> original,
                 mended |-> {}, told |-> {}, lost |-> {}, altered |-> {}, previous |-> NoPlayer]
    BY DEF Hand!Init
  <1>2. value \in HandTable /\ \A w \in Weapons, g \in Hand!Groups : value[w][g] = w
    BY DEF HandTable, HandValues
  <1>3. original \in [Hand!Groups -> HandValues \cup {Hand!NoValue}]
    OBVIOUS
  <1> HIDE DEF value, original
  <1>4. /\ DOMAIN state = HandFields /\ state = [f \in HandFields |-> state[f]]
        /\ state.value = value /\ state.original = original /\ state.applied = {}
        /\ state.weapon = NoWeapon /\ state.held = NoWeapon /\ state.altered = {}
    BY <1>1 DEF HandFields
  <1> QED
    BY <1>2, <1>3, <1>4, ValueAssumption DEF HandGood, HandPair

\* Fields that the properties do not read.
LEMMA HandSame ==
  ASSUME NEW h, NEW t, HandGood(h), DOMAIN t = HandFields, t = [f \in HandFields |-> t[f]],
         t.value = h.value, t.applied = h.applied, t.original = h.original, t.weapon = h.weapon,
         t.held \in Weapons \cup {NoWeapon}, t.altered = h.altered
  PROVE  HandGood(t)
  BY DEF HandGood, HandPair

LEMMA HandRestored ==
  ASSUME NEW h, HandGood(h)
  PROVE  LET r == Hand!Restored(h) IN
         /\ HandGood(r) /\ r.weapon = NoWeapon /\ r.applied = {} /\ r.held = h.held
         /\ HandGood([r EXCEPT !.weapon = h.held])
  <1> DEFINE value == Hand!Given(h)
             r == Hand!Restored(h)
             t == [r EXCEPT !.weapon = h.held]
  <1>0. /\ DOMAIN h = HandFields /\ h = [f \in HandFields |-> h[f]] /\ h.value \in HandTable
        /\ h.applied \subseteq Hand!Groups /\ h.original \in [Hand!Groups -> HandValues \cup {Hand!NoValue}]
        /\ h.weapon \in Weapons \cup {NoWeapon} /\ h.held \in Weapons \cup {NoWeapon}
    BY DEF HandGood
  <1>1. /\ value \in HandTable
        /\ \A w \in Weapons, g \in Hand!Groups :
             value[w][g] = IF w = h.weapon /\ g \in h.applied THEN h.original[g] ELSE h.value[w][g]
    <2>1. \A w \in Weapons, g \in Hand!Groups : w = h.weapon /\ g \in h.applied => h.original[g] \in HandValues
      <3>1. \A w \in Weapons, g \in Hand!Groups :
              w = h.weapon /\ g \in h.applied => h.original[g] \in {w, "altered"}
        BY DEF HandGood, HandPair
      <3> QED
        BY <3>1 DEF HandValues
    <2> QED
      BY <1>0, <2>1 DEF HandTable, Hand!Given
  <1>2. r = [h EXCEPT !.value = value, !.weapon = NoWeapon, !.applied = {}]
    BY DEF Hand!Restored
  <1> HIDE DEF value, r
  <1>3. /\ DOMAIN r = HandFields /\ r = [f \in HandFields |-> r[f]]
        /\ r.value = value /\ r.weapon = NoWeapon /\ r.applied = {} /\ r.held = h.held
        /\ r.original = h.original /\ r.altered = h.altered
    BY <1>0, <1>2 DEF HandFields
  <1>4. /\ DOMAIN t = HandFields /\ t = [f \in HandFields |-> t[f]]
        /\ t.value = value /\ t.weapon = h.held /\ t.applied = {} /\ t.held = h.held
        /\ t.original = h.original /\ t.altered = h.altered
    BY <1>3 DEF HandFields
  <1> HIDE DEF t
  <1>5. ASSUME NEW w \in Weapons, NEW g \in Hand!Groups
        PROVE  value[w][g] \in {w, "altered"} /\ (<<w, g>> \in h.altered => value[w][g] = "altered")
    BY <1>0, <1>1 DEF HandGood, HandPair
  <1>6. HandGood(r)
    BY <1>0, <1>1, <1>3, <1>5, ValueAssumption DEF HandGood, HandPair
  <1>7. HandGood(t)
    BY SMTT(30), <1>0, <1>1, <1>4, <1>5, ValueAssumption DEF HandGood, HandPair
  <1> QED
    BY <1>3, <1>6, <1>7 DEF t, r

LEMMA HandApply ==
  ASSUME NEW h, HandGood(h), h.weapon # NoWeapon, NEW g \in Hand!Groups
  PROVE  HandGood(Hand!Apply(h, g)) /\ Hand!Apply(h, g).weapon = h.weapon
  <1> DEFINE w == h.weapon
             t == Hand!Apply(h, g)
  <1>0. /\ DOMAIN h = HandFields /\ h = [f \in HandFields |-> h[f]] /\ h.value \in HandTable
        /\ h.applied \subseteq Hand!Groups /\ h.original \in [Hand!Groups -> HandValues \cup {Hand!NoValue}]
        /\ w \in Weapons /\ h.held \in Weapons \cup {NoWeapon}
        /\ \A x \in Weapons, y \in Hand!Groups : HandPair(h, x, y)
    BY DEF HandGood
  <1>1. CASE g \in h.flags
    <2> DEFINE original == IF g \in h.applied THEN h.original[g] ELSE h.value[w][g]
               value == [h.value EXCEPT ![w][g] = "ours"]
               before == [h.original EXCEPT ![g] = original]
    <2>1. t = [h EXCEPT !.original = before, !.value = value, !.applied = @ \cup {g}]
      BY <1>1 DEF Hand!Apply
    <2>2. "ours" \in HandValues
      BY DEF HandValues
    <2>10. value = [h.value EXCEPT ![w][g] = "ours"]
      OBVIOUS
    <2> HIDE DEF value
    <2>3. value \in HandTable /\ value[w][g] = "ours"
          /\ \A x \in Weapons, y \in Hand!Groups : x # w \/ y # g => value[x][y] = h.value[x][y]
      BY <1>0, <2>2, <2>10 DEF HandTable
    <2>4. original \in {w, "altered"} /\ (<<w, g>> \in h.altered => original = "altered")
      <3>1. HandPair(h, w, g)
        BY <1>0
      <3> QED
        BY <3>1 DEF HandPair
    <2>5. original \in HandValues
      BY <1>0, <2>4 DEF HandValues
    <2>6. before \in [Hand!Groups -> HandValues \cup {Hand!NoValue}] /\ before[g] = original
          /\ \A y \in Hand!Groups : y # g => before[y] = h.original[y]
      BY <1>0, <2>5
    <2> HIDE DEF original, value, before, t
    <2>7. /\ DOMAIN t = HandFields /\ t = [f \in HandFields |-> t[f]]
          /\ t.value = value /\ t.weapon = w /\ t.applied = h.applied \cup {g} /\ t.held = h.held
          /\ t.original = before /\ t.altered = h.altered
      BY <1>0, <2>1 DEF HandFields
    <2>8. ASSUME NEW x \in Weapons, NEW y \in Hand!Groups PROVE HandPair(t, x, y)
      <3>1. HandPair(h, x, y)
        BY <1>0
      <3>2. CASE x = w /\ y = g
        BY <2>3, <2>4, <2>6, <2>7, <3>2 DEF HandPair
      <3>3. CASE x # w \/ y # g
        BY <2>3, <2>6, <2>7, <3>1, <3>3 DEF HandPair
      <3> QED
        BY <3>2, <3>3
    <2>9. HandGood(t)
      BY <1>0, <2>3, <2>6, <2>7, <2>8 DEF HandGood
    <2> QED
      BY <2>7, <2>9 DEF t
  <1>2. CASE g \notin h.flags /\ g \in h.applied
    <2> DEFINE value == [h.value EXCEPT ![w][g] = h.original[g]]
    <2>1. t = [h EXCEPT !.value = value, !.applied = @ \ {g}]
      BY <1>2 DEF Hand!Apply
    <2>2. HandPair(h, w, g)
      BY <1>0
    <2>3. h.original[g] \in {w, "altered"} /\ (<<w, g>> \in h.altered => h.original[g] = "altered")
      BY <1>2, <2>2 DEF HandPair
    <2>4. h.original[g] \in HandValues
      BY <1>0, <2>3 DEF HandValues
    <2>9. value = [h.value EXCEPT ![w][g] = h.original[g]]
      OBVIOUS
    <2> HIDE DEF value
    <2>5. value \in HandTable /\ value[w][g] = h.original[g]
          /\ \A x \in Weapons, y \in Hand!Groups : x # w \/ y # g => value[x][y] = h.value[x][y]
      BY <1>0, <2>4, <2>9 DEF HandTable
    <2> HIDE DEF value, t
    <2>6. /\ DOMAIN t = HandFields /\ t = [f \in HandFields |-> t[f]]
          /\ t.value = value /\ t.weapon = w /\ t.applied = h.applied \ {g} /\ t.held = h.held
          /\ t.original = h.original /\ t.altered = h.altered
      BY <1>0, <2>1 DEF HandFields
    <2>7. ASSUME NEW x \in Weapons, NEW y \in Hand!Groups PROVE HandPair(t, x, y)
      <3>1. HandPair(h, x, y)
        BY <1>0
      <3>2. CASE x = w /\ y = g
        BY <1>0, <2>3, <2>5, <2>6, <3>2, ValueAssumption DEF HandPair
      <3>3. CASE x # w \/ y # g
        BY <2>5, <2>6, <3>1, <3>3 DEF HandPair
      <3> QED
        BY <3>2, <3>3
    <2>8. HandGood(t)
      BY <1>0, <2>5, <2>6, <2>7 DEF HandGood
    <2> QED
      BY <2>6, <2>8 DEF t
  <1>3. CASE g \notin h.flags /\ g \notin h.applied
    BY <1>3 DEF Hand!Apply
  <1> QED
    BY <1>1, <1>2, <1>3

LEMMA HandArmed ==
  ASSUME NEW h, HandGood(h)
  PROVE  HandGood(Hand!Armed(h))
  <1> DEFINE changed == IF h.weapon # h.held THEN [Hand!Restored(h) EXCEPT !.weapon = h.held] ELSE h
  <1>1. HandGood(changed)
    BY HandRestored
  <1>2. Hand!Armed(h) = IF changed.weapon = NoWeapon THEN changed
                        ELSE Hand!Apply(Hand!Apply(changed, "critical"), "minimum")
    BY DEF Hand!Armed
  <1> HIDE DEF changed
  <1>3. "critical" \in Hand!Groups /\ "minimum" \in Hand!Groups
    BY DEF Hand!Groups
  <1>4. ASSUME changed.weapon # NoWeapon
        PROVE  HandGood(Hand!Apply(Hand!Apply(changed, "critical"), "minimum"))
    <2>1. HandGood(Hand!Apply(changed, "critical")) /\ Hand!Apply(changed, "critical").weapon # NoWeapon
      BY <1>1, <1>3, <1>4, HandApply
    <2> QED
      BY <1>3, <2>1, HandApply
  <1> QED
    BY <1>1, <1>2, <1>4

LEMMA HandStep == HandInv /\ [Hand!Next]_all => HandInv'
  <1> SUFFICES ASSUME HandGood(state), [Hand!Next]_all PROVE HandGood(state')
    BY DEF HandInv, HandGood, HandPair, HandFields, HandTable, HandValues, Hand!Groups, Hand!NoValue
  <1> DEFINE Fields(t) == DOMAIN t = HandFields /\ t = [f \in HandFields |-> t[f]]
  <1>0. Fields(state) /\ state.held \in Weapons \cup {NoWeapon}
    BY DEF HandGood
  <1> DEFINE Like(t, h) == /\ Fields(t) /\ t.value = h.value /\ t.applied = h.applied /\ t.held = h.held
                           /\ t.original = h.original /\ t.weapon = h.weapon /\ t.altered = h.altered
  <1>9. ASSUME NEW h, HandGood(h) PROVE Fields(h) /\ h.held \in Weapons \cup {NoWeapon}
    BY <1>9 DEF HandGood
  <1>10. ASSUME NEW h, HandGood(h), NEW t, Like(t, h) PROVE HandGood(t)
    BY <1>9, <1>10, HandSame
  <1>11. ASSUME NEW h, HandGood(h), NEW held \in Weapons \cup {NoWeapon}, NEW t, t = [h EXCEPT !.held = held]
         PROVE  HandGood(t)
    <2>1. /\ Fields(t) /\ t.value = h.value /\ t.applied = h.applied /\ t.held = held
          /\ t.original = h.original /\ t.weapon = h.weapon /\ t.altered = h.altered
      BY <1>9, <1>11 DEF HandFields
    <2> QED
      BY <1>11, <2>1, HandSame
  <1>12. ASSUME NEW h, HandGood(h), NEW p, NEW t, t = [h EXCEPT !.previous = p] \/ t = [h EXCEPT !.flags = p]
         PROVE  HandGood(t)
    <2>1. Like(t, h)
      BY <1>9, <1>12 DEF HandFields
    <2> QED
      BY <1>10, <1>12, <2>1
  <1>13. ASSUME NEW h, HandGood(h), NEW l, NEW m, NEW n, NEW t, t = [h EXCEPT !.mended = l, !.told = m, !.lost = n]
         PROVE  HandGood(t)
    <2>1. Like(t, h)
      BY <1>9, <1>13 DEF HandFields
    <2> QED
      BY <1>10, <1>13, <2>1
  <1>2. CASE Hand!Live
    BY <1>2, <1>11 DEF Hand!Live
  <1>3. ASSUME NEW w \in Weapons \cup {NoWeapon}, Hand!Take(w) PROVE HandGood(state')
    BY <1>3, <1>11 DEF Hand!Take
  <1>4. ASSUME NEW w \in Weapons, NEW g \in Hand!Groups, Hand!Alter(w, g) PROVE HandGood(state')
    <2> DEFINE altered == IF state.value[w][g] = "ours" THEN state.altered ELSE state.altered \cup {<<w, g>>}
               value == [state.value EXCEPT ![w][g] = "altered"]
    <2>1. state' = [state EXCEPT !.value = value, !.altered = altered] /\ state.value[w][g] # "altered"
      BY <1>4 DEF Hand!Alter
    <2>7. value = [state.value EXCEPT ![w][g] = "altered"]
      OBVIOUS
    <2> HIDE DEF value
    <2>2. "altered" \in HandValues /\ state.value \in HandTable
      BY DEF HandValues, HandGood
    <2>3. value \in HandTable /\ value[w][g] = "altered"
          /\ \A x \in Weapons, y \in Hand!Groups : x # w \/ y # g => value[x][y] = state.value[x][y]
      BY <2>2, <2>7 DEF HandTable
    <2>4. \A x \in Weapons, y \in Hand!Groups :
            <<x, y>> \in altered => <<x, y>> \in state.altered \/ (x = w /\ y = g /\ state.value[w][g] # "ours")
      OBVIOUS
    <2> HIDE DEF value, altered
    <2>5. /\ Fields(state') /\ state'.value = value /\ state'.weapon = state.weapon
          /\ state'.applied = state.applied /\ state'.held = state.held
          /\ state'.original = state.original /\ state'.altered = altered
      BY <1>0, <2>1 DEF HandFields
    <2>6. ASSUME NEW x \in Weapons, NEW y \in Hand!Groups PROVE HandPair(state', x, y)
      <3>1. HandPair(state, x, y)
        BY DEF HandGood
      <3>2. CASE x = w /\ y = g
        BY <2>1, <2>3, <2>4, <2>5, <3>1, <3>2 DEF HandPair
      <3>3. CASE x # w \/ y # g
        BY <2>3, <2>4, <2>5, <3>1, <3>3 DEF HandPair
      <3> QED
        BY <3>2, <3>3
    <2> QED
      BY <2>3, <2>5, <2>6 DEF HandGood
  <1>5. ASSUME NEW c, Hand!Tear(c) PROVE HandGood(state')
    BY <1>5, <1>13 DEF Hand!Tear
  <1>6. ASSUME NEW f, Hand!Switch(f) PROVE HandGood(state')
    <2>1. \E q : state' = [state EXCEPT !.flags = q]
      BY <1>6 DEF Hand!Switch
    <2> QED
      BY <1>12, <2>1
  <1>7. CASE Hand!Run
    <2> DEFINE begun == IF Hand!Moved THEN [Hand!Restored(state) EXCEPT !.previous = player] ELSE state
               armed == IF player = NoPlayer THEN begun ELSE Hand!Armed(begun)
    <2>1. HandGood(begun)
      <3>1. HandGood(Hand!Restored(state))
        BY HandRestored
      <3>2. HandGood([Hand!Restored(state) EXCEPT !.previous = player])
        BY <1>12, <3>1
      <3> QED
        BY <3>2
    <2> HIDE DEF begun
    <2>2. HandGood(armed)
      BY <2>1, HandArmed
    <2>3. \E u, s : state' = Hand!Mend(armed, u, s)
      BY <1>7 DEF Hand!Run, begun
    <2> HIDE DEF armed
    <2>4. \E l, m, n : state' = [armed EXCEPT !.mended = l, !.told = m, !.lost = n]
      BY <2>3 DEF Hand!Mend
    <2> QED
      BY <1>13, <2>2, <2>4
  <1>8. CASE UNCHANGED all
    BY <1>8 DEF all
  <1> QED
    BY <1>2, <1>3, <1>4, <1>5, <1>6, <1>7, <1>8 DEF Hand!Next

LEMMA HandKept == HandInv => Hand!WeaponsAreGivenBack /\ Hand!AlterationsStay
  <1> SUFFICES ASSUME HandGood(state) PROVE Hand!WeaponsAreGivenBack /\ Hand!AlterationsStay
    BY DEF HandInv
  <1>1. \A w \in Weapons, g \in Hand!Groups : HandPair(state, w, g)
    BY DEF HandGood
  <1>2. \A g \in state.applied : state.weapon \in Weapons /\ g \in Hand!Groups
    BY DEF HandGood
  <1> QED
    BY <1>1, <1>2 DEF HandPair, Hand!WeaponsAreGivenBack, Hand!AlterationsStay

-----------------------------------------------------------------------------
(* ZombieTools: a zombie that is not as the game has it is remembered with what it had. *)

Zombie == INSTANCE ZombieTools WITH zombie <- state, MaxRequests <- FewRequests, MaxFaults <- FewFaults, Zombies <- Things

ZombieFields ==
  {"flags", "link", "retained", "previousLink", "previous", "seenOff", "invisibleOriginal",
   "present", "local", "struck", "known", "pending", "strayed", "missed", "own", "useless",
   "original", "told", "passive", "passiveOwn", "passiveApplied", "passiveOriginal", "invisible"}

ZombieValues == [Things -> BOOLEAN]

\* What is remembered of a zombie is its own, one whose value is ours is remembered, and
\* those of other clients have their own.
ZombieGood(z, online) ==
  /\ DOMAIN z = ZombieFields /\ z = [f \in ZombieFields |-> z[f]]
  /\ z.useless \in ZombieValues /\ z.original \in ZombieValues /\ z.own \in ZombieValues
  /\ z.present \subseteq Things
  /\ \A x \in z.present \ z.strayed :
       /\ x \in z.known => z.original[x] = z.own[x]
       /\ z.useless[x] # z.own[x] => x \in z.known
       /\ online /\ x \notin z.local => z.useless[x] = z.own[x]

ZombieFresh(z) == z.known = {} /\ z.useless = z.own

\* The zombies are those of the first world, which are their own until it is entered.
ZombieInv ==
  /\ ZombieGood(state, session = "multiplayer")
  /\ player \in met \cup {NoPlayer}
  /\ player = NoPlayer => state.present = {}
  /\ met = {} => ZombieFresh(state)

\* A state that a tool makes of this one.
ZombieFit(z) ==
  /\ ZombieGood(z, Zombie!Online) /\ z.local = state.local /\ z.present = state.present
  /\ ZombieFresh(state) => z.own = state.own

ZombieLike(t, z) ==
  /\ DOMAIN t = ZombieFields /\ t = [f \in ZombieFields |-> t[f]]
  /\ t.useless = z.useless /\ t.original = z.original /\ t.own = z.own /\ t.known = z.known
  /\ t.present = z.present /\ t.strayed = z.strayed /\ t.local = z.local

LEMMA ZombieInit == Zombie!Init => ZombieInv
  <1> SUFFICES ASSUME Zombie!Init PROVE ZombieInv
    OBVIOUS
  <1>1. PICK own \in [Things -> BOOLEAN], passive \in BOOLEAN :
       state = [flags |-> {}, link |-> 0, retained |-> 0, previousLink |-> 0,
                 previous |-> NoPlayer, seenOff |-> NoPlayer, invisibleOriginal |-> FALSE,
                 present |-> {}, local |-> {}, struck |-> {}, known |-> {}, pending |-> {},
                 strayed |-> {}, missed |-> {}, own |-> own, useless |-> own,
                 original |-> [z \in Things |-> FALSE],
                 told |-> [z \in Things |-> [useless |-> own[z], struck |-> FALSE]],
                 passive |-> passive, passiveOwn |-> passive, passiveApplied |-> FALSE,
                 passiveOriginal |-> FALSE, invisible |-> {}]
    BY DEF Zombie!Init
  <1>2. DOMAIN state = ZombieFields /\ state = [f \in ZombieFields |-> state[f]]
    BY <1>1 DEF ZombieFields
  <1>3. /\ state.useless = own /\ state.own = own /\ state.original = [z \in Things |-> FALSE]
        /\ state.present = {} /\ state.known = {}
    BY <1>1
  <1>4. [z \in Things |-> FALSE] \in ZombieValues
    BY DEF ZombieValues
  <1>5. player = NoPlayer
    BY DEF Zombie!Init, Zombie!GameInit
  <1> QED
    BY <1>2, <1>3, <1>4, <1>5 DEF ZombieInv, ZombieGood, ZombieFresh, ZombieValues

LEMMA ZombieSame ==
  ASSUME NEW z, NEW t, ZombieLike(t, z)
  PROVE  ZombieFit(z) => ZombieFit(t)
  BY DEF ZombieLike, ZombieFit, ZombieGood

\* Passive and Invisible do not touch the zombies.
LEMMA ZombiePassive ==
  ASSUME NEW z, ZombieFit(z)
  PROVE  ZombieFit(Zombie!Passive(z)) /\ ZombieFit(Zombie!Seen(z)) /\ ZombieFit(Zombie!Invisible(z))
         /\ ZombieLike(Zombie!Seen(z), z)
         /\ \A l : ZombieFit([z EXCEPT !.retained = l])
  <1>0. ZombieLike(z, z)
    BY DEF ZombieFit, ZombieGood, ZombieLike
  <1>1. ZombieLike(Zombie!Passive(z), z)
    <2>1. \/ Zombie!Passive(z) = z
          \/ \E o, p, a : Zombie!Passive(z) = [z EXCEPT !.passiveOriginal = o, !.passiveApplied = a, !.passive = p]
          \/ \E p, a : Zombie!Passive(z) = [z EXCEPT !.passive = p, !.passiveApplied = a]
      BY DEF Zombie!Passive
    <2> QED
      BY <1>0, <2>1 DEF ZombieLike, ZombieFields
  <1>2. ZombieLike(Zombie!Seen(z), z)
    <2>1. \/ Zombie!Seen(z) = z
          \/ \E i : Zombie!Seen(z) = [z EXCEPT !.invisible = i, !.seenOff = NoPlayer]
      BY DEF Zombie!Seen
    <2> QED
      BY <1>0, <2>1 DEF ZombieLike, ZombieFields
  <1>3. ZombieLike(Zombie!Invisible(z), z)
    <2>1. \E s \in {z, Zombie!Seen(z)} :
            \/ Zombie!Invisible(z) = s
            \/ \E o, i : Zombie!Invisible(z) = [s EXCEPT !.invisibleOriginal = o, !.seenOff = player, !.invisible = i]
      BY DEF Zombie!Invisible
    <2>2. PICK s \in {z, Zombie!Seen(z)} :
            \/ Zombie!Invisible(z) = s
            \/ \E o, i : Zombie!Invisible(z) = [s EXCEPT !.invisibleOriginal = o, !.seenOff = player, !.invisible = i]
      BY <2>1
    <2>3. ZombieLike(s, z)
      BY <1>0, <1>2, <2>2
    <2> QED
      BY <2>2, <2>3 DEF ZombieLike, ZombieFields
  <1>4. ASSUME NEW l PROVE ZombieLike([z EXCEPT !.retained = l], z)
    BY <1>0 DEF ZombieLike, ZombieFields
  <1> QED
    BY <1>1, <1>2, <1>3, <1>4, ZombieSame

\* Zombies of this client get back what is remembered of them.
LEMMA ZombieGivenBack ==
  ASSUME NEW z, ZombieFit(z), NEW set, NEW gone,
         set = {x \in gone : Zombie!Owned(x)}, gone \subseteq z.known
  PROVE  LET t == [Zombie!GivenBack(z, set) EXCEPT !.known = @ \ gone] IN
         /\ ZombieFit(t)
         /\ ZombieFresh(z) => ZombieFresh(t)
  <1> DEFINE useless == [x \in Things |-> IF x \in set THEN z.original[x] ELSE z.useless[x]]
             b == Zombie!GivenBack(z, set)
             t == [b EXCEPT !.known = @ \ gone]
  <1>0. /\ DOMAIN z = ZombieFields /\ z = [f \in ZombieFields |-> z[f]] /\ z.present \subseteq Things
        /\ z.useless \in ZombieValues /\ z.original \in ZombieValues /\ z.own \in ZombieValues
    BY DEF ZombieFit, ZombieGood
  <1>1. /\ useless \in ZombieValues
        /\ \A x \in Things : useless[x] = IF x \in set THEN z.original[x] ELSE z.useless[x]
    BY <1>0 DEF ZombieValues
  <1>2. set = {} => useless = z.useless
    BY <1>0 DEF ZombieValues
  <1>3. b = [z EXCEPT !.useless = useless, !.pending = @ \cup set]
    BY <1>0 DEF Zombie!GivenBack, ZombieFields
  <1> HIDE DEF useless, b
  <1>4. /\ DOMAIN t = ZombieFields /\ t = [f \in ZombieFields |-> t[f]]
        /\ t.useless = useless /\ t.original = z.original /\ t.own = z.own /\ t.known = z.known \ gone
        /\ t.present = z.present /\ t.strayed = z.strayed /\ t.local = z.local
    BY <1>0, <1>3 DEF ZombieFields
  <1> HIDE DEF t
  <1>5. ZombieGood(t, Zombie!Online)
    <2> SUFFICES ASSUME NEW x \in t.present \ t.strayed
                 PROVE  /\ x \in t.known => t.original[x] = t.own[x]
                        /\ t.useless[x] # t.own[x] => x \in t.known
                        /\ Zombie!Online /\ x \notin t.local => t.useless[x] = t.own[x]
      BY <1>0, <1>1, <1>4 DEF ZombieGood
    <2>1. x \in Things /\ x \in z.present \ z.strayed
      BY <1>0, <1>4
    <2>2. x \notin z.local /\ Zombie!Online => ~Zombie!Owned(x)
      BY DEF Zombie!Owned, ZombieFit
    <2>3. x \in gone /\ ~Zombie!Owned(x) => z.useless[x] = z.own[x]
      BY <2>1 DEF Zombie!Owned, ZombieFit, ZombieGood
    <2> QED
      BY <1>1, <1>4, <2>1, <2>2, <2>3 DEF ZombieFit, ZombieGood
  <1>6. ZombieFit(t)
    BY <1>4, <1>5 DEF ZombieFit
  <1>7. ZombieFresh(z) => ZombieFresh(t)
    BY <1>2, <1>4 DEF ZombieFresh
  <1> QED
    BY <1>6, <1>7 DEF t, b

LEMMA ZombieForgotten ==
  ASSUME NEW z, ZombieFit(z)
  PROVE  /\ ZombieFit(Zombie!Forgotten(z)) /\ ZombieFit(Zombie!Released(z))
         /\ ZombieFresh(z) => ZombieFresh(Zombie!Forgotten(z))
  <1>1. \A set, gone : set = {x \in gone : Zombie!Owned(x)} /\ gone \subseteq z.known =>
          LET t == [Zombie!GivenBack(z, set) EXCEPT !.known = @ \ gone] IN
          ZombieFit(t) /\ (ZombieFresh(z) => ZombieFresh(t))
    BY ZombieGivenBack
  <1>2. ZombieFit(Zombie!Released(z))
    <2> DEFINE gone == {x \in z.known : "useless" \notin z.flags \/ x \notin z.present \/ ~Zombie!Owned(x)}
               set == {x \in gone : Zombie!Owned(x)}
    <2>1. gone \subseteq z.known
      OBVIOUS
    <2>2. Zombie!Released(z) = [Zombie!GivenBack(z, set) EXCEPT !.known = @ \ gone]
      BY DEF Zombie!Released
    <2> HIDE DEF gone
    <2> QED
      BY ZenonT(60), <1>1, <2>1, <2>2
  <1>3. ZombieFit(Zombie!Forgotten(z)) /\ (ZombieFresh(z) => ZombieFresh(Zombie!Forgotten(z)))
    <2> DEFINE set == {x \in z.known : Zombie!Owned(x)}
               b == Zombie!GivenBack(z, set)
    <2>1. "known" \in DOMAIN b /\ b.known = z.known
      BY DEF Zombie!GivenBack, ZombieFit, ZombieGood, ZombieFields
    <2>2. [b EXCEPT !.known = {}] = [b EXCEPT !.known = @ \ z.known]
      BY <2>1
    <2>3. Zombie!Forgotten(z) = [b EXCEPT !.known = @ \ z.known]
      BY <2>2 DEF Zombie!Forgotten
    <2>4. ZombieFit([b EXCEPT !.known = @ \ z.known])
          /\ (ZombieFresh(z) => ZombieFresh([b EXCEPT !.known = @ \ z.known]))
      BY <1>1
    <2> QED
      BY <2>3, <2>4
  <1> QED
    BY <1>2, <1>3

LEMMA ZombieHeld ==
  ASSUME NEW z, ZombieFit(z)
  PROVE  ZombieFit(Zombie!Held(z))
  <1> DEFINE mine == {x \in z.present \ z.struck : Zombie!Owned(x) /\ "useless" \in z.flags}
             original == [x \in Things |-> IF x \in mine \ z.known THEN z.useless[x] ELSE z.original[x]]
             useless == [x \in Things |-> x \in mine \/ z.useless[x]]
             t == Zombie!Held(z)
  <1>0. /\ DOMAIN z = ZombieFields /\ z = [f \in ZombieFields |-> z[f]] /\ z.present \subseteq Things
        /\ z.useless \in ZombieValues /\ z.original \in ZombieValues /\ z.own \in ZombieValues
    BY DEF ZombieFit, ZombieGood
  <1>1. /\ original \in ZombieValues
        /\ \A x \in Things : original[x] = IF x \in mine \ z.known THEN z.useless[x] ELSE z.original[x]
    BY <1>0 DEF ZombieValues
  <1>2. /\ useless \in ZombieValues
        /\ \A x \in Things : x \notin mine => useless[x] = z.useless[x]
    <2>1. useless \in ZombieValues
      BY <1>0 DEF ZombieValues
    <2>2. ASSUME NEW x \in Things, x \notin mine PROVE useless[x] = z.useless[x]
      <3>1. z.useless[x] \in BOOLEAN
        BY <1>0 DEF ZombieValues
      <3>2. useless[x] = (x \in mine \/ z.useless[x])
        OBVIOUS
      <3>3. (FALSE \/ z.useless[x]) = z.useless[x]
        BY <3>1
      <3>4. (x \in mine) = FALSE
        BY <2>2
      <3> HIDE DEF useless, mine
      <3> QED
        BY <3>1, <3>2, <3>3, <3>4
    <2> QED
      BY <2>1, <2>2
  <1>3. mine \subseteq z.present /\ \A x \in mine : Zombie!Owned(x)
    BY SMTT(30)
  <1>4. \E p : t = [z EXCEPT !.known = z.known \cup mine, !.original = original, !.useless = useless, !.pending = p]
    BY DEF Zombie!Held
  <1> HIDE DEF mine, original, useless, t
  <1>5. /\ DOMAIN t = ZombieFields /\ t = [f \in ZombieFields |-> t[f]]
        /\ t.useless = useless /\ t.original = original /\ t.own = z.own /\ t.known = z.known \cup mine
        /\ t.present = z.present /\ t.strayed = z.strayed /\ t.local = z.local
    BY <1>0, <1>4 DEF ZombieFields
  <1>6. ZombieGood(t, Zombie!Online)
    <2> SUFFICES ASSUME NEW x \in t.present \ t.strayed
                 PROVE  /\ x \in t.known => t.original[x] = t.own[x]
                        /\ t.useless[x] # t.own[x] => x \in t.known
                        /\ Zombie!Online /\ x \notin t.local => t.useless[x] = t.own[x]
      BY <1>0, <1>1, <1>2, <1>5 DEF ZombieGood
    <2>1. x \in Things /\ x \in z.present \ z.strayed
      BY <1>0, <1>5
    <2>2. x \notin z.local /\ Zombie!Online => x \notin mine
      BY <1>3 DEF Zombie!Owned, ZombieFit
    <2> QED
      BY <1>1, <1>2, <1>5, <2>1, <2>2 DEF ZombieFit, ZombieGood
  <1> QED
    BY <1>5, <1>6 DEF ZombieFit, t

\* What is struck and published is not what is remembered.
LEMMA ZombieStruck ==
  ASSUME NEW z, ZombieFit(z)
  PROVE  /\ \A near : ZombieFit(Zombie!Struck(z, near))
         /\ \A t \in Zombie!Publish(z) : ZombieLike(t, z)
         /\ \A t \in Zombie!Publish(z) : ZombieFit(t)
  <1>0. ZombieLike(z, z)
    BY DEF ZombieFit, ZombieGood, ZombieLike
  <1>1. ASSUME NEW near PROVE ZombieLike(Zombie!Struck(z, near), z)
    <2>1. \E s, p : Zombie!Struck(z, near) = [z EXCEPT !.struck = s, !.pending = p]
      BY DEF Zombie!Struck
    <2> QED
      BY <1>0, <2>1 DEF ZombieLike, ZombieFields
  <1>2. ASSUME NEW t \in Zombie!Publish(z) PROVE ZombieLike(t, z)
    <2>1. CASE t \in {z, [z EXCEPT !.pending = {}]}
      BY <1>0, <2>1 DEF ZombieLike, ZombieFields
    <2>2. CASE \E sent : t = Zombie!Published(z, sent)
      <3>1. \E p, w : t = [z EXCEPT !.pending = p, !.told = w]
        BY <2>2 DEF Zombie!Published
      <3> QED
        BY <1>0, <3>1 DEF ZombieLike, ZombieFields
    <2> QED
      BY <1>2, <2>1, <2>2 DEF Zombie!Publish
  <1> QED
    BY <1>1, <1>2, ZombieSame

LEMMA ZombieRestored ==
  ASSUME NEW z, ZombieFit(z)
  PROVE  \A t \in Zombie!Restored(z) : ZombieFit(t) /\ (ZombieFresh(z) => ZombieFresh(t))
  <1> DEFINE back(x) == [Zombie!Seen(x) EXCEPT !.passive = IF x.passiveApplied THEN x.passiveOriginal ELSE @,
                                 !.passiveApplied = FALSE]
             f == Zombie!Forgotten(z)
  <1>1. ZombieFit(f) /\ (ZombieFresh(z) => ZombieFresh(f))
    BY ZombieForgotten
  <1>2. ASSUME NEW x, ZombieFit(x) PROVE ZombieLike(back(x), x)
    <2>1. ZombieLike(Zombie!Seen(x), x)
      BY <1>2, ZombiePassive
    <2>2. \E p : back(x) = [Zombie!Seen(x) EXCEPT !.passive = p, !.passiveApplied = FALSE]
      OBVIOUS
    <2> QED
      BY <2>1, <2>2 DEF ZombieLike, ZombieFields
  <1>3. ASSUME NEW x, ZombieFit(x), ZombieLike(x, f)
        PROVE  ZombieFit(back(x)) /\ (ZombieFresh(f) => ZombieFresh(back(x)))
    <2>1. ZombieLike(back(x), x)
      BY <1>2, <1>3
    <2> HIDE DEF back
    <2>2. ZombieFit(back(x))
      BY <1>3, <2>1, ZombieSame
    <2> QED
      BY <1>3, <2>1, <2>2 DEF ZombieLike, ZombieFresh
  <1> DEFINE g == [f EXCEPT !.missed = @ \cup f.pending, !.pending = {}]
  <1>4. \A t \in Zombie!Restored(z) : t = back(g) \/ \E x \in Zombie!Publish(f) : t = back(x)
    BY DEF Zombie!Restored
  <1> HIDE DEF back, f
  <1>5. ZombieLike(g, f)
    BY <1>1 DEF ZombieFit, ZombieGood, ZombieLike, ZombieFields
  <1> HIDE DEF g
  <1>6. ZombieFit(g)
    BY <1>1, <1>5, ZombieSame
  <1>7. \A x \in Zombie!Publish(f) : ZombieFit(x) /\ ZombieLike(x, f)
    BY <1>1, ZombieStruck
  <1> QED
    BY <1>1, <1>3, <1>4, <1>5, <1>6, <1>7

LEMMA ZombieRun ==
  ASSUME ZombieInv, Zombie!Run
  PROVE  ZombieFit(state') /\ (met = {} => ZombieFresh(state'))
  <1>0. ZombieFit(state) /\ (met = {} => ZombieFresh(state))
    BY DEF ZombieInv, ZombieFit, Zombie!Online
  <1>1. \A z \in Zombie!Begun : ZombieFit(z) /\ (ZombieFresh(state) => ZombieFresh(z))
    <2>1. ASSUME NEW z, ZombieFit(z), NEW p, NEW l
          PROVE  /\ ZombieFit([z EXCEPT !.previous = p, !.previousLink = l])
                 /\ ZombieFresh(z) => ZombieFresh([z EXCEPT !.previous = p, !.previousLink = l])
      <3> DEFINE t == [z EXCEPT !.previous = p, !.previousLink = l]
      <3>1. ZombieLike(t, z)
        BY <2>1 DEF ZombieFit, ZombieGood, ZombieLike, ZombieFields
      <3> HIDE DEF t
      <3>2. ZombieFit(t) /\ (ZombieFresh(z) => ZombieFresh(t))
        BY <2>1, <3>1, ZombieSame DEF ZombieLike, ZombieFresh
      <3> QED
        BY <3>2 DEF t
    <2>2. \A z \in Zombie!Restored(state) : ZombieFit(z) /\ (ZombieFresh(state) => ZombieFresh(z))
      BY <1>0, ZombieRestored
    <2>3. ASSUME NEW z \in Zombie!Begun
          PROVE  \/ z = state
                 \/ \E x \in Zombie!Restored(state) : \E p, l : z = [x EXCEPT !.previous = p, !.previousLink = l]
      BY <2>3 DEF Zombie!Begun
    <2> SUFFICES ASSUME NEW z \in Zombie!Begun
                 PROVE  ZombieFit(z) /\ (ZombieFresh(state) => ZombieFresh(z))
      OBVIOUS
    <2>4. CASE z = state
      BY <1>0, <2>4
    <2>5. CASE \E x \in Zombie!Restored(state) : \E p, l : z = [x EXCEPT !.previous = p, !.previousLink = l]
      <3>0. PICK x \in Zombie!Restored(state) : \E p, l : z = [x EXCEPT !.previous = p, !.previousLink = l]
        BY <2>5
      <3>1. PICK p, l : z = [x EXCEPT !.previous = p, !.previousLink = l]
        BY <3>0
      <3>2. ZombieFit(x) /\ (ZombieFresh(state) => ZombieFresh(x))
        BY <2>2
      <3>3. /\ ZombieFit([x EXCEPT !.previous = p, !.previousLink = l])
            /\ ZombieFresh(x) => ZombieFresh([x EXCEPT !.previous = p, !.previousLink = l])
        BY <2>1, <3>2
      <3> QED
        BY <3>1, <3>2, <3>3
    <2> QED
      BY <2>3, <2>4, <2>5
  <1>2. ASSUME NEW z, ZombieFit(z), NEW near PROVE ZombieFit(Zombie!Worked(z, near))
    <2> DEFINE a == [z EXCEPT !.retained = z.link]
               b == Zombie!Passive(a)
               c == Zombie!Invisible(b)
               d == Zombie!Released(c)
               e == Zombie!Held(d)
    <2>1. ZombieFit(a)
      BY <1>2, ZombiePassive
    <2> HIDE DEF a
    <2>2. ZombieFit(b)
      BY <2>1, ZombiePassive
    <2> HIDE DEF b
    <2>3. ZombieFit(c)
      BY <2>2, ZombiePassive
    <2> HIDE DEF c
    <2>4. ZombieFit(d)
      BY <2>3, ZombieForgotten
    <2> HIDE DEF d
    <2>5. ZombieFit(e)
      BY <2>4, ZombieHeld
    <2> HIDE DEF e
    <2>6. ZombieFit(Zombie!Struck(e, near))
      BY <2>5, ZombieStruck
    <2> QED
      BY <2>6 DEF Zombie!Worked, a, b, c, d, e
  <1>3. Zombie!Ready => met # {}
    BY PlayerAssumption DEF Zombie!Ready, ZombieInv
  <1>4. \/ state' \in Zombie!Begun
        \/ Zombie!Ready /\ \E z \in Zombie!Begun : \E near : state' \in Zombie!Publish(Zombie!Worked(z, near))
        \/ state' = Zombie!Forgotten(state)
        \/ Zombie!Ready /\ \E z \in Zombie!Begun : \E near : state' = Zombie!Worked(z, near)
    BY DEF Zombie!Run
  <1>5. CASE state' \in Zombie!Begun
    BY <1>0, <1>1, <1>5
  <1>6. CASE Zombie!Ready /\ \E z \in Zombie!Begun : \E near : state' \in Zombie!Publish(Zombie!Worked(z, near))
    <2>0. PICK z \in Zombie!Begun : \E near : state' \in Zombie!Publish(Zombie!Worked(z, near))
      BY <1>6
    <2>1. PICK near : state' \in Zombie!Publish(Zombie!Worked(z, near))
      BY <2>0
    <2>2. ZombieFit(Zombie!Worked(z, near))
      BY <1>1, <1>2
    <2> QED
      BY <1>3, <1>6, <2>1, <2>2, ZombieStruck
  <1>7. CASE state' = Zombie!Forgotten(state)
    BY <1>0, <1>7, ZombieForgotten
  <1>8. CASE Zombie!Ready /\ \E z \in Zombie!Begun : \E near : state' = Zombie!Worked(z, near)
    BY <1>1, <1>2, <1>3, <1>8
  <1> QED
    BY <1>4, <1>5, <1>6, <1>7, <1>8

LEMMA ZombieStep == ZombieInv /\ [Zombie!Next]_all => ZombieInv'
  <1> SUFFICES ASSUME ZombieInv, [Zombie!Next]_all
               PROVE  /\ ZombieGood(state', session' = "multiplayer")
                      /\ player' \in met' \cup {NoPlayer}
                      /\ player' = NoPlayer => state'.present = {}
                      /\ met' = {} => ZombieFresh(state')
    BY DEF ZombieInv, ZombieGood, ZombieFresh, ZombieFields, ZombieValues
  <1> DEFINE online == session = "multiplayer"
             Fields(t) == DOMAIN t = ZombieFields /\ t = [f \in ZombieFields |-> t[f]]
             Values(t) == t.useless = state.useless /\ t.original = state.original /\ t.own = state.own
                          /\ t.known = state.known
             Known == ZombieGood(state', online) /\ (met = {} => ZombieFresh(state')) /\ state'.present \subseteq state.present
  <1>0. /\ ZombieGood(state, online) /\ Fields(state) /\ player \in met \cup {NoPlayer}
        /\ player = NoPlayer => state.present = {}
        /\ met = {} => ZombieFresh(state)
    BY DEF ZombieInv, ZombieGood
  <1>1. CASE Zombie!Live
    <2>1. Zombie!Play
      BY <1>1 DEF Zombie!Live
    <2>2. CASE player' = NoPlayer
      <3>1. state' = [state EXCEPT !.link = 0, !.present = {}, !.local = {}]
        BY <1>1, <2>2 DEF Zombie!Live
      <3>2. Fields(state') /\ Values(state') /\ state'.present = {}
        BY <1>0, <3>1 DEF ZombieFields
      <3>3. ZombieGood(state', session' = "multiplayer")
        BY <1>0, <3>2 DEF ZombieGood
      <3>4. met \subseteq met'
        BY <2>1 DEF Zombie!Play, Zombie!LeaveWorld, Zombie!Respawn, Zombie!EnterWorld
      <3> QED
        BY <1>0, <2>2, <3>2, <3>3, <3>4 DEF ZombieFresh
    <2>3. CASE player' # NoPlayer
      <3>1. player' \in met' /\ met' # {}
        BY <2>1, <2>3 DEF Zombie!Play, Zombie!LeaveWorld, Zombie!Respawn, Zombie!EnterWorld
      <3>2. CASE met = {}
        <4>1. \E l : state' = [state EXCEPT !.link = l, !.present = Things, !.local = Things]
          BY <1>1, <2>3, <3>2 DEF Zombie!Live
        <4>2. Fields(state') /\ Values(state') /\ state'.present = Things
          BY <1>0, <4>1 DEF ZombieFields
        <4>3. ZombieGood(state', session' = "multiplayer")
          BY <1>0, <3>2, <4>2 DEF ZombieGood, ZombieFresh
        <4> QED
          BY <2>3, <3>1, <4>3
      <3>3. CASE met # {}
        <4>1. \E l : state' = [state EXCEPT !.link = l]
          BY <1>1, <2>3, <3>3 DEF Zombie!Live
        <4>2. Fields(state') /\ Values(state') /\ state'.present = state.present /\ state'.local = state.local
              /\ state'.strayed = state.strayed
          BY <1>0, <4>1 DEF ZombieFields
        <4>3. session' = session \/ state.present = {}
          BY <1>0, <2>1 DEF Zombie!Play, Zombie!LeaveWorld, Zombie!Respawn, Zombie!EnterWorld
        <4>4. ZombieGood(state', session' = "multiplayer")
          BY <1>0, <4>2, <4>3 DEF ZombieGood
        <4> QED
          BY <2>3, <3>1, <4>4
      <3> QED
        BY <3>2, <3>3
    <2> QED
      BY <2>2, <2>3
  <1>2. CASE Zombie!Disconnect
    <2>1. state' = [state EXCEPT !.link = 0]
      BY <1>2 DEF Zombie!Disconnect
    <2>2. ZombieLike(state', state)
      BY <1>0, <2>1 DEF ZombieLike, ZombieFields
    <2>3. UNCHANGED <<player, session, met>>
      BY <1>2 DEF Zombie!Disconnect, Zombie!game
    <2> QED
      BY <1>0, <2>2, <2>3 DEF ZombieLike, ZombieGood, ZombieFresh
  <1>3. ASSUME NEW z \in Things, Zombie!PassOn(z) PROVE Known
    <2> DEFINE strayed == IF state.useless[z] # state.own[z] THEN state.strayed \cup {z} ELSE state.strayed
    <2>1. state' = [state EXCEPT !.local = @ \ {z}, !.strayed = strayed]
      BY <1>3 DEF Zombie!PassOn
    <2>2. state.strayed \subseteq strayed /\ (z \notin strayed => state.useless[z] = state.own[z])
      OBVIOUS
    <2> HIDE DEF strayed
    <2>3. Fields(state') /\ Values(state') /\ state'.present = state.present /\ state'.local = state.local \ {z}
          /\ state'.strayed = strayed
      BY <1>0, <2>1 DEF ZombieFields
    <2>4. ZombieGood(state', online)
      BY <1>0, <2>2, <2>3 DEF ZombieGood
    <2> QED
      BY <1>0, <2>3, <2>4 DEF ZombieFresh
  <1>4. ASSUME NEW z \in Things, Zombie!TakeOver(z) \/ Zombie!Unload(z) PROVE Known
    <2>1. /\ Fields(state') /\ Values(state') /\ state'.strayed = state.strayed
          /\ state'.present \subseteq state.present /\ state.local \subseteq state'.local
      <3>1. CASE Zombie!TakeOver(z)
        <4>1. \E w : state' = [state EXCEPT !.local = @ \cup {z}, !.told = w]
          BY <3>1 DEF Zombie!TakeOver
        <4> QED
          BY <1>0, <4>1 DEF ZombieFields
      <3>2. CASE Zombie!Unload(z)
        <4>1. state' = [state EXCEPT !.present = @ \ {z}]
          BY <3>2 DEF Zombie!Unload
        <4> QED
          BY <1>0, <4>1 DEF ZombieFields
      <3> QED
        BY <1>4, <3>1, <3>2
    <2>2. ZombieGood(state', online)
      BY <1>0, <2>1 DEF ZombieGood
    <2> QED
      BY <1>0, <2>1, <2>2 DEF ZombieFresh
  <1>5. ASSUME NEW f, Zombie!Switch(f) PROVE Known
    <2>1. \E l : state' = [state EXCEPT !.flags = l]
      BY <1>5 DEF Zombie!Switch
    <2>2. ZombieLike(state', state)
      BY <1>0, <2>1 DEF ZombieLike, ZombieFields
    <2> QED
      BY <1>0, <2>2 DEF ZombieLike, ZombieGood, ZombieFresh
  <1>6. CASE Zombie!Run
    <2>1. ZombieFit(state') /\ (met = {} => ZombieFresh(state'))
      BY <1>6, ZombieRun
    <2>2. UNCHANGED <<player, session, met>>
      BY <1>6 DEF Zombie!Run, Zombie!game
    <2> QED
      BY <1>0, <2>1, <2>2 DEF ZombieFit, Zombie!Online
  <1>7. (\E z \in Things : Zombie!PassOn(z) \/ Zombie!TakeOver(z) \/ Zombie!Unload(z)) \/ (\E f : Zombie!Switch(f))
          => UNCHANGED <<player, session, met>>
    BY DEF Zombie!PassOn, Zombie!TakeOver, Zombie!Unload, Zombie!Switch, Zombie!game
  <1>8. Known /\ UNCHANGED <<player, session, met>> => ZombieGood(state', session' = "multiplayer")
          /\ (player' = NoPlayer => state'.present = {})
    BY <1>0
  <1>9. CASE UNCHANGED all
    BY <1>0, <1>9 DEF all, game
  <1>10. CASE \/ \E z \in Things : Zombie!PassOn(z) \/ Zombie!TakeOver(z) \/ Zombie!Unload(z)
              \/ \E f : Zombie!Switch(f)
    <2>1. Known /\ UNCHANGED <<player, session, met>>
      BY <1>3, <1>4, <1>5, <1>7, <1>10
    <2> QED
      BY <1>0, <1>8, <2>1
  <1> QED
    BY <1>1, <1>2, <1>6, <1>9, <1>10 DEF Zombie!Next

LEMMA ZombieKept == ZombieInv => Zombie!HeldZombiesAreRemembered
  BY DEF ZombieInv, ZombieGood, Zombie!HeldZombiesAreRemembered

-----------------------------------------------------------------------------
(* VehicleGhost: the body that is not as the vehicle wants it is the one that is retained. *)

LEMMA GhostOwnBody == \A g \in GhostStates, v \in Places : GhostOwn(g, v) \in Ghost!Bodies
  BY DEF GhostStates, GhostOwn, Ghost!Bodies

LEMMA GhostInit == Ghost!Init => GhostInv
  <1> SUFFICES ASSUME Ghost!Init PROVE GhostGood(state)
    BY DEF GhostInv
  <1>1. PICK own \in [Places -> BOOLEAN] :
          state = [static |-> "absent", step |-> "absent", natives |-> FALSE, bridge |-> FALSE,
                flag |-> FALSE, requested |-> FALSE, heard |-> FALSE,
                driven |-> NoWeapon, here |-> Places, own |-> own,
                body |-> [v \in Places |-> [static |-> own[v], flags |-> "own"]],
                retained |-> NoWeapon, original |-> [static |-> FALSE, flags |-> "own"],
                publish |-> FALSE, half |-> {}]
    BY DEF Ghost!Init
  <1> DEFINE body == [v \in Places |-> [static |-> own[v], flags |-> "own"]]
             original == [static |-> FALSE, flags |-> "own"]
  <1>2. body \in [Places -> Ghost!Bodies] /\ original \in Ghost!Bodies
    BY DEF Ghost!Bodies
  <1>3. state = [static |-> "absent", step |-> "absent", natives |-> FALSE, bridge |-> FALSE,
                flag |-> FALSE, requested |-> FALSE, heard |-> FALSE,
                driven |-> NoWeapon, here |-> Places, own |-> own, body |-> body,
                retained |-> NoWeapon, original |-> original, publish |-> FALSE, half |-> {}]
    BY <1>1
  <1> HIDE DEF body, original
  <1>4. state \in GhostStates /\ state.body = body /\ state.own = own /\ state.retained = NoWeapon
    BY <1>2, <1>3 DEF GhostStates, Ghost!Hooks
  <1>5. \A v \in Places : body[v] = [static |-> own[v], flags |-> "own"]
    BY DEF body
  <1> QED
    BY <1>4, <1>5, PlaceAssumption DEF GhostGood, GhostOwn, GhostStates

\* Fields that the property does not read, and fewer vehicles.
LEMMA GhostSame ==
  ASSUME NEW g, NEW t, GhostGood(g), t \in GhostStates,
         t.here \subseteq g.here, t.half = g.half, t.own = g.own, t.body = g.body,
         t.retained = g.retained, t.original = g.original
  PROVE  GhostGood(t)
  BY DEF GhostGood, GhostOwn

\* A body may be written where the vehicle is the one that is remembered, or as the game
\* made it.
LEMMA GhostBody ==
  ASSUME NEW g, GhostGood(g), NEW v \in Places, NEW b \in Ghost!Bodies,
         v \in g.here \ g.half => v = g.retained \/ b = GhostOwn(g, v)
  PROVE  LET t == [g EXCEPT !.body[v] = b] IN
         /\ GhostGood(t)
         /\ t.here = g.here /\ t.half = g.half /\ t.own = g.own /\ t.retained = g.retained
         /\ t.original = g.original /\ t.driven = g.driven
         /\ t.body = [g.body EXCEPT ![v] = b]
  <1> DEFINE f == [g.body EXCEPT ![v] = b]
             t == [g EXCEPT !.body = f]
  <1>1. g \in GhostStates /\ g.body \in [Places -> Ghost!Bodies]
    BY DEF GhostGood, GhostStates
  <1>2. f \in [Places -> Ghost!Bodies] /\ f[v] = b /\ \A u \in Places \ {v} : f[u] = g.body[u]
    BY <1>1
  <1> HIDE DEF f
  <1>3. /\ t \in GhostStates /\ t.body = f
        /\ t.here = g.here /\ t.half = g.half /\ t.own = g.own /\ t.retained = g.retained
        /\ t.original = g.original /\ t.driven = g.driven
    BY <1>1, <1>2 DEF GhostStates
  <1> HIDE DEF t
  <1>4. GhostGood(t)
    <2>1. g.here \subseteq Places
      BY <1>1 DEF GhostStates
    <2> QED
      BY <1>2, <1>3, <2>1 DEF GhostGood, GhostOwn
  <1> QED
    BY <1>3, <1>4 DEF t, f

\* The first part of a body alone.
LEMMA GhostStatic ==
  ASSUME NEW g \in GhostStates, NEW v \in Places, NEW s \in BOOLEAN
  PROVE  /\ [g EXCEPT !.body[v].static = s] = [g EXCEPT !.body[v] = [static |-> s, flags |-> g.body[v].flags]]
         /\ [static |-> s, flags |-> g.body[v].flags] \in Ghost!Bodies
  <1>1. g.body[v] \in Ghost!Bodies
    BY DEF GhostStates
  <1>2. [g.body[v] EXCEPT !.static = s] = [static |-> s, flags |-> g.body[v].flags]
    BY <1>1 DEF Ghost!Bodies
  <1>3. [static |-> s, flags |-> g.body[v].flags] \in Ghost!Bodies
    BY <1>1 DEF Ghost!Bodies
  <1> QED
    BY <1>2, <1>3

LEMMA GhostReleased ==
  ASSUME NEW g, GhostGood(g)
  PROVE  /\ GhostGood(Ghost!Released(g)) /\ Ghost!Released(g).retained = NoWeapon
         /\ Ghost!Released(g).driven = g.driven
         /\ \A t \in Ghost!ReleaseFails(g) : GhostGood(t)
  <1> DEFINE old == g.retained
             back == [g EXCEPT !.body[old] = g.original]
  <1>0. g \in GhostStates /\ old \in Places \cup {NoWeapon} /\ g.original \in Ghost!Bodies
    BY DEF GhostGood, GhostStates
  <1>1. GhostGood(Ghost!Released(g)) /\ Ghost!Released(g).retained = NoWeapon /\ Ghost!Released(g).driven = g.driven
    <2>1. CASE old = NoWeapon
      BY <2>1 DEF Ghost!Released
    <2>2. CASE old # NoWeapon /\ old \in g.here
      <3>1. GhostGood(back) /\ back.here = g.here /\ back.half = g.half /\ back.own = g.own
            /\ back.driven = g.driven /\ back.body = [g.body EXCEPT ![old] = g.original]
        BY <1>0, <2>2, GhostBody
      <3> DEFINE t == [back EXCEPT !.retained = NoWeapon, !.publish = FALSE]
      <3>2. Ghost!Released(g) = [g EXCEPT !.body = [g.body EXCEPT ![old] = g.original], !.retained = NoWeapon, !.publish = FALSE]
        BY <2>2 DEF Ghost!Released
      <3>3. Ghost!Released(g) = t
        BY <1>0, <3>2 DEF GhostStates
      <3>4. /\ t \in GhostStates /\ t.here = back.here /\ t.half = back.half /\ t.own = back.own
            /\ t.body = back.body /\ t.retained = NoWeapon /\ t.driven = back.driven
        BY <3>1 DEF GhostGood, GhostStates
      <3>5. old \in g.here \ g.half => back.body[old] = GhostOwn(back, old)
        <4>1. g.body \in [Places -> Ghost!Bodies] /\ old \in Places
          BY <1>0, <2>2 DEF GhostStates
        <4> QED
          BY <3>1, <4>1 DEF GhostGood, GhostOwn
      <3>6. \A v \in g.here \ g.half : v # old => back.body[v] = GhostOwn(back, v)
        <4>1. g.body \in [Places -> Ghost!Bodies] /\ g.here \subseteq Places
          BY <1>0 DEF GhostStates
        <4> QED
          BY <3>1, <4>1 DEF GhostGood, GhostOwn
      <3> HIDE DEF t, back
      <3>7. GhostGood(t)
        <4>1. NoWeapon \notin t.here
          BY <3>4, PlaceAssumption DEF GhostStates
        <4> QED
          BY <3>1, <3>4, <3>5, <3>6, <4>1 DEF GhostGood, GhostOwn
      <3> QED
        BY <3>1, <3>3, <3>4, <3>7
    <2>3. CASE old # NoWeapon /\ old \notin g.here
      <3> DEFINE t == [g EXCEPT !.retained = NoWeapon, !.publish = FALSE]
      <3>1. Ghost!Released(g) = [g EXCEPT !.body = g.body, !.retained = NoWeapon, !.publish = FALSE]
        BY <2>3 DEF Ghost!Released
      <3>2. Ghost!Released(g) = t
        BY <1>0, <3>1 DEF GhostStates
      <3>3. /\ t \in GhostStates /\ t.here = g.here /\ t.half = g.half /\ t.own = g.own
            /\ t.body = g.body /\ t.retained = NoWeapon /\ t.driven = g.driven
        BY <1>0 DEF GhostStates
      <3> HIDE DEF t
      <3>4. NoWeapon \notin g.here
        BY <1>0, PlaceAssumption DEF GhostStates
      <3> QED
        BY <2>3, <3>2, <3>3, <3>4 DEF GhostGood, GhostOwn
    <2> QED
      BY <2>1, <2>2, <2>3
  <1>2. ASSUME NEW t \in Ghost!ReleaseFails(g) PROVE GhostGood(t)
    <2>1. CASE old = NoWeapon \/ old \notin g.here
      BY <1>1, <1>2, <2>1 DEF Ghost!ReleaseFails
    <2>2. CASE old # NoWeapon /\ old \in g.here
      <3>1. old \in Places
        BY <1>0, <2>2
      <3>2. g.original.static \in BOOLEAN
        BY <1>0 DEF Ghost!Bodies
      <3>3. GhostGood([g EXCEPT !.body[old].static = g.original.static])
        <4> DEFINE b == [static |-> g.original.static, flags |-> g.body[old].flags]
        <4>1. [g EXCEPT !.body[old].static = g.original.static] = [g EXCEPT !.body[old] = b] /\ b \in Ghost!Bodies
          BY <1>0, <3>1, <3>2, GhostStatic
        <4> HIDE DEF b
        <4>2. GhostGood([g EXCEPT !.body[old] = b])
          BY <3>1, <4>1, GhostBody
        <4> QED
          BY <4>1, <4>2
      <3>4. GhostGood(back)
        BY <1>0, <3>1, GhostBody
      <3> QED
        BY <1>2, <2>2, <3>3, <3>4 DEF Ghost!ReleaseFails, Ghost!Short
    <2> QED
      BY <2>1, <2>2
  <1> QED
    BY <1>1, <1>2

LEMMA GhostEntered ==
  ASSUME NEW g, GhostGood(g), NEW v \in Places,
         v \in g.here \ g.half => v = g.retained
  PROVE  GhostGood(Ghost!Entered(g, v)) /\ Ghost!Entered(g, v).driven = g.driven
  <1>1. [static |-> TRUE, flags |-> "ghost"] \in Ghost!Bodies
    BY DEF Ghost!Bodies
  <1> QED
    BY <1>1, GhostBody DEF Ghost!Entered

LEMMA GhostCaptured ==
  ASSUME NEW g, GhostGood(g), NEW v \in Places, g.retained = NoWeapon
  PROVE  /\ GhostGood(Ghost!Captured(g, v)) /\ Ghost!Captured(g, v).retained = v
         /\ \A t \in Ghost!CaptureFails(g, v) : GhostGood(t)
  <1> DEFINE ghostly == [static |-> TRUE, flags |-> "ghost"]
             was == [static |-> g.body[v].static, flags |-> g.body[v].flags]
  <1>0. /\ g \in GhostStates /\ g.body[v] \in Ghost!Bodies /\ ghostly \in Ghost!Bodies /\ was = g.body[v]
        /\ g.body \in [Places -> Ghost!Bodies] /\ g.half \subseteq Places /\ g.here \subseteq Places
        /\ g.body[v].static \in BOOLEAN /\ g.body[v].flags \in {"own", "ghost"}
    BY DEF GhostGood, GhostStates, Ghost!Bodies
  <1>1. \A u \in g.here \ g.half : g.body[u] = GhostOwn(g, u)
    BY <1>0, PlaceAssumption DEF GhostGood
  <1>2. GhostGood(Ghost!Captured(g, v)) /\ Ghost!Captured(g, v).retained = v
    <2> DEFINE body == [g.body EXCEPT ![v] = ghostly]
               t == [g EXCEPT !.body = body, !.original = was, !.retained = v]
    <2>1. Ghost!Captured(g, v) = t
      BY <1>0 DEF Ghost!Captured, Ghost!Entered, GhostStates
    <2>2. body \in [Places -> Ghost!Bodies] /\ \A u \in Places \ {v} : body[u] = g.body[u]
      BY <1>0
    <2> HIDE DEF body, was
    <2>3. /\ t \in GhostStates /\ t.body = body /\ t.original = was /\ t.retained = v
          /\ t.here = g.here /\ t.half = g.half /\ t.own = g.own
      BY <1>0, <2>2 DEF GhostStates
    <2> HIDE DEF t
    <2> QED
      BY <1>0, <1>1, <2>1, <2>2, <2>3 DEF GhostGood, GhostOwn
  <1>3. ASSUME NEW t \in Ghost!CaptureFails(g, v) PROVE GhostGood(t)
    <2>1. PICK short \in Ghost!Short(g, v, ghostly) :
            t = [short EXCEPT !.body[v].static = g.body[v].static,
                              !.half = IF short.body[v].flags = "ghost" THEN @ \cup {v} ELSE @]
      BY <1>3 DEF Ghost!CaptureFails
    <2>2. PICK b \in {g.body[v], [static |-> TRUE, flags |-> g.body[v].flags], ghostly} :
            short = [g EXCEPT !.body = [g.body EXCEPT ![v] = b]]
      <3>1. CASE short = g
        <4>1. g = [g EXCEPT !.body = [g.body EXCEPT ![v] = g.body[v]]]
          BY <1>0 DEF GhostStates
        <4> QED
          BY <3>1, <4>1
      <3>2. CASE short = [g EXCEPT !.body[v].static = ghostly.static]
        BY <1>0, <3>2, GhostStatic
      <3>3. CASE short = [g EXCEPT !.body[v] = ghostly]
        BY <3>3
      <3> QED
        BY <2>1, <3>1, <3>2, <3>3 DEF Ghost!Short
    <2> DEFINE last == [static |-> g.body[v].static, flags |-> b.flags]
               body == [g.body EXCEPT ![v] = last]
               half == IF b.flags = "ghost" THEN g.half \cup {v} ELSE g.half
    <2>3. b \in Ghost!Bodies /\ b.flags \in {g.body[v].flags, "ghost"}
      <3>1. CASE b = g.body[v]
        BY <1>0, <3>1
      <3>2. CASE b = [static |-> TRUE, flags |-> g.body[v].flags]
        BY <1>0, <3>2 DEF Ghost!Bodies
      <3>3. CASE b = ghostly
        BY <1>0, <3>3
      <3> QED
        BY <2>2, <3>1, <3>2, <3>3
    <2>4. short \in GhostStates /\ short.body = [g.body EXCEPT ![v] = b] /\ short.body[v] = b /\ short.half = g.half
      BY <1>0, <2>2, <2>3 DEF GhostStates
    <2>5. [short.body[v] EXCEPT !.static = g.body[v].static] = last /\ last \in Ghost!Bodies
      BY <1>0, <2>3, <2>4 DEF Ghost!Bodies
    <2>6. t = [g EXCEPT !.body = body, !.half = half]
      <3>1. t = [short EXCEPT !.body = [short.body EXCEPT ![v] = last], !.half = half]
        BY <2>1, <2>4, <2>5
      <3>2. [short.body EXCEPT ![v] = last] = body
        BY <1>0, <2>4
      <3> HIDE DEF body, half, last
      <3> QED
        BY <1>0, <2>2, <3>1, <3>2 DEF GhostStates
    <2>7. body \in [Places -> Ghost!Bodies] /\ body[v] = last /\ \A u \in Places \ {v} : body[u] = g.body[u]
      BY <1>0, <2>5
    <2>8. half \in SUBSET Places /\ g.half \subseteq half
      BY <1>0
    <2>9. v \notin half => last = g.body[v]
      BY <1>0, <2>3 DEF Ghost!Bodies
    <2> HIDE DEF body, half, last
    <2>10. /\ t \in GhostStates /\ t.body = body /\ t.half = half /\ t.here = g.here /\ t.own = g.own
           /\ t.retained = g.retained /\ t.original = g.original
      BY <1>0, <2>6, <2>7, <2>8 DEF GhostStates
    <2> QED
      BY <1>0, <1>1, <2>7, <2>8, <2>9, <2>10, PlaceAssumption DEF GhostGood, GhostOwn
  <1> QED
    BY <1>2, <1>3

\* The switches and hooks, and the publication, in any combination.
LEMMA GhostOther ==
  ASSUME NEW g, GhostGood(g)
  PROVE  /\ GhostGood([g EXCEPT !.publish = FALSE]) /\ GhostGood([g EXCEPT !.publish = TRUE])
         /\ [g EXCEPT !.publish = FALSE].driven = g.driven /\ [g EXCEPT !.publish = FALSE].retained = g.retained
         /\ [g EXCEPT !.publish = FALSE].here = g.here
         /\ GhostGood(Ghost!Ensured(g)) /\ \A t \in Ghost!EnsureFails(g) : GhostGood(t)
         /\ \A r \in BOOLEAN, h \in BOOLEAN : GhostGood([g EXCEPT !.requested = r, !.heard = h])
         /\ \A f \in BOOLEAN : GhostGood([g EXCEPT !.flag = f])
  <1> DEFINE Like(t) == /\ t.here = g.here /\ t.half = g.half /\ t.own = g.own /\ t.body = g.body
                        /\ t.retained = g.retained /\ t.original = g.original
  <1>0. g \in GhostStates
    BY DEF GhostGood
  <1>1. ASSUME NEW p \in BOOLEAN PROVE GhostGood([g EXCEPT !.publish = p])
    <2>1. [g EXCEPT !.publish = p] \in GhostStates /\ Like([g EXCEPT !.publish = p])
      BY <1>0 DEF GhostStates
    <2> QED
      BY <2>1, GhostSame
  <1>2. [g EXCEPT !.publish = FALSE].driven = g.driven /\ [g EXCEPT !.publish = FALSE].retained = g.retained
        /\ [g EXCEPT !.publish = FALSE].here = g.here
    BY <1>0 DEF GhostStates
  <1>3. GhostGood(Ghost!Ensured(g)) /\ \A t \in Ghost!EnsureFails(g) : GhostGood(t)
    <2> DEFINE a == [g EXCEPT !.natives = TRUE]
               b == Ghost!Installed(a)
               c == [b EXCEPT !.step = "ready", !.bridge = TRUE]
               d == Ghost!Cleaned(b)
               e == [d EXCEPT !.step = "set"]
    <2>1. a \in GhostStates /\ Like(a)
      BY <1>0 DEF GhostStates
    <2>2. b \in GhostStates /\ Like(b)
      <3> HIDE DEF a
      <3> QED
        BY <2>1 DEF GhostStates, Ghost!Installed, Ghost!Hooks
    <2>3. c \in GhostStates /\ Like(c)
      <3> HIDE DEF b
      <3> QED
        BY <2>2 DEF GhostStates, Ghost!Hooks
    <2>4. d \in GhostStates /\ Like(d)
      <3> HIDE DEF b
      <3> QED
        BY <2>2 DEF GhostStates, Ghost!Cleaned, Ghost!Hooks
    <2>5. e \in GhostStates /\ Like(e)
      <3> HIDE DEF d
      <3> QED
        BY <2>4 DEF GhostStates, Ghost!Hooks
    <2>6. Ghost!Ensured(g) \in {g, c}
      BY DEF Ghost!Ensured
    <2>7. Ghost!EnsureFails(g) = {g, a, d, e}
      BY DEF Ghost!EnsureFails
    <2> HIDE DEF a, b, c, d, e
    <2>8. GhostGood(a) /\ GhostGood(c) /\ GhostGood(d) /\ GhostGood(e)
      BY <2>1, <2>3, <2>4, <2>5, GhostSame
    <2> QED
      BY <2>6, <2>7, <2>8
  <1>4. ASSUME NEW r \in BOOLEAN, NEW h \in BOOLEAN PROVE GhostGood([g EXCEPT !.requested = r, !.heard = h])
    <2>1. LET t == [g EXCEPT !.requested = r, !.heard = h] IN t \in GhostStates /\ Like(t)
      BY <1>0 DEF GhostStates
    <2> QED
      BY <2>1, GhostSame
  <1>5. ASSUME NEW f \in BOOLEAN PROVE GhostGood([g EXCEPT !.flag = f])
    <2>1. LET t == [g EXCEPT !.flag = f] IN t \in GhostStates /\ Like(t)
      BY <1>0 DEF GhostStates
    <2> QED
      BY <2>1, GhostSame
  <1> QED
    BY <1>1, <1>2, <1>3, <1>4, <1>5

\* The vehicle that is driven becomes the one that is remembered.
LEMMA GhostSteered ==
  ASSUME NEW g, GhostGood(g), g.retained \in {NoWeapon, g.driven}, g.driven \in Places
  PROVE  GhostGood(Ghost!Steered(g))
  <1> DEFINE h == IF g.retained = NoWeapon THEN Ghost!Captured(g, g.driven) ELSE g
  <1>1. GhostGood(h) /\ h.retained = g.driven
    BY GhostCaptured
  <1>2. Ghost!Steered(g) = [Ghost!Entered(h, g.driven) EXCEPT !.publish = TRUE]
    BY DEF Ghost!Steered
  <1> HIDE DEF h
  <1>3. GhostGood(Ghost!Entered(h, g.driven))
    BY <1>1, GhostEntered
  <1> QED
    BY <1>2, <1>3, GhostOther

LEMMA GhostStep == GhostInv /\ [Ghost!Next]_all => GhostInv'
  <1> SUFFICES ASSUME GhostGood(state), [Ghost!Next]_all PROVE GhostGood(state')
    BY DEF GhostInv, GhostGood, GhostStates, GhostOwn, Ghost!Hooks, Ghost!Bodies
  <1>0. state \in GhostStates
    BY DEF GhostGood
  <1>1. CASE Ghost!Live
    <2> DEFINE here == IF player' = NoPlayer THEN {} ELSE state.here
    <2>1. here \in SUBSET Places /\ here \subseteq state.here
      BY <1>0 DEF GhostStates
    <2>2. state' = [state EXCEPT !.driven = NoWeapon, !.here = here]
      BY <1>1 DEF Ghost!Live
    <2> HIDE DEF here
    <2>3. /\ state' \in GhostStates /\ state'.here = here /\ state'.half = state.half /\ state'.own = state.own
          /\ state'.body = state.body /\ state'.retained = state.retained /\ state'.original = state.original
      BY <1>0, <2>1, <2>2 DEF GhostStates
    <2> QED
      BY <2>1, <2>3, GhostSame
  <1>2. ASSUME NEW v \in Places \cup {NoWeapon}, Ghost!Drive(v) PROVE GhostGood(state')
    <2>1. state' = [state EXCEPT !.driven = v]
      BY <1>2 DEF Ghost!Drive
    <2>2. /\ state' \in GhostStates /\ state'.here = state.here /\ state'.half = state.half /\ state'.own = state.own
          /\ state'.body = state.body /\ state'.retained = state.retained /\ state'.original = state.original
      BY <1>0, <2>1 DEF GhostStates
    <2> QED
      BY <2>2, GhostSame
  <1>3. ASSUME NEW v \in Places, Ghost!Remove(v) PROVE GhostGood(state')
    <2> DEFINE driven == IF state.driven = v THEN NoWeapon ELSE state.driven
    <2>1. driven \in Places \cup {NoWeapon}
      BY <1>0 DEF GhostStates
    <2>2. state' = [state EXCEPT !.here = state.here \ {v}, !.driven = driven]
      BY <1>3 DEF Ghost!Remove
    <2> HIDE DEF driven
    <2>3. /\ state' \in GhostStates /\ state'.here = state.here \ {v} /\ state'.half = state.half /\ state'.own = state.own
          /\ state'.body = state.body /\ state'.retained = state.retained /\ state'.original = state.original
      BY <1>0, <2>1, <2>2 DEF GhostStates
    <2> QED
      BY <2>3, GhostSame
  <1>4. ASSUME NEW v \in Places, Ghost!SetStatic(v) PROVE GhostGood(state')
    <2> DEFINE b == [static |-> state.own[v], flags |-> state.body[v].flags]
    <2>1. state.own[v] \in BOOLEAN /\ state.body[v] \in Ghost!Bodies
      BY <1>0 DEF GhostStates
    <2>2. state' = [state EXCEPT !.body[v] = b] /\ b \in Ghost!Bodies
      BY <1>0, <1>4, <2>1, GhostStatic DEF Ghost!SetStatic
    <2>3. state.body[v] # GhostOwn(state, v)
      BY <1>4 DEF Ghost!SetStatic, GhostOwn
    <2>4. v \in state.here \ state.half => v = state.retained
      BY <2>3 DEF GhostGood
    <2> QED
      BY <2>2, <2>4, GhostBody
  <1>5. ASSUME NEW on \in BOOLEAN, Ghost!Switch(on) PROVE GhostGood(state')
    BY <1>5, GhostOther DEF Ghost!Switch
  <1>6. CASE Ghost!Update
    <2>1. CASE state' = [(IF state.flag THEN Ghost!Ensured(state) ELSE state) EXCEPT !.requested = state.flag, !.heard = TRUE]
      <3>1. state.flag \in BOOLEAN
        BY <1>0 DEF GhostStates
      <3>2. PICK g \in {Ghost!Ensured(state), state} : state' = [g EXCEPT !.requested = state.flag, !.heard = TRUE]
        BY <2>1
      <3>3. GhostGood(g)
        BY <3>2, GhostOther
      <3> QED
        BY <3>1, <3>2, <3>3, GhostOther
    <2>2. CASE \E g \in Ghost!EnsureFails(state) : state' = [g EXCEPT !.flag = FALSE]
      <3>1. PICK g \in Ghost!EnsureFails(state) : state' = [g EXCEPT !.flag = FALSE]
        BY <2>2
      <3>2. GhostGood(g)
        BY GhostOther
      <3> QED
        BY <3>1, <3>2, GhostOther
    <2> QED
      BY <1>6, <2>1, <2>2 DEF Ghost!Update
  <1>7. CASE Ghost!Silence
    <2>1. state' = [state EXCEPT !.heard = FALSE]
      BY <1>7 DEF Ghost!Silence
    <2>2. /\ state' \in GhostStates /\ state'.here = state.here /\ state'.half = state.half /\ state'.own = state.own
          /\ state'.body = state.body /\ state'.retained = state.retained /\ state'.original = state.original
      BY <1>0, <2>1 DEF GhostStates
    <2> QED
      BY <2>2, GhostSame
  <1>8. CASE Ghost!BeforeStep
    <2> DEFINE g == [state EXCEPT !.publish = FALSE]
               changed == Ghost!Changed(g)
    <2>1. GhostGood(g) /\ g.driven = state.driven /\ g.retained = state.retained
      BY GhostOther
    <2> HIDE DEF g
    <2>2. GhostGood(changed) /\ changed.retained \in {NoWeapon, g.driven} /\ changed.driven = g.driven
      BY <2>1, GhostReleased DEF Ghost!Changed
    <2> HIDE DEF changed
    <2>3. Ghost!Wanted => g.driven \in Places
      BY <1>0, <2>1 DEF Ghost!Wanted, GhostStates
    <2>4. Ghost!Wanted => GhostGood(Ghost!Steered(changed)) /\ GhostGood([Ghost!Steered(changed) EXCEPT !.publish = FALSE])
      BY <2>2, <2>3, GhostSteered, GhostOther
    <2>5. \/ ~Ghost!Wanted /\ state' = Ghost!Released(g)
          \/ ~Ghost!Wanted /\ state' \in Ghost!ReleaseFails(g)
          \/ Ghost!Wanted /\ state' = Ghost!Steered(changed)
          \/ Ghost!Wanted /\ state' \in Ghost!ReleaseFails(g)
          \/ Ghost!Wanted /\ changed.retained = NoWeapon /\ state' \in Ghost!CaptureFails(changed, g.driven)
          \/ Ghost!Wanted /\ state' = Ghost!Released(changed)
          \/ Ghost!Wanted /\ state' \in Ghost!ReleaseFails([Ghost!Steered(changed) EXCEPT !.publish = FALSE])
      BY <1>8 DEF Ghost!BeforeStep, changed, g
    <2>6. ASSUME Ghost!Wanted, changed.retained = NoWeapon
          PROVE  \A t \in Ghost!CaptureFails(changed, g.driven) : GhostGood(t)
      BY <2>2, <2>3, <2>6, GhostCaptured
    <2> QED
      BY <2>1, <2>2, <2>4, <2>5, <2>6, GhostReleased
  <1>9. CASE Ghost!AfterStep
    <2>1. state.retained \in Places
      BY <1>0, <1>9 DEF Ghost!AfterStep, GhostStates
    <2>2. state' \in {[Ghost!Entered(state, state.retained) EXCEPT !.publish = FALSE], [Ghost!Released(state) EXCEPT !.publish = FALSE]}
      BY <1>9 DEF Ghost!AfterStep
    <2>3. GhostGood(Ghost!Entered(state, state.retained)) /\ GhostGood(Ghost!Released(state))
      BY <2>1, GhostEntered, GhostReleased
    <2> QED
      BY <2>2, <2>3, GhostOther
  <1>10. CASE UNCHANGED all
    BY <1>10 DEF all
  <1> QED
    BY <1>1, <1>2, <1>3, <1>4, <1>5, <1>6, <1>7, <1>8, <1>9, <1>10 DEF Ghost!Next

LEMMA GhostKept == GhostInv => Ghost!GhostsAreRetained
  <1> SUFFICES ASSUME GhostInv, NEW v \in state.here \ state.half,
                      state.body[v].flags = "ghost" \/ (state.body[v].static /\ ~state.own[v])
               PROVE  v = state.retained /\ state.original = GhostOwn(state, v)
    BY DEF Ghost!GhostsAreRetained, GhostOwn
  <1>1. v \in Places /\ state.own[v] \in BOOLEAN /\ state.body[v] # GhostOwn(state, v)
    BY DEF GhostInv, GhostGood, GhostStates, GhostOwn
  <1> QED
    BY <1>1 DEF GhostInv, GhostGood

-----------------------------------------------------------------------------
(* ModelMaterials: what was rebuilt holds the shader that the program of the game has. *)

Material == INSTANCE ModelMaterials WITH material <- state, MaxRequests <- 0, MaxFaults <- FewFaults, Programs <- Places

MaterialFields == {"program", "text", "last", "kept", "ready", "used"}


MaterialKept == [shader : Shaders \cup {Material!NoShader}, text : Nat, built : BOOLEAN, held : BOOLEAN]

MaterialTyped(m) ==
  /\ DOMAIN m = MaterialFields /\ m = [f \in MaterialFields |-> m[f]]
  /\ m.program \in [Windows -> [Places -> Shaders \cup {Material!NoShader}]]
  /\ m.text \in [Windows -> [Shaders -> Nat]] /\ m.last \in Nat
  /\ m.kept \in [Windows -> [Places -> MaterialKept]]

\* A program of the game has a shader that exists.
MaterialLinked(shader, texts) ==
  shader # Material!NoShader => shader \in Shaders /\ texts[shader] # 0

\* What was rebuilt holds the shader it was made of, which is still the same.
MaterialHolds(k, texts) ==
  k.built => k.held /\ k.shader \in Shaders /\ k.text = texts[k.shader] /\ k.text # 0

MaterialGood(m) ==
  /\ MaterialTyped(m)
  /\ \A w \in Windows, p \in Places : MaterialLinked(m.program[w][p], m.text[w])
  /\ \A w \in Windows, p \in Places : MaterialHolds(m.kept[w][p], m.text[w])
  /\ m.used[1] = m.used[2]

MaterialInv == MaterialGood(state)

LEMMA MaterialAbsent == Material!Absent \in MaterialKept /\ ~Material!Absent.built
  BY DEF Material!Absent, MaterialKept

LEMMA MaterialInit == Material!Init => MaterialInv
  <1> SUFFICES ASSUME Material!Init PROVE MaterialGood(state)
    BY DEF MaterialInv
  <1> DEFINE program == [w \in Windows |-> [p \in Places |-> Material!NoShader]]
             text == [w \in Windows |-> [s \in Shaders |-> 0]]
             kept == [w \in Windows |-> [p \in Places |-> Material!Absent]]
  <1>1. state = [program |-> program, text |-> text, last |-> 0, kept |-> kept, ready |-> FALSE, used |-> <<0, 0>>]
    BY DEF Material!Init
  <1>2. /\ program \in [Windows -> [Places -> Shaders \cup {Material!NoShader}]]
        /\ text \in [Windows -> [Shaders -> Nat]] /\ kept \in [Windows -> [Places -> MaterialKept]]
        /\ \A w \in Windows, p \in Places : program[w][p] = Material!NoShader /\ kept[w][p] = Material!Absent
    BY MaterialAbsent
  <1> HIDE DEF program, text, kept
  <1>3. /\ DOMAIN state = MaterialFields /\ state = [f \in MaterialFields |-> state[f]]
        /\ state.program = program /\ state.text = text /\ state.kept = kept /\ state.last = 0
        /\ state.used[1] = state.used[2]
    BY <1>1 DEF MaterialFields
  <1>4. MaterialTyped(state)
    <2>1. state.last \in Nat
      BY <1>3
    <2> QED
      BY <1>2, <1>3, <2>1 DEF MaterialTyped
  <1>5. ASSUME NEW w \in Windows, NEW p \in Places PROVE MaterialLinked(state.program[w][p], state.text[w])
    BY <1>2, <1>3 DEF MaterialLinked
  <1>6. ASSUME NEW w \in Windows, NEW p \in Places PROVE MaterialHolds(state.kept[w][p], state.text[w])
    BY <1>2, <1>3, MaterialAbsent DEF MaterialHolds
  <1> QED
    BY <1>3, <1>4, <1>5, <1>6 DEF MaterialGood

\* Freed changes texts only, and none of a shader that a program has or that is held.
LEMMA MaterialFreed ==
  ASSUME NEW m, MaterialGood(m), NEW w \in Windows
  PROVE  LET t == Material!Freed(m, w) IN
         /\ MaterialGood(t) /\ t.program = m.program /\ t.kept = m.kept
  <1> DEFINE t == Material!Freed(m, w)
             row == [s \in Shaders |-> IF Material!Held(m, w, s) \/ \E p \in Places : m.program[w][p] = s
                                        THEN m.text[w][s] ELSE 0]
             text == [m.text EXCEPT ![w] = row]
  <1>0. /\ DOMAIN m = MaterialFields /\ m = [f \in MaterialFields |-> m[f]]
        /\ m.text \in [Windows -> [Shaders -> Nat]] /\ m.text[w] \in [Shaders -> Nat] /\ MaterialTyped(m)
    BY DEF MaterialGood, MaterialTyped
  <1>1. t = [m EXCEPT !.text = text]
    BY DEF Material!Freed
  <1>2. row \in [Shaders -> Nat]
        /\ \A s \in Shaders : (Material!Held(m, w, s) \/ \E p \in Places : m.program[w][p] = s) => row[s] = m.text[w][s]
    BY <1>0
  <1> HIDE DEF row
  <1>3. text \in [Windows -> [Shaders -> Nat]] /\ text[w] = row /\ \A v \in Windows : v # w => text[v] = m.text[v]
    BY <1>0, <1>2
  <1> HIDE DEF text, t
  <1>4. /\ DOMAIN t = MaterialFields /\ t = [f \in MaterialFields |-> t[f]]
        /\ t.program = m.program /\ t.text = text /\ t.kept = m.kept /\ t.last = m.last /\ t.used = m.used
    BY <1>0, <1>1 DEF MaterialFields
  <1>5. ASSUME NEW v \in Windows, NEW p \in Places PROVE MaterialLinked(m.program[v][p], text[v])
    <2>1. MaterialLinked(m.program[v][p], m.text[v])
      BY DEF MaterialGood
    <2> QED
      BY <1>2, <1>3, <2>1 DEF MaterialLinked
  <1>6. ASSUME NEW v \in Windows, NEW p \in Places PROVE MaterialHolds(m.kept[v][p], text[v])
    <2>1. MaterialHolds(m.kept[v][p], m.text[v])
      BY DEF MaterialGood
    <2>2. v = w /\ m.kept[v][p].held => Material!Held(m, w, m.kept[v][p].shader)
      BY DEF Material!Held
    <2> QED
      BY <1>2, <1>3, <2>1, <2>2 DEF MaterialHolds
  <1>7. MaterialGood(t)
    <2>1. MaterialTyped(t)
      BY <1>0, <1>3, <1>4 DEF MaterialTyped
    <2>2. t.used[1] = t.used[2]
      BY <1>4 DEF MaterialGood
    <2> QED
      BY <1>4, <1>5, <1>6, <2>1, <2>2 DEF MaterialGood
  <1> QED
    BY <1>4, <1>7 DEF t

\* Writing what is kept of one program.
LEMMA MaterialWrite ==
  ASSUME NEW m, MaterialGood(m), NEW w \in Windows, NEW p \in Places, NEW k \in MaterialKept,
         MaterialHolds(k, m.text[w])
  PROVE  LET t == [m EXCEPT !.kept[w][p] = k] IN
         /\ MaterialGood(t) /\ t.program = m.program /\ t.text = m.text /\ t.kept[w][p] = k
  <1> DEFINE kept == [m.kept EXCEPT ![w][p] = k]
             t == [m EXCEPT !.kept = kept]
  <1>0. /\ DOMAIN m = MaterialFields /\ m = [f \in MaterialFields |-> m[f]]
        /\ m.kept \in [Windows -> [Places -> MaterialKept]] /\ MaterialTyped(m)
    BY DEF MaterialGood, MaterialTyped
  <1>1. /\ kept \in [Windows -> [Places -> MaterialKept]]
        /\ \A v \in Windows, q \in Places : kept[v][q] = IF v = w /\ q = p THEN k ELSE m.kept[v][q]
    BY <1>0
  <1> HIDE DEF kept
  <1>2. /\ DOMAIN t = MaterialFields /\ t = [f \in MaterialFields |-> t[f]]
        /\ t.program = m.program /\ t.text = m.text /\ t.kept = kept /\ t.last = m.last /\ t.used = m.used
    BY <1>0 DEF MaterialFields
  <1> HIDE DEF t
  <1>3. MaterialGood(t)
    <2>1. MaterialTyped(t)
      BY <1>0, <1>1, <1>2 DEF MaterialTyped
    <2>2. ASSUME NEW v \in Windows, NEW q \in Places PROVE MaterialHolds(kept[v][q], m.text[v])
      <3>1. MaterialHolds(m.kept[v][q], m.text[v])
        BY DEF MaterialGood
      <3> QED
        BY <1>1, <3>1
    <2>3. t.used[1] = t.used[2]
      BY <1>2 DEF MaterialGood
    <2> QED
      BY <1>2, <2>1, <2>2, <2>3 DEF MaterialGood
  <1> QED
    BY <1>1, <1>2, <1>3 DEF t, kept

LEMMA MaterialUsed ==
  ASSUME NEW m, MaterialGood(m), NEW w \in Windows, NEW p \in Places, Material!Cached(m, w, p)
  PROVE  MaterialGood(Material!Used(m, w, p))
  <1> DEFINE k == m.kept[w][p]
  <1>1. CASE ~k.built
    BY <1>1 DEF Material!Used
  <1>2. CASE k.built
    <2> DEFINE pair == <<k.text, m.text[w][m.program[w][p]]>>
               t == [m EXCEPT !.used = pair]
    <2>1. Material!Used(m, w, p) = t
      BY <1>2 DEF Material!Used, Material!Original
    <2>2. pair[1] = pair[2]
      <3>1. MaterialHolds(k, m.text[w])
        BY DEF MaterialGood
      <3>2. k.shader = m.program[w][p]
        BY DEF Material!Cached, Material!Original
      <3> QED
        BY <1>2, <3>1, <3>2 DEF MaterialHolds
    <2> HIDE DEF pair
    <2>3. /\ DOMAIN t = MaterialFields /\ t = [f \in MaterialFields |-> t[f]]
          /\ t.program = m.program /\ t.text = m.text /\ t.kept = m.kept /\ t.last = m.last /\ t.used = pair
      BY DEF MaterialFields, MaterialGood, MaterialTyped
    <2> HIDE DEF t
    <2>4. MaterialGood(t)
      <3>1. MaterialTyped(t)
        BY <2>3 DEF MaterialGood, MaterialTyped
      <3>2. t.used[1] = t.used[2]
        BY <2>2, <2>3
      <3> QED
        BY <2>3, <3>1, <3>2 DEF MaterialGood
    <2> QED
      BY <2>1, <2>4
  <1> QED
    BY <1>1, <1>2

LEMMA MaterialStep == MaterialInv /\ [Material!Next]_all => MaterialInv'
  <1> SUFFICES ASSUME MaterialGood(state), [Material!Next]_all PROVE MaterialGood(state')
    BY DEF MaterialInv, MaterialGood, MaterialTyped, MaterialLinked, MaterialHolds, MaterialFields, MaterialKept, Material!NoShader
  <1>0. /\ DOMAIN state = MaterialFields /\ state = [f \in MaterialFields |-> state[f]]
        /\ state.program \in [Windows -> [Places -> Shaders \cup {Material!NoShader}]]
        /\ state.text \in [Windows -> [Shaders -> Nat]] /\ state.last \in Nat
        /\ MaterialTyped(state)
    BY DEF MaterialGood, MaterialTyped
  <1>1. ASSUME NEW w \in Windows, NEW p \in Places, Material!Delete(w, p) PROVE MaterialGood(state')
    <2> DEFINE program == [state.program EXCEPT ![w][p] = Material!NoShader]
               m == [state EXCEPT !.program = program]
    <2>1. state' = Material!Freed(m, w)
      BY <1>1 DEF Material!Delete
    <2>2. /\ program \in [Windows -> [Places -> Shaders \cup {Material!NoShader}]]
          /\ \A v \in Windows, q \in Places :
               program[v][q] = IF v = w /\ q = p THEN Material!NoShader ELSE state.program[v][q]
      BY <1>0
    <2> HIDE DEF program
    <2>3. /\ DOMAIN m = MaterialFields /\ m = [f \in MaterialFields |-> m[f]]
          /\ m.program = program /\ m.text = state.text /\ m.kept = state.kept /\ m.last = state.last
          /\ m.used = state.used
      BY <1>0 DEF MaterialFields
    <2> HIDE DEF m
    <2>4. MaterialGood(m)
      <3>1. MaterialTyped(m)
        BY <1>0, <2>2, <2>3 DEF MaterialTyped
      <3>2. ASSUME NEW v \in Windows, NEW q \in Places PROVE MaterialLinked(program[v][q], state.text[v])
        <4>1. MaterialLinked(state.program[v][q], state.text[v])
          BY DEF MaterialGood
        <4> QED
          BY <2>2, <4>1 DEF MaterialLinked
      <3>3. m.used[1] = m.used[2]
        BY <2>3 DEF MaterialGood
      <3> QED
        BY <2>3, <3>1, <3>2, <3>3 DEF MaterialGood
    <2> QED
      BY <2>1, <2>4, MaterialFreed
  <1>2. ASSUME NEW w \in Windows, NEW p \in Places, NEW s \in Shaders, Material!Make(w, p, s)
        PROVE  MaterialGood(state')
    <2> DEFINE n == state.last + 1
               program == [state.program EXCEPT ![w][p] = s]
               text == [state.text EXCEPT ![w][s] = n]
    <2>1. /\ state' = [state EXCEPT !.program = program, !.text = text, !.last = n]
          /\ state.text[w][s] = 0
      BY <1>2 DEF Material!Make
    <2>2. n \in Nat /\ n # 0
      BY <1>0
    <2> HIDE DEF n
    <2>3. /\ program \in [Windows -> [Places -> Shaders \cup {Material!NoShader}]]
          /\ \A v \in Windows, q \in Places :
               program[v][q] = IF v = w /\ q = p THEN s ELSE state.program[v][q]
      BY <1>0
    <2>4. /\ text \in [Windows -> [Shaders -> Nat]]
          /\ \A v \in Windows, r \in Shaders :
               text[v][r] = IF v = w /\ r = s THEN n ELSE state.text[v][r]
      BY <1>0, <2>2
    <2> HIDE DEF program, text
    <2>5. /\ DOMAIN state' = MaterialFields /\ state' = [f \in MaterialFields |-> state'[f]]
          /\ state'.program = program /\ state'.text = text /\ state'.kept = state.kept /\ state'.last = n
          /\ state'.used = state.used
      BY <1>0, <2>1 DEF MaterialFields
    <2>6. ASSUME NEW v \in Windows, NEW q \in Places PROVE MaterialLinked(program[v][q], text[v])
      <3>1. MaterialLinked(state.program[v][q], state.text[v])
        BY DEF MaterialGood
      <3> QED
        BY <2>2, <2>3, <2>4, <3>1 DEF MaterialLinked
    <2>7. ASSUME NEW v \in Windows, NEW q \in Places PROVE MaterialHolds(state.kept[v][q], text[v])
      <3>1. MaterialHolds(state.kept[v][q], state.text[v])
        BY DEF MaterialGood
      <3> QED
        BY <2>1, <2>4, <3>1 DEF MaterialHolds
    <2>8. MaterialTyped(state')
      BY <1>0, <2>2, <2>3, <2>4, <2>5 DEF MaterialTyped
    <2>9. state'.used[1] = state'.used[2]
      BY <2>5 DEF MaterialGood
    <2> QED
      BY <2>5, <2>6, <2>7, <2>8, <2>9 DEF MaterialGood
  <1>3. ASSUME NEW w \in Windows, NEW p \in Places, Material!Get(w, p) PROVE MaterialGood(state')
    <2> DEFINE begun == [state EXCEPT !.ready = TRUE]
               own == Material!Discarded(begun, w, p)
               s == own.program[w][p]
    <2>1. MaterialGood(begun) /\ begun.program = state.program
      <3>1. /\ DOMAIN begun = MaterialFields /\ begun = [f \in MaterialFields |-> begun[f]]
            /\ begun.program = state.program /\ begun.text = state.text /\ begun.kept = state.kept
            /\ begun.last = state.last /\ begun.used = state.used
        BY <1>0 DEF MaterialFields
      <3> HIDE DEF begun
      <3> QED
        BY <1>0, <3>1 DEF MaterialGood, MaterialTyped
    <2> HIDE DEF begun
    <2>2. MaterialGood(own) /\ own.program = state.program
      <3> DEFINE cleared == [begun EXCEPT !.kept[w][p] = Material!Absent]
      <3>1. MaterialGood(cleared) /\ cleared.program = state.program
        BY <2>1, MaterialAbsent, MaterialWrite DEF MaterialHolds
      <3> HIDE DEF cleared
      <3>2. MaterialGood(Material!Freed(cleared, w)) /\ Material!Freed(cleared, w).program = state.program
        BY <3>1, MaterialFreed
      <3> QED
        BY <2>1, <3>2 DEF Material!Discarded, cleared
    <2> HIDE DEF own
    <2>3. s # Material!NoShader
      BY <1>3, <2>2 DEF Material!Get, Material!Original
    <2>4. s \in Shaders /\ own.text[w][s] \in Nat /\ own.text[w][s] # 0
      <3>1. MaterialLinked(own.program[w][p], own.text[w]) /\ own.text \in [Windows -> [Shaders -> Nat]]
        BY <2>2 DEF MaterialGood, MaterialTyped
      <3> QED
        BY <2>3, <3>1 DEF MaterialLinked
    <2> DEFINE built == [shader |-> s, text |-> own.text[w][s], built |-> TRUE, held |-> TRUE]
               failed == [shader |-> s, text |-> own.text[w][s], built |-> FALSE, held |-> FALSE]
    <2>5. Material!Built(own, w, p) = [own EXCEPT !.kept[w][p] = built]
          /\ Material!Failed(own, w, p) = [own EXCEPT !.kept[w][p] = failed]
      BY DEF Material!Built, Material!Failed, Material!Original
    <2> HIDE DEF s
    <2>6. /\ built \in MaterialKept /\ built.held /\ built.shader = s /\ built.text = own.text[w][s]
          /\ failed \in MaterialKept /\ ~failed.built /\ built # Material!Absent
      BY <2>4 DEF MaterialKept, Material!Absent
    <2>10. MaterialHolds(built, own.text[w]) /\ MaterialHolds(failed, own.text[w])
      <3> HIDE DEF built, failed
      <3> QED
        BY <2>4, <2>6 DEF MaterialHolds
    <2> HIDE DEF built, failed
    <2>7. MaterialGood(Material!Failed(own, w, p))
      BY <2>2, <2>5, <2>6, <2>10, MaterialWrite
    <2>8. MaterialGood(Material!Used(Material!Built(own, w, p), w, p))
      <3> DEFINE b == [own EXCEPT !.kept[w][p] = built]
      <3>1. MaterialGood(b) /\ b.program = own.program /\ b.kept[w][p] = built
        BY <2>2, <2>6, <2>10, MaterialWrite
      <3> HIDE DEF b
      <3>2. Material!Cached(b, w, p)
        BY <2>6, <3>1 DEF Material!Cached, Material!Original, s
      <3> QED
        BY <2>5, <3>1, <3>2, MaterialUsed DEF b
    <2>9. Material!Cached(own, w, p) => MaterialGood(Material!Used(own, w, p))
      BY <2>2, MaterialUsed
    <2> QED
      BY <1>3, <2>7, <2>8, <2>9 DEF Material!Get, own, begun
  <1>4. CASE UNCHANGED all
    BY <1>4 DEF all
  <1> QED
    BY <1>1, <1>2, <1>3, <1>4 DEF Material!Next

LEMMA MaterialKeeps == MaterialInv => Material!MaterialIsOfItsProgram
  BY DEF MaterialInv, MaterialGood, Material!MaterialIsOfItsProgram

-----------------------------------------------------------------------------
(* AimOverrides: the weapon and the player that are not as the game has them are those that
   are remembered, with what the game had. *)

AimRecord(z) == DOMAIN z = AimFields /\ z = [f \in AimFields |-> z[f]]

\* The fields that are about the values of the weapons, and those about who is stopped.
AimLike(t, z) ==
  /\ AimRecord(t)
  /\ t.values = z.values /\ t.weapon = z.weapon /\ t.weaponHad = z.weaponHad
  /\ t.spoiltWeapons = z.spoiltWeapons /\ t.hand = z.hand
  /\ t.moves = z.moves /\ t.walker = z.walker /\ t.walkerHad = z.walkerHad
  /\ t.spoiltPlayers = z.spoiltPlayers

AimWeapons(z) ==
  /\ DOMAIN z.values = Weapons /\ z.values = [w \in Weapons |-> z.values[w]]
  /\ z.hand \in Weapons \cup {NoWeapon}
  /\ \A w \in Weapons \ z.spoiltWeapons : z.values[w] = "own" \/ z.weapon = w
  /\ z.weapon \in Weapons \ z.spoiltWeapons => z.weaponHad = "own"

AimMoves(z) ==
  /\ DOMAIN z.moves = Persons /\ z.moves = [p \in Persons |-> z.moves[p]]
  /\ \A p \in Persons \ z.spoiltPlayers : z.moves[p] = "own" \/ z.walker = p
  /\ z.walker \in Persons \ z.spoiltPlayers => z.walkerHad = "own"

AimGood(z) == AimRecord(z) /\ AimWeapons(z) /\ AimMoves(z)

AimInv == AimGood(state)

LEMMA AimInit == Aim!Init => AimInv
  <1> SUFFICES ASSUME Aim!Init PROVE AimGood(state)
    BY DEF AimInv
  <1> DEFINE values == [w \in Weapons |-> "own"]
             moves == [p \in Persons |-> "own"]
  <1>1. /\ state.values = values /\ state.moves = moves /\ state.hand = NoWeapon
        /\ state.weapon = NoWeapon /\ state.weaponHad = "own"
        /\ state.walker = NoPlayer /\ state.walkerHad = "own"
    BY DEF Aim!Init
  <1>2. AimRecord(state)
    BY DEF Aim!Init, AimRecord, AimFields
  <1>3. AimWeapons(state)
    BY <1>1 DEF AimWeapons
  <1>4. AimMoves(state)
    BY <1>1 DEF AimMoves
  <1> QED
    BY <1>2, <1>3, <1>4 DEF AimGood

LEMMA AimSame == ASSUME NEW z, NEW t, AimGood(z), AimLike(t, z) PROVE AimGood(t)
  BY DEF AimGood, AimLike, AimWeapons, AimMoves

LEMMA AimOnward == ASSUME NEW z, NEW t, NEW u, AimLike(t, z), AimLike(u, t) PROVE AimLike(u, z)
  BY DEF AimLike

LEMMA AimItself == ASSUME NEW z, AimRecord(z) PROVE AimLike(z, z)
  BY DEF AimLike

\* What is left alone by everything that is about calls, hooks, shots and the aim.
LEMMA AimForgotten ==
  ASSUME NEW z, AimRecord(z), NEW call PROVE AimLike(Aim!Forgotten(z, call), z)
  <1> DEFINE a == [z.calls EXCEPT ![call] = "none"]
             b == IF z.calls[call] = "queued" /\ call # "attack" THEN z.strays \cup {call} ELSE z.strays
             t == [z EXCEPT !.calls = a, !.strays = b]
  <1>1. Aim!Forgotten(z, call) = t
    BY DEF Aim!Forgotten
  <1> HIDE DEF a, b
  <1> QED
    BY <1>1 DEF AimLike, AimRecord, AimFields

LEMMA AimPolled ==
  ASSUME NEW z, AimRecord(z), NEW call, NEW bad PROVE AimLike(Aim!Polled(z, call, bad), z)
  BY AimForgotten, AimItself DEF Aim!Polled

LEMMA AimQueued ==
  ASSUME NEW z, AimRecord(z), NEW call, NEW bad PROVE AimLike(Aim!Queued(z, call, bad), z)
  <1> DEFINE a == [z.calls EXCEPT ![call] = IF bad = "queue" THEN @ ELSE "queued"]
             b == z.unsent \/ (bad = "queue" /\ call = "release")
             t == [z EXCEPT !.calls = a, !.unsent = b]
  <1>1. Aim!Queued(z, call, bad) = t
    BY DEF Aim!Queued
  <1> HIDE DEF a, b
  <1> QED
    BY <1>1 DEF AimLike, AimRecord, AimFields

LEMMA AimRelease ==
  ASSUME NEW z, AimRecord(z), NEW bad PROVE AimLike(Aim!Release(z, bad), z)
  <1> DEFINE t == Aim!Polled(z, "release", bad)
  <1>1. AimLike(t, z) /\ AimRecord(t)
    BY AimPolled DEF AimLike
  <1> HIDE DEF t
  <1>2. AimLike(Aim!Queued(t, "release", bad), z)
    BY <1>1, AimQueued, AimOnward
  <1> QED
    BY <1>1, <1>2 DEF Aim!Release, t

LEMMA AimReleaseForced ==
  ASSUME NEW z, AimRecord(z), NEW busy, NEW bad PROVE AimLike(Aim!ReleaseForced(z, busy, bad), z)
  <1> DEFINE t == Aim!Release(z, bad)
  <1>1. AimLike(t, z)
    BY AimRelease
  <1> HIDE DEF t
  <1>2. AimLike([t EXCEPT !.forced = FALSE], z)
    BY <1>1 DEF AimLike, AimRecord, AimFields
  <1> QED
    BY <1>2, AimItself DEF Aim!ReleaseForced, t

LEMMA AimCleared ==
  ASSUME NEW z, AimRecord(z), NEW bad PROVE AimLike(Aim!Cleared(z, bad), z)
  <1> DEFINE t == [z EXCEPT !.requested = Aim!NoRequest, !.prepared = Aim!NoRequest]
  <1>1. AimLike(t, z) /\ AimRecord(t)
    BY DEF AimLike, AimRecord, AimFields
  <1> HIDE DEF t
  <1> QED
    BY <1>1, AimRelease, AimOnward DEF Aim!Cleared, t

LEMMA AimUnpublished == ASSUME NEW z, AimRecord(z) PROVE AimLike(Aim!Unpublished(z), z)
  BY DEF Aim!Unpublished, AimLike, AimRecord, AimFields

LEMMA AimNoSecond == ASSUME NEW z, AimRecord(z) PROVE AimLike(Aim!NoSecond(z), z)
  BY DEF Aim!NoSecond, AimLike, AimRecord, AimFields

LEMMA AimFramed == ASSUME NEW z, AimRecord(z), NEW f PROVE AimLike([z EXCEPT !.frame = f], z)
  BY DEF AimLike, AimRecord, AimFields

LEMMA AimRequested ==
  ASSUME NEW z, AimRecord(z), NEW bad PROVE AimLike(Aim!Requested(z, bad), z)
  <1> DEFINE said == [z EXCEPT !.requested = [who |-> player, automatic |-> "automatic" \in z.options,
                                              fresh |-> TRUE]]
             polled == Aim!Polled(said, "prepare", bad)
             queued == Aim!Queued(polled, "prepare", bad)
  <1>1. AimLike(said, z) /\ AimRecord(said)
    BY DEF AimLike, AimRecord, AimFields
  <1>2. Aim!Requested(z, bad) \in {z, polled, queued}
    BY DEF Aim!Requested
  <1> HIDE DEF said
  <1>3. AimLike(polled, z) /\ AimRecord(polled)
    <2>1. AimLike(polled, said)
      BY <1>1, AimPolled
    <2> QED
      BY <1>1, <2>1, AimOnward DEF AimLike
  <1> HIDE DEF polled
  <1>4. AimLike(queued, z)
    BY <1>3, AimQueued, AimOnward
  <1> HIDE DEF queued
  <1> QED
    BY <1>2, <1>3, <1>4, AimItself

LEMMA AimAimed ==
  ASSUME NEW z, AimRecord(z), NEW near, NEW bad PROVE AimLike(Aim!Aimed(z, near, bad), z)
  <1> DEFINE a == IF z.hooks # "none" \/ bad = "library" THEN z.hooks
                  ELSE IF bad = "hooks" THEN "failed" ELSE "ready"
             hooked == [z EXCEPT !.hooks = a]
             b == hooked.published \/ hooked.hooks = "ready"
             t == [hooked EXCEPT !.published = b]
  <1>1. Aim!Hooked(z, bad) = hooked
    BY DEF Aim!Hooked
  <1>2. Aim!Aimed(z, near, bad) \in {z, Aim!Unpublished(z), t}
    BY <1>1 DEF Aim!Aimed
  <1> HIDE DEF a, b
  <1>3. AimLike(t, z)
    BY DEF AimLike, AimRecord, AimFields
  <1> HIDE DEF t
  <1> QED
    BY <1>2, <1>3, AimUnpublished, AimItself

LEMMA AimFired ==
  ASSUME NEW z, AimRecord(z), NEW due, NEW bad PROVE AimLike(Aim!Fired(z, due, bad), z)
  <1> DEFINE q == Aim!Queued(z, "attack", bad)
  <1>1. AimLike(q, z)
    BY AimQueued
  <1>2. AimLike(Aim!Second(z, bad), z)
    <2> DEFINE a == q.extra \/ ~z.followed
               t == [q EXCEPT !.pending = FALSE, !.extra = a, !.followed = FALSE]
    <2>1. Aim!Second(z, bad) \in {q, t}
      BY DEF Aim!Second
    <2> HIDE DEF q, a
    <2>2. AimLike(t, z)
      BY <1>1 DEF AimLike, AimRecord, AimFields
    <2> QED
      BY <1>1, <2>1, <2>2
  <1>3. ASSUME NEW two PROVE AimLike(Aim!First(z, two, bad), z)
    <2> DEFINE a == "double" \in z.options /\ two
               t == [q EXCEPT !.pending = a, !.followed = a]
    <2>1. Aim!First(z, two, bad) \in {q, t}
      BY DEF Aim!First
    <2> HIDE DEF q, a
    <2>2. AimLike(t, z)
      BY <1>1 DEF AimLike, AimRecord, AimFields
    <2> QED
      BY <1>1, <2>1, <2>2
  <1>4. Aim!Fired(z, due, bad) \in {z, Aim!Second(z, bad), Aim!First(z, due = "two", bad)}
    BY DEF Aim!Fired
  <1> QED
    BY <1>2, <1>3, <1>4, AimItself

\* What was changed is given back, or counts as spoilt.
LEMMA AimRestoreWeapon ==
  ASSUME NEW z, AimGood(z), NEW bad
  PROVE  LET t == Aim!RestoreWeapon(z, bad) IN AimGood(t) /\ t.weapon = NoWeapon /\ t.hand = z.hand
  <1> DEFINE x == z.weapon
             values == [z.values EXCEPT ![x] = IF bad = "restore" THEN @ ELSE z.weaponHad]
             spoilt == IF bad = "restore" THEN z.spoiltWeapons \cup {x} ELSE z.spoiltWeapons
             t == [z EXCEPT !.values = values, !.spoiltWeapons = spoilt, !.weapon = NoWeapon]
  <1>1. CASE z.weapon = NoWeapon
    BY <1>1 DEF Aim!RestoreWeapon
  <1>2. CASE z.weapon # NoWeapon
    <2>1. Aim!RestoreWeapon(z, bad) = t
      BY <1>2 DEF Aim!RestoreWeapon
    <2>2. /\ DOMAIN values = Weapons /\ values = [w \in Weapons |-> values[w]]
          /\ \A w \in Weapons \ spoilt : values[w] = "own"
      BY DEF AimGood, AimWeapons
    <2> HIDE DEF values, spoilt
    <2>3. /\ AimRecord(t) /\ t.values = values /\ t.spoiltWeapons = spoilt /\ t.weapon = NoWeapon
          /\ t.hand = z.hand /\ t.moves = z.moves /\ t.walker = z.walker /\ t.walkerHad = z.walkerHad
          /\ t.spoiltPlayers = z.spoiltPlayers
      BY DEF AimGood, AimRecord, AimFields
    <2> HIDE DEF t
    <2>4. AimWeapons(t)
      BY <2>2, <2>3, WeaponAssumption DEF AimGood, AimWeapons
    <2>5. AimMoves(t)
      BY <2>3 DEF AimGood, AimMoves
    <2> QED
      BY <2>1, <2>3, <2>4, <2>5 DEF AimGood
  <1> QED
    BY <1>1, <1>2

LEMMA AimRestoreMovement ==
  ASSUME NEW z, AimGood(z), NEW bad
  PROVE  LET t == Aim!RestoreMovement(z, bad) IN AimGood(t) /\ t.walker = NoPlayer /\ t.hand = z.hand
  <1> DEFINE x == z.walker
             moves == [z.moves EXCEPT ![x] = IF bad = "restore" THEN @ ELSE z.walkerHad]
             spoilt == IF bad = "restore" THEN z.spoiltPlayers \cup {x} ELSE z.spoiltPlayers
             t == [z EXCEPT !.moves = moves, !.spoiltPlayers = spoilt, !.walker = NoPlayer]
  <1>1. CASE z.walker = NoPlayer
    BY <1>1 DEF Aim!RestoreMovement
  <1>2. CASE z.walker # NoPlayer
    <2>0. NoPlayer \notin Persons
      BY PlayerAssumption, PersonAssumption
    <2>1. Aim!RestoreMovement(z, bad) = t
      BY <1>2 DEF Aim!RestoreMovement
    <2>2. /\ DOMAIN moves = Persons /\ moves = [p \in Persons |-> moves[p]]
          /\ \A p \in Persons \ spoilt : moves[p] = "own"
      BY DEF AimGood, AimMoves
    <2> HIDE DEF moves, spoilt
    <2>3. /\ AimRecord(t) /\ t.moves = moves /\ t.spoiltPlayers = spoilt /\ t.walker = NoPlayer
          /\ t.hand = z.hand /\ t.values = z.values /\ t.weapon = z.weapon /\ t.weaponHad = z.weaponHad
          /\ t.spoiltWeapons = z.spoiltWeapons
      BY DEF AimGood, AimRecord, AimFields
    <2> HIDE DEF t
    <2>4. AimWeapons(t)
      BY <2>3 DEF AimGood, AimWeapons
    <2>5. AimMoves(t)
      BY <2>0, <2>2, <2>3 DEF AimGood, AimMoves
    <2> QED
      BY <2>1, <2>3, <2>4, <2>5 DEF AimGood
  <1> QED
    BY <1>1, <1>2

LEMMA AimApplied ==
  ASSUME NEW z, AimGood(z), NEW w \in Weapons, NEW bad
  PROVE  AimGood(Aim!Applied(z, w, bad)) /\ Aim!Applied(z, w, bad).hand = z.hand
  <1> DEFINE before == IF z.weapon = w THEN z ELSE Aim!RestoreWeapon(z, bad)
  <1>1. /\ AimGood(before) /\ before.hand = z.hand
        /\ before.weapon = (IF z.weapon = w THEN w ELSE NoWeapon)
        /\ w # NoWeapon
    BY AimRestoreWeapon, WeaponAssumption
  <1>a. /\ bad = "capture" /\ z.weapon # w =>
             Aim!Applied(z, w, bad) = [before EXCEPT !.values[w] = "other", !.spoiltWeapons = @ \cup {w}]
        /\ ~(bad = "capture" /\ z.weapon # w) =>
             Aim!Applied(z, w, bad) = [Aim!Remembered(before, w) EXCEPT !.values[w] = "ours"]
    BY DEF Aim!Applied
  <1> HIDE DEF before
  <1>2. ASSUME bad = "capture", z.weapon # w PROVE AimGood(Aim!Applied(z, w, bad)) /\ Aim!Applied(z, w, bad).hand = z.hand
    <2> DEFINE values == [before.values EXCEPT ![w] = "other"]
               spoilt == before.spoiltWeapons \cup {w}
               t == [before EXCEPT !.values = values, !.spoiltWeapons = spoilt]
    <2>1. Aim!Applied(z, w, bad) = t
      BY <1>2, <1>a
    <2>2. /\ DOMAIN values = Weapons /\ values = [v \in Weapons |-> values[v]]
          /\ \A v \in Weapons \ spoilt : values[v] = "own" \/ before.weapon = v
          /\ before.weapon \notin Weapons
      BY <1>1, <1>2, WeaponAssumption DEF AimGood, AimWeapons
    <2> HIDE DEF values, spoilt
    <2>3. AimRecord(t) /\ t.values = values /\ t.spoiltWeapons = spoilt /\ t.weapon = before.weapon
          /\ t.weaponHad = before.weaponHad /\ t.hand = before.hand /\ t.moves = before.moves
          /\ t.walker = before.walker /\ t.walkerHad = before.walkerHad /\ t.spoiltPlayers = before.spoiltPlayers
      BY <1>1 DEF AimGood, AimRecord, AimFields
    <2> HIDE DEF t
    <2>4. AimWeapons(t)
      BY <1>1, <2>2, <2>3 DEF AimGood, AimWeapons
    <2>5. AimMoves(t)
      BY <1>1, <2>3 DEF AimGood, AimMoves
    <2> QED
      BY <1>1, <2>1, <2>3, <2>4, <2>5 DEF AimGood
  <1>3. ASSUME ~(bad = "capture" /\ z.weapon # w)
        PROVE  AimGood(Aim!Applied(z, w, bad)) /\ Aim!Applied(z, w, bad).hand = z.hand
    <2> DEFINE values == [before.values EXCEPT ![w] = "ours"]
               had == IF before.weapon = w THEN before.weaponHad ELSE before.values[w]
               t == [before EXCEPT !.values = values, !.weapon = w, !.weaponHad = had]
               m == Aim!Remembered(before, w)
               u == [m EXCEPT !.values[w] = "ours"]
    <2>0. AimRecord(before)
      BY <1>1 DEF AimGood
    <2>1. Aim!Applied(z, w, bad) = u
      BY <1>3, <1>a
    <2>2. /\ DOMAIN values = Weapons /\ values = [v \in Weapons |-> values[v]]
          /\ \A v \in Weapons \ before.spoiltWeapons : values[v] = "own" \/ w = v
          /\ w \notin before.spoiltWeapons => had = "own"
      BY <1>1, WeaponAssumption DEF AimGood, AimWeapons
    <2>3. /\ AimRecord(u) /\ u.values = values /\ u.weapon = w /\ u.weaponHad = had
          /\ u.hand = before.hand /\ u.spoiltWeapons = before.spoiltWeapons /\ u.moves = before.moves
          /\ u.walker = before.walker /\ u.walkerHad = before.walkerHad /\ u.spoiltPlayers = before.spoiltPlayers
      <3>1. CASE before.weapon = w
        <4>1. m = before
          BY <3>1 DEF Aim!Remembered
        <4> HIDE DEF m
        <4>2. u = [before EXCEPT !.values = values]
          BY <4>1
        <4> HIDE DEF values, u
        <4> QED
          BY <2>0, <3>1, <4>2 DEF AimRecord, AimFields
      <3>2. CASE before.weapon # w
        <4>1. m = [before EXCEPT !.weapon = w, !.weaponHad = had]
          BY <3>2 DEF Aim!Remembered
        <4> HIDE DEF m, had
        <4>2. AimRecord(m) /\ m.values = before.values /\ m.weapon = w /\ m.weaponHad = had
              /\ m.hand = before.hand /\ m.spoiltWeapons = before.spoiltWeapons /\ m.moves = before.moves
              /\ m.walker = before.walker /\ m.walkerHad = before.walkerHad /\ m.spoiltPlayers = before.spoiltPlayers
          BY <2>0, <4>1 DEF AimRecord, AimFields
        <4>3. u = [m EXCEPT !.values = values]
          BY <4>2
        <4> HIDE DEF values, u
        <4> QED
          BY <4>2, <4>3 DEF AimRecord, AimFields
      <3> QED
        BY <3>1, <3>2
    <2> HIDE DEF values, had, u
    <2>4. AimWeapons(u)
      BY <1>1, <2>2, <2>3 DEF AimGood, AimWeapons
    <2>5. AimMoves(u)
      BY <1>1, <2>3 DEF AimGood, AimMoves
    <2> QED
      BY <1>1, <2>1, <2>3, <2>4, <2>5 DEF AimGood
  <1> QED
    BY <1>2, <1>3

LEMMA AimStopped ==
  ASSUME NEW z, AimGood(z), NEW bad, player # NoPlayer
  PROVE  AimGood(Aim!Stopped(z, bad)) /\ Aim!Stopped(z, bad).hand = z.hand
  <1> DEFINE before == IF z.walker = player THEN z ELSE Aim!RestoreMovement(z, bad)
  <1>1. /\ AimGood(before) /\ before.hand = z.hand /\ AimRecord(before)
        /\ before.walker = (IF z.walker = player THEN player ELSE NoPlayer)
        /\ z.walker = player => before = z
    BY AimRestoreMovement DEF AimGood
  <1> DEFINE spoiling == bad = "stop" /\ z.walker # player
             had == IF z.walker = player THEN z.walkerHad ELSE before.moves[player]
             value == IF spoiling THEN "other" ELSE "ours"
             moves == [before.moves EXCEPT ![player] = value]
             spoilt == IF spoiling THEN before.spoiltPlayers \cup {player} ELSE before.spoiltPlayers
             t == Aim!Stopped(z, bad)
  <1>a. /\ spoiling => t = [before EXCEPT !.moves[player] = "other", !.spoiltPlayers = @ \cup {player}]
        /\ ~spoiling => t = [before EXCEPT !.walker = player, !.moves[player] = "ours",
                                           !.walkerHad = IF z.walker = player THEN @ ELSE before.moves[player]]
    BY DEF Aim!Stopped
  <1> HIDE DEF before
  <1>2. /\ spoiling => t = [before EXCEPT !.moves = moves, !.spoiltPlayers = spoilt]
        /\ ~spoiling => t = [before EXCEPT !.walker = player, !.moves = moves, !.walkerHad = had]
    BY <1>1, <1>a
  <1>3. /\ DOMAIN moves = Persons /\ moves = [p \in Persons |-> moves[p]]
        /\ \A p \in Persons : moves[p] = IF p = player THEN value ELSE before.moves[p]
    BY <1>1 DEF AimGood, AimMoves
  <1>4. /\ spoiling \in BOOLEAN /\ (spoiling => spoilt = before.spoiltPlayers \cup {player})
        /\ (~spoiling => spoilt = before.spoiltPlayers)
        /\ ~spoiling /\ player \in Persons \ before.spoiltPlayers => had = "own"
    BY <1>1, PlayerAssumption, PersonAssumption DEF AimGood, AimMoves
  <1>9. spoiling => before.walker = NoPlayer
    BY <1>1
  <1> HIDE DEF spoiling, moves, spoilt, had, t, value
  <1>5. /\ AimRecord(t) /\ t.moves = moves /\ t.spoiltPlayers = spoilt
        /\ t.walker = (IF spoiling THEN before.walker ELSE player)
        /\ t.walkerHad = (IF spoiling THEN before.walkerHad ELSE had)
        /\ t.hand = before.hand /\ t.values = before.values /\ t.weapon = before.weapon
        /\ t.weaponHad = before.weaponHad /\ t.spoiltWeapons = before.spoiltWeapons
    BY ZenonT(60), <1>1, <1>2, <1>4 DEF AimRecord, AimFields
  <1>6. AimWeapons(t)
    BY <1>1, <1>5 DEF AimGood, AimWeapons
  <1>7. AimMoves(t)
    <2>1. CASE spoiling
      <3>1. \A p \in Persons \ before.spoiltPlayers : before.moves[p] = "own"
        BY <1>1, <1>9, <2>1, PlayerAssumption, PersonAssumption DEF AimGood, AimMoves
      <3> QED
        BY <1>3, <1>4, <1>5, <1>9, <2>1, <3>1, PlayerAssumption, PersonAssumption DEF AimMoves
    <2>2. CASE ~spoiling
      <3>1. \A p \in Persons \ before.spoiltPlayers : p = player \/ before.moves[p] = "own"
        BY <1>1, PlayerAssumption, PersonAssumption DEF AimGood, AimMoves
      <3> QED
        BY <1>3, <1>4, <1>5, <2>2, <3>1 DEF AimMoves
    <2> QED
      BY <1>4, <2>1, <2>2
  <1> QED
    BY <1>1, <1>5, <1>6, <1>7 DEF AimGood, t

\* The branches of a frame.
LEMMA AimLet ==
  ASSUME NEW z, AimGood(z), NEW t, AimLike(t, z) PROVE AimGood(t) /\ AimRecord(t) /\ t.hand = z.hand
  BY AimSame DEF AimGood, AimLike

LEMMA AimUnarmed ==
  ASSUME NEW z, AimGood(z), NEW busy, NEW bad PROVE AimGood(Aim!Unarmed(z, busy, bad))
  <1> DEFINE a == Aim!Unpublished(z)
             b == Aim!RestoreWeapon(a, bad)
             c == Aim!RestoreMovement(b, bad)
             d == Aim!ReleaseForced(c, busy, bad)
  <1>1. AimGood(a)
    BY AimUnpublished, AimLet DEF AimGood
  <1>2. AimGood(b)
    BY <1>1, AimRestoreWeapon
  <1>3. AimGood(c) /\ AimRecord(c)
    BY <1>2, AimRestoreMovement DEF AimGood
  <1> HIDE DEF c
  <1>4. AimGood(d) /\ AimRecord(d)
    BY <1>3, AimReleaseForced, AimLet
  <1> HIDE DEF d
  <1>5. AimGood([d EXCEPT !.frame = "idle"])
    BY <1>4, AimFramed, AimLet
  <1> QED
    BY <1>5 DEF Aim!Unarmed, d, c

\* What both a reset and a pause do.
LEMMA AimWithdrawn ==
  ASSUME NEW z, AimGood(z), NEW busy, NEW bad
  PROVE  LET r == Aim!ReleaseForced(Aim!Cleared(Aim!Unpublished(z), bad), busy, bad)
         IN  AimGood(r) /\ AimRecord(r)
  <1> DEFINE a == Aim!Unpublished(z)
             b == Aim!Cleared(a, bad)
             c == Aim!ReleaseForced(b, busy, bad)
  <1>1. AimGood(a) /\ AimRecord(a)
    BY AimUnpublished, AimLet DEF AimGood
  <1> HIDE DEF a
  <1>2. AimGood(b) /\ AimRecord(b)
    BY <1>1, AimCleared, AimLet
  <1> HIDE DEF b
  <1>3. AimGood(c) /\ AimRecord(c)
    BY <1>2, AimReleaseForced, AimLet
  <1> QED
    BY <1>3 DEF b, a

LEMMA AimReset ==
  ASSUME NEW z, AimGood(z), NEW busy, NEW bad PROVE AimGood(Aim!Reset(z, busy, bad))
  <1> DEFINE r == Aim!ReleaseForced(Aim!Cleared(Aim!Unpublished(z), bad), busy, bad)
             f == IF player = NoPlayer THEN [r EXCEPT !.forced = FALSE] ELSE r
             a == Aim!RestoreMovement(f, bad)
             b == Aim!RestoreWeapon(a, bad)
             c == Aim!Forgotten(b, "attack")
             d == [c EXCEPT !.frame = "settled"]
  <1>1. AimGood(r) /\ AimRecord(r)
    BY AimWithdrawn
  <1> HIDE DEF r
  <1>2. AimGood(f)
    <2>1. AimLike([r EXCEPT !.forced = FALSE], r)
      BY <1>1 DEF AimLike, AimRecord, AimFields
    <2> QED
      BY <1>1, <2>1, AimLet
  <1> HIDE DEF f
  <1>3. AimGood(a)
    BY <1>2, AimRestoreMovement
  <1>4. AimGood(b) /\ AimRecord(b)
    BY <1>3, AimRestoreWeapon DEF AimGood
  <1> HIDE DEF b
  <1>5. AimGood(c) /\ AimRecord(c)
    BY <1>4, AimForgotten, AimLet
  <1> HIDE DEF c
  <1>6. AimGood(d) /\ AimRecord(d)
    BY <1>5, AimFramed, AimLet
  <1> HIDE DEF d
  <1>7. AimGood(Aim!NoSecond(d))
    BY <1>6, AimNoSecond, AimLet
  <1> QED
    BY <1>7 DEF Aim!Reset, d, c, b, f, r

LEMMA AimPaused ==
  ASSUME NEW z, AimGood(z), NEW busy, NEW bad PROVE AimGood(Aim!Paused(z, busy, bad))
  <1> DEFINE r == Aim!ReleaseForced(Aim!Cleared(Aim!Unpublished(z), bad), busy, bad)
             a == Aim!RestoreMovement(r, bad)
             b == Aim!RestoreWeapon(a, bad)
             d == [b EXCEPT !.frame = "settled"]
  <1>1. AimGood(r)
    BY AimWithdrawn
  <1> HIDE DEF r
  <1>3. AimGood(a)
    BY <1>1, AimRestoreMovement
  <1>4. AimGood(b) /\ AimRecord(b)
    BY <1>3, AimRestoreWeapon DEF AimGood
  <1> HIDE DEF b
  <1>6. AimGood(d) /\ AimRecord(d)
    BY <1>4, AimFramed, AimLet
  <1> HIDE DEF d
  <1>7. AimGood(Aim!NoSecond(d))
    BY <1>6, AimNoSecond, AimLet
  <1> QED
    BY <1>7 DEF Aim!Paused, d, b, r

LEMMA AimTargeted ==
  ASSUME NEW z, AimGood(z), NEW s, NEW bad, player # NoPlayer
  PROVE  AimGood(Aim!Targeted(z, s, bad))
  <1> DEFINE moved == IF "stop" \in z.options THEN Aim!Stopped(z, bad) ELSE Aim!RestoreMovement(z, bad)
             entered == IF "automatic" \in z.options THEN [moved EXCEPT !.forced = @ \/ s.view = "aimed"]
                        ELSE Aim!ReleaseForced(moved, s.busy, bad)
             aimed == IF s.view = "aimed" THEN Aim!Aimed(entered, s.near, bad) ELSE Aim!Unpublished(entered)
             back == Aim!RestoreMovement(moved, bad)
             fired == IF s.view = "aimed" THEN Aim!Fired(aimed, s.due, bad) ELSE aimed
  <1>0. Aim!Targeted(z, s, bad) \in {[back EXCEPT !.frame = "idle"], [fired EXCEPT !.frame = "aiming"]}
    BY DEF Aim!Targeted
  <1>1. AimGood(moved) /\ AimRecord(moved)
    BY AimStopped, AimRestoreMovement DEF AimGood
  <1> HIDE DEF moved
  <1>2. AimGood(back) /\ AimRecord(back)
    BY <1>1, AimRestoreMovement DEF AimGood
  <1> HIDE DEF back
  <1>3. AimGood(entered) /\ AimRecord(entered)
    <2> DEFINE a == moved.forced \/ s.view = "aimed"
               t == [moved EXCEPT !.forced = a]
    <2>1. entered \in {t, Aim!ReleaseForced(moved, s.busy, bad)}
      OBVIOUS
    <2> HIDE DEF a
    <2>2. AimLike(t, moved)
      BY <1>1 DEF AimLike, AimRecord, AimFields
    <2> HIDE DEF t
    <2>3. AimLike(entered, moved)
      BY <1>1, <2>1, <2>2, AimReleaseForced
    <2> QED
      BY <1>1, <2>3, AimLet
  <1> HIDE DEF entered
  <1>4. AimGood(aimed) /\ AimRecord(aimed)
    <2>1. AimLike(aimed, entered)
      BY <1>3, AimAimed, AimUnpublished
    <2> QED
      BY <1>3, <2>1, AimLet
  <1> HIDE DEF aimed
  <1>5. AimGood(fired) /\ AimRecord(fired)
    BY <1>4, AimFired, AimLet
  <1> HIDE DEF fired
  <1>6. AimGood([back EXCEPT !.frame = "idle"]) /\ AimGood([fired EXCEPT !.frame = "aiming"])
    BY <1>2, <1>5, AimFramed, AimLet
  <1> QED
    BY <1>0, <1>6

LEMMA AimUntargeted ==
  ASSUME NEW z, AimGood(z), NEW s, NEW bad PROVE AimGood(Aim!Untargeted(z, s, bad))
  <1> DEFINE a == Aim!RestoreMovement(z, bad)
             b == Aim!ReleaseForced(a, s.busy, bad)
             c == Aim!Unpublished(b)
             d == Aim!Cleared(c, bad)
             e == [d EXCEPT !.frame = "idle"]
  <1>1. AimGood(a) /\ AimRecord(a)
    BY AimRestoreMovement DEF AimGood
  <1> HIDE DEF a
  <1>2. AimGood(b) /\ AimRecord(b)
    BY <1>1, AimReleaseForced, AimLet
  <1> HIDE DEF b
  <1>3. AimGood(c) /\ AimRecord(c)
    BY <1>2, AimUnpublished, AimLet
  <1> HIDE DEF c
  <1>4. AimGood(d) /\ AimRecord(d)
    BY <1>3, AimCleared, AimLet
  <1> HIDE DEF d
  <1>5. AimGood(e) /\ AimRecord(e)
    BY <1>4, AimFramed, AimLet
  <1> HIDE DEF e
  <1>6. AimGood(Aim!NoSecond(e))
    BY <1>5, AimNoSecond, AimLet
  <1> QED
    BY <1>6 DEF Aim!Untargeted, e, d, c, b, a

LEMMA AimArmed ==
  ASSUME NEW z, AimGood(z), NEW s, NEW bad, player # NoPlayer, z.hand # NoWeapon
  PROVE  AimGood(Aim!Armed(z, s, bad))
  <1> DEFINE due == IF "double" \notin z.options \/ s.expired THEN Aim!NoSecond(z) ELSE z
             sees == s.view # "nothing" \/ due.pending
             stopped == IF sees /\ "stop" \in z.options THEN Aim!Stopped(due, bad) ELSE due
             asked == IF sees THEN Aim!Requested(stopped, bad) ELSE stopped
             applied == Aim!Applied(asked, z.hand, bad)
             missed == [Aim!Unpublished(asked) EXCEPT !.frame = "aiming"]
             unread == [Aim!RestoreMovement(Aim!Unpublished(applied), bad) EXCEPT !.frame = "idle"]
  <1>0. Aim!Armed(z, s, bad) \in {missed, unread, Aim!Reset(applied, s.busy, bad),
                                  Aim!Targeted(applied, s, bad), Aim!Untargeted(applied, s, bad)}
    BY DEF Aim!Armed
  <1>1. z.hand \in Weapons
    BY DEF AimGood, AimWeapons
  <1>2. AimGood(due) /\ AimRecord(due)
    BY AimNoSecond, AimLet DEF AimGood
  <1> HIDE DEF due
  <1>3. AimGood(stopped) /\ AimRecord(stopped)
    BY <1>2, AimStopped DEF AimGood
  <1> HIDE DEF stopped
  <1>4. AimGood(asked) /\ AimRecord(asked)
    BY <1>3, AimRequested, AimLet
  <1> HIDE DEF asked
  <1>5. AimGood(applied) /\ AimRecord(applied)
    BY <1>1, <1>4, AimApplied DEF AimGood
  <1> HIDE DEF applied
  <1>6. AimGood(missed)
    <2> DEFINE u == Aim!Unpublished(asked)
    <2>1. AimGood(u) /\ AimRecord(u)
      BY <1>4, AimUnpublished, AimLet
    <2> HIDE DEF u
    <2>2. AimGood([u EXCEPT !.frame = "aiming"])
      BY <2>1, AimFramed, AimLet
    <2> QED
      BY <2>2 DEF u
  <1>7. AimGood(unread)
    <2> DEFINE u == Aim!Unpublished(applied)
               v == Aim!RestoreMovement(u, bad)
    <2>1. AimGood(u)
      BY <1>5, AimUnpublished, AimLet
    <2>2. AimGood(v) /\ AimRecord(v)
      BY <2>1, AimRestoreMovement DEF AimGood
    <2> HIDE DEF v
    <2>3. AimGood([v EXCEPT !.frame = "idle"])
      BY <2>2, AimFramed, AimLet
    <2> QED
      BY <2>3 DEF v
  <1> HIDE DEF missed, unread
  <1> QED
    BY <1>0, <1>5, <1>6, <1>7, AimReset, AimTargeted, AimUntargeted

LEMMA AimUpdated ==
  ASSUME NEW z, AimGood(z), NEW s, NEW bad PROVE AimGood(Aim!Updated(z, s, bad))
  <1> DEFINE polled == Aim!Polled(z, "attack", bad)
  <1>1. AimGood(polled) /\ polled.hand = z.hand
    BY AimPolled, AimLet DEF AimGood
  <1>2. \/ Aim!Updated(z, s, bad) \in {Aim!Reset(polled, s.busy, bad), Aim!Unarmed(polled, s.busy, bad),
                                       Aim!Paused(polled, s.busy, bad)}
        \/ player # NoPlayer /\ z.hand # NoWeapon /\ Aim!Updated(z, s, bad) = Aim!Armed(polled, s, bad)
    BY DEF Aim!Updated
  <1> HIDE DEF polled
  <1>3. AimGood(Aim!Reset(polled, s.busy, bad)) /\ AimGood(Aim!Unarmed(polled, s.busy, bad))
        /\ AimGood(Aim!Paused(polled, s.busy, bad))
    BY <1>1, AimReset, AimUnarmed, AimPaused
  <1>4. player # NoPlayer /\ z.hand # NoWeapon => AimGood(Aim!Armed(polled, s, bad))
    BY <1>1, AimArmed
  <1> QED
    BY <1>2, <1>3, <1>4

LEMMA AimReleaseAim == ASSUME NEW z, AimRecord(z) PROVE AimLike(Aim!ReleaseAim(z), z)
  <1> DEFINE a == IF z.actor # NoPlayer /\ z.actor = player
                  THEN [z.force EXCEPT ![player] = z.previous] ELSE z.force
             t == [z EXCEPT !.actor = NoPlayer, !.force = a]
  <1>1. Aim!ReleaseAim(z) = t
    BY DEF Aim!ReleaseAim
  <1> HIDE DEF a
  <1> QED
    BY <1>1 DEF AimLike, AimRecord, AimFields

LEMMA AimForceAim == ASSUME NEW z, AimRecord(z), NEW who PROVE AimLike(Aim!ForceAim(z, who), z)
  <1> DEFINE a == IF z.actor = NoPlayer THEN who ELSE z.actor
             b == IF z.actor = NoPlayer THEN z.force[who] ELSE z.previous
             f == [z.force EXCEPT ![who] = "ours"]
             t == [z EXCEPT !.actor = a, !.previous = b, !.force = f]
  <1>1. Aim!ForceAim(z, who) = t
    BY DEF Aim!ForceAim
  <1> HIDE DEF a, b, f
  <1> QED
    BY <1>1 DEF AimLike, AimRecord, AimFields

LEMMA AimDone ==
  ASSUME NEW z, AimRecord(z), NEW call, Aim!Done(z, call) PROVE AimLike(state', z)
  <1> DEFINE a == [z.calls EXCEPT ![call] = "done"]
             b == z.strays \ {call}
             t == [z EXCEPT !.calls = a]
             u == [z EXCEPT !.strays = b]
  <1>1. state' \in {t, u}
    BY DEF Aim!Done
  <1> HIDE DEF a, b
  <1>2. AimLike(t, z) /\ AimLike(u, z)
    BY DEF AimLike, AimRecord, AimFields
  <1> QED
    BY <1>1, <1>2

LEMMA AimGameThread == ASSUME AimGood(state), Aim!GameThread PROVE AimGood(state')
  <1>0. AimRecord(state)
    BY DEF AimGood
  <1>1. CASE Aim!Begin
    <2> DEFINE t == [state EXCEPT !.making = state.requested]
               u == [state EXCEPT !.prepared = Aim!NoRequest]
    <2>1. state' = t \/ Aim!Done(u, "prepare")
      BY <1>1 DEF Aim!Begin
    <2>2. AimLike(t, state) /\ AimLike(u, state)
      BY <1>0 DEF AimLike, AimRecord, AimFields
    <2> HIDE DEF t, u
    <2>3. Aim!Done(u, "prepare") => AimLike(state', state)
      BY <2>2, AimDone, AimOnward DEF AimLike
    <2> QED
      BY <2>1, <2>2, <2>3, AimLet
  <1>2. CASE Aim!Done(Aim!ReleaseAim(state), "release")
    <2> DEFINE r == Aim!ReleaseAim(state)
    <2>1. AimLike(r, state) /\ AimRecord(r)
      BY <1>0, AimReleaseAim DEF AimLike
    <2> HIDE DEF r
    <2>2. AimLike(state', r)
      BY <1>2, <2>1, AimDone DEF r
    <2> QED
      BY <2>1, <2>2, AimOnward, AimLet
  <1>3. CASE Aim!Done(state, "attack")
    BY <1>0, <1>3, AimDone, AimLet
  <1>4. ASSUME NEW found \in BOOLEAN, Aim!Prepare(found) PROVE AimGood(state')
    <2> DEFINE want == state.making
               forced == IF want.automatic THEN Aim!ForceAim(state, want.who) ELSE Aim!ReleaseAim(state)
               ready == found /\ Aim!Same(want, state.requested)
               given == IF ready THEN want ELSE Aim!NoRequest
               t == [forced EXCEPT !.making = Aim!NoRequest, !.prepared = given]
    <2>1. Aim!Done(t, "prepare")
      BY <1>4 DEF Aim!Prepare
    <2>2. AimLike(forced, state)
      BY <1>0, AimForceAim, AimReleaseAim
    <2> HIDE DEF forced, given
    <2>3. AimLike(t, state)
      BY <2>2 DEF AimLike, AimRecord, AimFields
    <2> HIDE DEF t
    <2>4. AimLike(state', t)
      BY <2>1, <2>3, AimDone DEF AimLike
    <2> QED
      BY <2>3, <2>4, AimOnward, AimLet
  <1> QED
    BY <1>1, <1>2, <1>3, <1>4 DEF Aim!GameThread

LEMMA AimStep == AimInv /\ [Aim!Next]_all => AimInv'
  <1> SUFFICES ASSUME AimGood(state), [Aim!Next]_all PROVE AimGood(state')
    BY DEF AimInv, AimGood, AimRecord, AimWeapons, AimMoves, AimFields
  <1>0. AimRecord(state) /\ state.hand \in Weapons \cup {NoWeapon}
    BY DEF AimGood, AimWeapons
  <1>1. ASSUME NEW w \in Weapons \cup {NoWeapon}, state' = [state EXCEPT !.hand = w] PROVE AimGood(state')
    <2>1. /\ AimRecord(state') /\ state'.hand = w
          /\ state'.values = state.values /\ state'.weapon = state.weapon
          /\ state'.weaponHad = state.weaponHad /\ state'.spoiltWeapons = state.spoiltWeapons
          /\ state'.moves = state.moves /\ state'.walker = state.walker
          /\ state'.walkerHad = state.walkerHad /\ state'.spoiltPlayers = state.spoiltPlayers
      BY <1>0, <1>1 DEF AimRecord, AimFields
    <2> QED
      BY <2>1 DEF AimGood, AimWeapons, AimMoves
  <1>2. Aim!Live => AimGood(state')
    BY <1>1 DEF Aim!Live
  <1>3. Aim!Take => AimGood(state')
    BY <1>1 DEF Aim!Take
  <1>4. Aim!Set => AimGood(state')
    <2> SUFFICES ASSUME NEW a, state' = [state EXCEPT !.options = a] PROVE AimGood(state')
      BY DEF Aim!Set
    <2>1. AimLike(state', state)
      BY <1>0 DEF AimLike, AimRecord, AimFields
    <2> QED
      BY <2>1, AimLet
  <1>5. Aim!Expire => AimGood(state')
    <2> SUFFICES ASSUME NEW a, state' \in {[state EXCEPT !.requested = a], [state EXCEPT !.prepared = a]}
                 PROVE AimGood(state')
      BY DEF Aim!Expire
    <2>1. AimLike(state', state)
      BY <1>0 DEF AimLike, AimRecord, AimFields
    <2> QED
      BY <2>1, AimLet
  <1>6. Aim!Frame => AimGood(state')
    <2> SUFFICES ASSUME NEW s, NEW bad, NEW a,
                        state' = [Aim!Updated(state, s, bad) EXCEPT !.caught = a]
                 PROVE AimGood(state')
      BY DEF Aim!Frame
    <2> DEFINE u == Aim!Updated(state, s, bad)
    <2>1. AimGood(u) /\ AimRecord(u)
      BY AimUpdated DEF AimGood
    <2> HIDE DEF u
    <2>2. AimLike([u EXCEPT !.caught = a], u)
      BY <2>1 DEF AimLike, AimRecord, AimFields
    <2>3. AimGood([u EXCEPT !.caught = a])
      BY <2>1, <2>2, AimLet
    <2> QED
      BY <2>3 DEF u
  <1>7. CASE UNCHANGED all
    BY <1>7 DEF all
  <1> QED
    BY <1>2, <1>3, <1>4, <1>5, <1>6, <1>7, AimGameThread DEF Aim!Next

LEMMA AimKept == AimInv => Aim!ChangedIsRemembered /\ Aim!RememberedIsTheGames
  BY DEF AimInv, AimGood, AimWeapons, AimMoves, Aim!ChangedIsRemembered, Aim!RememberedIsTheGames

-----------------------------------------------------------------------------
(* PlayerHealth: the server takes a body to be hurt only where that is so, or where the message
   about the restored one was too soon for it. *)

Health == INSTANCE PlayerHealth WITH health <- state

HealthFields ==
  {"wanted", "initialized", "available", "applied", "owner", "previous", "guard", "own", "lost",
   "infinite", "hurt", "hurtOnServer", "recent", "swallowed"}

HealthGood(h, online) ==
  /\ DOMAIN h = HealthFields
  /\ h.hurtOnServer => online /\ (h.hurt \/ h.swallowed)

HealthInv == HealthGood(state, session = "multiplayer")

\* What differs in flags only.
HealthLike(t, h) ==
  /\ DOMAIN t = HealthFields
  /\ t.hurt = h.hurt /\ t.hurtOnServer = h.hurtOnServer /\ t.swallowed = h.swallowed

LEMMA HealthInit == Health!Init => HealthInv
  BY DEF Health!Init, HealthInv, HealthGood, HealthFields

LEMMA HealthSame ==
  ASSUME NEW h, NEW t, NEW online, HealthGood(h, online), HealthLike(t, h)
  PROVE  HealthGood(t, online)
  BY DEF HealthGood, HealthLike

LEMMA HealthProtection ==
  ASSUME NEW h, DOMAIN h = HealthFields, NEW fails
  PROVE  \A t \in Health!Protection(h, fails) : HealthLike(t, h)
  <1>1. \A ok : HealthLike(Health!Removed(h, ok), h)
    BY DEF HealthLike, HealthFields, Health!Removed
  <1>2. HealthLike(Health!Taken(h), h)
    BY <1>1 DEF HealthLike, Health!Taken
  <1> HIDE DEF HealthLike
  <1>3. HealthLike(Health!Protected(h), h)
    <2> DEFINE t == Health!Taken(h)
    <2>1. \E p, g : Health!Protected(h) = [t EXCEPT !.previous = p, !.applied = TRUE, !.owner = player, !.guard = g]
      BY <1>2 DEF Health!Protected, HealthLike, HealthFields
    <2> QED
      BY <1>2, <2>1 DEF HealthLike, HealthFields
  <1>4. \A g : HealthLike([Health!Protected(h) EXCEPT !.guard = g], h)
    BY <1>3 DEF HealthLike, HealthFields
  <1> QED
    BY <1>1, <1>2, <1>3, <1>4 DEF Health!Protection

LEMMA HealthBody ==
  ASSUME NEW h, HealthGood(h, Health!Online), NEW fails
  PROVE  \A t \in Health!Body(h, fails) : HealthGood(t, Health!Online)
  <1>1. ASSUME h.hurt, NEW told, ~told => ~Health!Online \/ h.recent
        PROVE  HealthGood(Health!Restored(h, told), Health!Online)
    <2> DEFINE there == h.hurtOnServer /\ ~told
               recent == told \/ h.recent
               swallowed == (h.swallowed /\ ~told) \/ (Health!Online /\ h.recent)
               r == Health!Restored(h, told)
    <2>1. r = [h EXCEPT !.hurt = FALSE, !.hurtOnServer = there, !.recent = recent, !.swallowed = swallowed]
      BY DEF Health!Restored
    <2>2. there => Health!Online /\ swallowed
      BY <1>1 DEF HealthGood
    <2> HIDE DEF there, recent, swallowed, r
    <2>3. DOMAIN r = HealthFields /\ r.hurtOnServer = there /\ r.swallowed = swallowed
      BY <2>1 DEF HealthGood, HealthFields
    <2> QED
      BY <2>2, <2>3 DEF HealthGood, r
  <1>2. HealthGood([Health!Restored(h, FALSE) EXCEPT !.swallowed = Health!Online], Health!Online)
    <2> DEFINE there == h.hurtOnServer /\ ~FALSE
               recent == FALSE \/ h.recent
               swallowed == (h.swallowed /\ ~FALSE) \/ (Health!Online /\ h.recent)
               r == Health!Restored(h, FALSE)
               online == Health!Online
               t == [r EXCEPT !.swallowed = online]
    <2>1. r = [h EXCEPT !.hurt = FALSE, !.hurtOnServer = there, !.recent = recent, !.swallowed = swallowed]
      BY DEF Health!Restored
    <2>2. there => online
      BY DEF HealthGood
    <2> HIDE DEF there, recent, swallowed, r, online
    <2>3. DOMAIN t = HealthFields /\ t.hurtOnServer = there /\ t.swallowed = online
      BY <2>1 DEF HealthGood, HealthFields
    <2> HIDE DEF t
    <2>4. HealthGood(t, online)
      BY <2>2, <2>3 DEF HealthGood
    <2> QED
      BY <2>4 DEF t, online, r
  <1> QED
    BY <1>1, <1>2 DEF Health!Body

LEMMA HealthStep == HealthInv /\ [Health!Next]_all => HealthInv'
  <1> SUFFICES ASSUME HealthGood(state, Health!Online), [Health!Next]_all PROVE HealthGood(state', session' = "multiplayer")
    BY DEF HealthInv, HealthGood, HealthFields, Health!Online
  <1> DEFINE Stays == session' = session /\ HealthGood(state', Health!Online)
  <1>0. DOMAIN state = HealthFields
    BY DEF HealthGood
  <1>1. CASE Health!Live
    BY <1>0, <1>1 DEF Health!Live, HealthGood, HealthFields
  <1>2. ASSUME Health!Damage PROVE Stays
    <2> DEFINE online == Health!Online
    <2>1. state' = [state EXCEPT !.hurt = TRUE, !.hurtOnServer = online] /\ session' = session
      BY <1>2 DEF Health!Damage, Health!game
    <2> HIDE DEF online
    <2>2. DOMAIN state' = HealthFields /\ state'.hurt = TRUE /\ state'.hurtOnServer = online
      BY <1>0, <2>1 DEF HealthFields
    <2> QED
      BY <2>1, <2>2 DEF HealthGood, online
  <1>3. ASSUME Health!Elapse PROVE Stays
    <2>1. HealthLike(state', state)
      BY <1>0, <1>3 DEF Health!Elapse, HealthLike, HealthFields
    <2> QED
      BY <1>3, <2>1, HealthSame DEF Health!Elapse, Health!game
  <1>4. ASSUME NEW on \in BOOLEAN, Health!SetInfiniteHealthEnabled(on) \/ Health!SetInvincibilityEnabled(on)
        PROVE  Stays
    <2>1. HealthLike(state', state)
      BY <1>0, <1>4 DEF Health!SetInfiniteHealthEnabled, Health!SetInvincibilityEnabled, HealthLike, HealthFields
    <2> QED
      BY <1>4, <2>1, HealthSame DEF Health!SetInfiniteHealthEnabled, Health!SetInvincibilityEnabled, Health!game
  <1>5. ASSUME Health!Update PROVE Stays
    <2>1. session' = session
      BY <1>5 DEF Health!Update, Health!game
    <2>2. CASE Health!UpdateUninitialized
      <3>1. HealthLike(state', state)
        BY <1>0, <2>2 DEF Health!UpdateUninitialized, HealthLike, HealthFields
      <3> QED
        BY <2>1, <3>1, HealthSame
    <2>3. CASE Health!UpdateReady
      <3>1. PICK available \in BOOLEAN, failing \in {"nothing", "flags", "body"} :
              \E h \in Health!Protection(Health!Ready(available), failing = "flags") :
                state' \in Health!Body(h, failing = "body")
        BY <2>3 DEF Health!UpdateReady
      <3>2. HealthLike(Health!Ready(available), state)
        BY <1>0 DEF Health!Ready, HealthLike, HealthFields
      <3>3. \A h \in Health!Protection(Health!Ready(available), failing = "flags") : HealthLike(h, state)
        BY <3>2, HealthProtection DEF HealthLike
      <3> QED
        BY <2>1, <3>1, <3>3, HealthSame, HealthBody
    <2> QED
      BY <1>5, <2>2, <2>3 DEF Health!Update
  <1>6. ASSUME UNCHANGED all PROVE Stays
    BY <1>6 DEF all, game
  <1> QED
    BY <1>1, <1>2, <1>3, <1>4, <1>5, <1>6 DEF Health!Next, Health!Online

LEMMA HealthKept == HealthInv => Health!ServerKnowsTheBody
  BY DEF HealthInv, HealthGood, Health!ServerKnowsTheBody

-----------------------------------------------------------------------------
(* PlayerMovement: walking through walls is declared to the server. *)

Movement == INSTANCE PlayerMovement WITH movement <- state

MovementFields ==
  {"requested", "applied", "noClip", "declared", "settled", "age", "waiting", "ready", "bound", "told", "carried",
   "misread"}

\* What is declared was declared by bindings that are there, to this server or to an earlier
\* one, and what counts as ready is declared.
MovementGood(m) ==
  /\ DOMAIN m = MovementFields
  /\ m.declared => m.bound /\ (m.told \/ m.carried)
  /\ m.ready => m.declared

MovementClips(m, online) == online /\ m.noClip => m.declared \/ m.misread

MovementInv ==
  /\ MovementGood(state)
  /\ player # NoPlayer => MovementClips(state, session = "multiplayer")

LEMMA MovementInit == Movement!Init => MovementInv
  BY DEF Movement!Init, MovementInv, MovementGood, MovementClips, MovementFields

\* The server is told, or nothing changes for it; while the state is wanted it stays declared.
LEMMA MovementNetwork ==
  ASSUME NEW m, MovementGood(m), m.bound, NEW sent
  PROVE  LET n == Movement!NetworkState(m, TRUE, sent)
             o == Movement!NetworkState(m, FALSE, sent) IN
         /\ MovementGood(n) /\ n.noClip = m.noClip /\ n.misread = m.misread /\ (m.declared => n.declared)
         /\ MovementGood(o) /\ o.noClip = m.noClip /\ o.misread = m.misread
  <1> DEFINE n == Movement!NetworkState(m, TRUE, sent)
             o == Movement!NetworkState(m, FALSE, sent)
  <1>1. ASSUME NEW x, MovementGood(x), x.noClip = m.noClip, x.misread = m.misread, x.bound
        PROVE  LET r == Movement!Relied(x) IN
               MovementGood(r) /\ r.noClip = m.noClip /\ r.misread = m.misread /\ (x.declared => r.declared)
    <2> DEFINE ready == x.declared /\ x.settled /\ x.age \in {"fresh", "due"}
               r == [x EXCEPT !.ready = ready]
    <2>1. ready => x.declared
      OBVIOUS
    <2>2. Movement!Relied(x) = r
      BY DEF Movement!Relied
    <2> HIDE DEF ready
    <2>3. /\ DOMAIN r = MovementFields /\ r.ready = ready /\ r.noClip = m.noClip /\ r.misread = m.misread /\ r.bound = x.bound
          /\ r.declared = x.declared /\ r.told = x.told /\ r.carried = x.carried
      BY <1>1 DEF MovementGood, MovementFields
    <2> HIDE DEF r
    <2> QED
      BY <1>1, <2>1, <2>2, <2>3 DEF MovementGood
  <1>2. MovementGood(n) /\ n.noClip = m.noClip /\ n.misread = m.misread /\ (m.declared => n.declared)
    <2>1. CASE (m.declared /\ m.age = "fresh") \/ m.waiting
      BY <1>1, <2>1 DEF Movement!NetworkState, Movement!Declared
    <2>2. CASE ~((m.declared /\ m.age = "fresh") \/ m.waiting) /\ ~sent
      <3> DEFINE x == [m EXCEPT !.waiting = TRUE]
      <3>1. MovementGood(x) /\ x.noClip = m.noClip /\ x.misread = m.misread /\ x.bound /\ x.declared = m.declared
        BY DEF MovementGood, MovementFields
      <3>2. n = Movement!Relied(x)
        BY <2>2 DEF Movement!NetworkState, Movement!Declared
      <3> QED
        BY <1>1, <3>1, <3>2
    <2>3. CASE ~((m.declared /\ m.age = "fresh") \/ m.waiting) /\ sent
      <3> DEFINE carried == m.carried /\ m.declared
                 x == [m EXCEPT !.waiting = TRUE, !.declared = TRUE, !.age = "fresh",
                         !.told = TRUE, !.carried = carried]
      <3>1. n = Movement!Relied(x)
        BY <2>3 DEF Movement!NetworkState, Movement!Declared
      <3> HIDE DEF carried
      <3>2. MovementGood(x) /\ x.noClip = m.noClip /\ x.misread = m.misread /\ x.bound /\ x.declared
        BY DEF MovementGood, MovementFields
      <3> HIDE DEF x, n
      <3> QED
        BY <1>1, <3>1, <3>2
    <2> QED
      BY <2>1, <2>2, <2>3
  <1>3. MovementGood(o) /\ o.noClip = m.noClip /\ o.misread = m.misread
    BY DEF MovementGood, MovementFields, Movement!NetworkState, Movement!Withdrawn
  <1> QED
    BY <1>2, <1>3

LEMMA MovementSwitched ==
  ASSUME NEW m, MovementGood(m), NEW on, NEW ok
  PROVE  LET s == Movement!Switched(m, on, ok) IN
         /\ MovementGood(s) /\ s.bound = m.bound /\ s.declared = m.declared
         /\ s.noClip = IF ok THEN on ELSE m.noClip
         /\ ~ok => s.misread = m.misread
  <1>1. [m EXCEPT !.noClip = on, !.applied = on, !.misread = FALSE].noClip = on
    BY DEF MovementGood, MovementFields
  <1> QED
    BY <1>1 DEF MovementGood, MovementFields, Movement!Switched

LEMMA MovementStep == MovementInv /\ [Movement!Next]_all => MovementInv'
  <1> SUFFICES ASSUME MovementInv, [Movement!Next]_all PROVE MovementInv'
    OBVIOUS
  <1>0. MovementGood(state) /\ DOMAIN state = MovementFields
    BY DEF MovementInv, MovementGood
  <1> DEFINE Goal(online) == MovementGood(state') /\ (player # NoPlayer => MovementClips(state', online))
             Stays == session' = session /\ player' = player /\ Goal(Movement!Online)
             bound == [state EXCEPT !.bound = TRUE]
  <1>1. MovementInv' <=> MovementGood(state') /\ (player' # NoPlayer => MovementClips(state', session' = "multiplayer"))
    BY DEF MovementInv, MovementGood, MovementClips, MovementFields
  <1>2. Stays => MovementInv'
    BY <1>1 DEF Movement!Online
  <1>3. CASE Movement!Live
    <2> DEFINE left == player' = NoPlayer
               told == state.told /\ ~left
               carried == state.carried \/ (left /\ state.declared)
    <2>1. state' = [state EXCEPT !.noClip = FALSE, !.told = told, !.carried = carried]
      BY <1>3 DEF Movement!Live
    <2>2. state.declared => told \/ carried
      BY <1>0 DEF MovementGood
    <2> HIDE DEF told, carried
    <2>3. /\ DOMAIN state' = MovementFields /\ state'.noClip = FALSE /\ state'.declared = state.declared
          /\ state'.told = told /\ state'.carried = carried /\ state'.bound = state.bound
          /\ state'.ready = state.ready
      BY <1>0, <2>1 DEF MovementFields
    <2> QED
      BY <1>0, <1>1, <2>2, <2>3 DEF MovementGood, MovementClips
  <1>4. ASSUME Movement!Elapse \/ \E on \in BOOLEAN : Movement!SetNoClipEnabled(on)
        PROVE  Stays
    <2>1. session' = session /\ player' = player
      BY <1>4 DEF Movement!Elapse, Movement!SetNoClipEnabled, Movement!game
    <2>2. \/ \E a : state' = [state EXCEPT !.age = a]
          \/ state' = [state EXCEPT !.settled = TRUE]
          \/ state' = [state EXCEPT !.waiting = FALSE]
          \/ \E on : state' = [state EXCEPT !.requested = on]
      BY <1>4 DEF Movement!Elapse, Movement!SetNoClipEnabled
    <2>3. /\ DOMAIN state' = MovementFields /\ state'.noClip = state.noClip /\ state'.declared = state.declared
          /\ state'.told = state.told /\ state'.carried = state.carried /\ state'.bound = state.bound
          /\ state'.ready = state.ready /\ state'.misread = state.misread
      BY <1>0, <2>2 DEF MovementFields
    <2> QED
      BY <2>1, <2>3 DEF MovementInv, MovementGood, MovementClips, Movement!Online
  <1>5. MovementGood(bound) /\ bound.bound /\ bound.noClip = state.noClip /\ bound.declared = state.declared
        /\ bound.misread = state.misread
    BY <1>0 DEF MovementGood, MovementFields
  <1>6. player # NoPlayer /\ Movement!Online /\ bound.noClip => bound.declared \/ bound.misread
    BY <1>5 DEF MovementInv, MovementClips, Movement!Online
  <1> HIDE DEF bound
  <1>7. ASSUME NEW ok, NEW sent, player # NoPlayer,
               Movement!SwitchOff(ok, sent) \/ Movement!SwitchOn(ok, sent) \/ Movement!PlayLocally(ok, sent)
        PROVE  Goal(Movement!Online)
    <2>1. CASE Movement!SwitchOff(ok, sent)
      <3> DEFINE off == Movement!Switched(bound, FALSE, ok)
      <3>1. MovementGood(off) /\ off.bound /\ off.declared = bound.declared
            /\ off.noClip = (IF ok THEN FALSE ELSE bound.noClip) /\ (~ok => off.misread = bound.misread)
        BY <1>5, MovementSwitched
      <3>2. state' = Movement!NetworkState(off, ~ok, sent)
        BY <2>1 DEF Movement!SwitchOff, bound
      <3> HIDE DEF off
      <3>3. CASE ok
        <4>1. state' = Movement!NetworkState(off, FALSE, sent)
          BY <3>2, <3>3 DEF Movement!NetworkState
        <4>2. MovementGood(state') /\ state'.noClip = off.noClip
          BY <3>1, <4>1, MovementNetwork
        <4> QED
          BY <3>1, <3>3, <4>2 DEF MovementClips
      <3>4. CASE ~ok
        <4>1. state' = Movement!NetworkState(off, TRUE, sent)
          BY <3>2, <3>4 DEF Movement!NetworkState
        <4>2. MovementGood(state') /\ state'.noClip = off.noClip /\ state'.misread = off.misread
              /\ (off.declared => state'.declared)
          BY <3>1, <4>1, MovementNetwork
        <4> QED
          BY <1>6, <1>7, <3>1, <3>4, <4>2 DEF MovementClips
      <3> QED
        BY <3>3, <3>4
    <2>2. CASE Movement!SwitchOn(ok, sent)
      <3> DEFINE m == Movement!NetworkState(bound, TRUE, sent)
      <3>1. MovementGood(m) /\ m.noClip = bound.noClip /\ m.misread = bound.misread /\ (bound.declared => m.declared)
        BY <1>5, MovementNetwork
      <3>2. state' = Movement!Switched(m, m.ready, ok)
        BY <2>2 DEF Movement!SwitchOn, bound
      <3> HIDE DEF m
      <3>3. MovementGood(state') /\ state'.declared = m.declared
            /\ state'.noClip = (IF ok THEN m.ready ELSE m.noClip) /\ (~ok => state'.misread = m.misread)
        BY <3>1, <3>2, MovementSwitched
      <3>4. m.ready => m.declared
        BY <3>1 DEF MovementGood
      <3> QED
        BY <1>6, <1>7, <3>1, <3>3, <3>4 DEF MovementClips
    <2>3. CASE Movement!PlayLocally(ok, sent)
      <3> DEFINE m == Movement!NetworkState(bound, FALSE, sent)
      <3>1. MovementGood(m)
        BY <1>5, MovementNetwork
      <3>2. state' = Movement!Switched(m, state.requested, ok) /\ ~Movement!Online
        BY <2>3 DEF Movement!PlayLocally, bound
      <3> QED
        BY <3>1, <3>2, MovementSwitched DEF MovementClips
    <2> QED
      BY <1>7, <2>1, <2>2, <2>3
  <1>8. ASSUME NEW ok, player # NoPlayer, Movement!UpdateUnbound(ok) PROVE Goal(Movement!Online)
    <2> DEFINE u == Movement!Unbound(state)
               on == ~Movement!Online /\ state.requested
               s == Movement!Switched(u, on, ok)
               requested == s.requested /\ ~Movement!Online
    <2>1. state' = [s EXCEPT !.requested = requested] /\ ~state.bound
      BY <1>8 DEF Movement!UpdateUnbound
    <2>2. MovementGood(u) /\ u.noClip = state.noClip /\ u.misread = state.misread
      BY <1>0 DEF Movement!Unbound, MovementGood, MovementFields
    <2>3. ~state.declared
      BY <1>0, <2>1 DEF MovementGood
    <2>4. Movement!Online => ~on
      OBVIOUS
    <2> HIDE DEF u, on
    <2>5. MovementGood(s) /\ s.noClip = (IF ok THEN on ELSE u.noClip) /\ (~ok => s.misread = u.misread)
      BY <2>2, MovementSwitched
    <2> HIDE DEF s, requested
    <2>6. /\ DOMAIN state' = MovementFields /\ state'.noClip = s.noClip /\ state'.declared = s.declared
          /\ state'.told = s.told /\ state'.carried = s.carried /\ state'.bound = s.bound
          /\ state'.ready = s.ready /\ state'.misread = s.misread
      BY <2>1, <2>5 DEF MovementGood, MovementFields
    <2>7. MovementGood(state')
      BY <2>5, <2>6 DEF MovementGood
    <2>8. Movement!Online /\ state'.noClip => state'.misread
      <3>1. Movement!Online /\ state.noClip => state.misread
        BY <1>8, <2>3 DEF MovementInv, MovementClips, Movement!Online
      <3> QED
        BY <2>2, <2>4, <2>5, <2>6, <3>1
    <2> QED
      BY <2>7, <2>8 DEF MovementClips
  <1>11. ASSUME NEW ok, NEW sent, Movement!Misread(ok, sent) PROVE Goal(Movement!Online)
    <2> DEFINE n == Movement!NetworkState(bound, FALSE, sent)
               u == Movement!Unbound(state)
    <2>1. PICK m \in {n, u} :
            state' = [Movement!Switched(m, state.requested, ok) EXCEPT !.misread = TRUE]
      BY <1>11 DEF Movement!Misread, bound
    <2>2. MovementGood(n)
      BY <1>5, MovementNetwork
    <2>3. MovementGood(u)
      BY <1>0 DEF Movement!Unbound, MovementGood, MovementFields
    <2>4. MovementGood(m)
      BY <2>2, <2>3
    <2> HIDE DEF n, u
    <2> DEFINE s == Movement!Switched(m, state.requested, ok)
    <2>5. MovementGood(s)
      BY <2>4, MovementSwitched
    <2>6. state' = [s EXCEPT !.misread = TRUE]
      BY <2>1
    <2> HIDE DEF s
    <2> QED
      BY <2>5, <2>6 DEF MovementGood, MovementClips, MovementFields
  <1>9. ASSUME Movement!Update PROVE Stays
    <2>1. session' = session /\ player' = player
      BY <1>9 DEF Movement!Update, Movement!game
    <2>2. CASE Movement!UpdateWithoutPlayer
      BY <1>0, <2>1, <2>2 DEF Movement!UpdateWithoutPlayer, MovementGood, MovementFields
    <2>3. CASE player # NoPlayer /\ \E ok, sent \in BOOLEAN :
                 \/ Movement!SwitchOff(ok, sent) \/ Movement!SwitchOn(ok, sent)
                 \/ Movement!PlayLocally(ok, sent) \/ Movement!Misread(ok, sent)
                 \/ Movement!UpdateUnbound(ok)
      BY <1>7, <1>8, <1>11, <2>1, <2>3
    <2>4. Movement!UpdateWithoutPlayer \/ (player # NoPlayer /\ \E ok, sent \in BOOLEAN :
                 \/ Movement!SwitchOff(ok, sent) \/ Movement!SwitchOn(ok, sent)
                 \/ Movement!PlayLocally(ok, sent) \/ Movement!Misread(ok, sent)
                 \/ Movement!UpdateUnbound(ok))
      BY <1>9 DEF Movement!Update
    <2> QED
      BY <2>2, <2>3, <2>4
  <1>10. ASSUME UNCHANGED all PROVE MovementInv'
    BY <1>10 DEF all, game, MovementInv, MovementGood, MovementClips, MovementFields
  <1> QED
    BY <1>2, <1>3, <1>4, <1>9, <1>10 DEF Movement!Next

LEMMA MovementKept == MovementInv => Movement!NoClipIsDeclared /\ Movement!DeclarationReachedTheServer
  BY DEF MovementInv, MovementGood, MovementClips, Movement!NoClipIsDeclared, Movement!DeclarationReachedTheServer, Movement!Online

-----------------------------------------------------------------------------
(* PlayerResource: a thing that is repaired is repaired on the server. *)

Resource == INSTANCE PlayerResource WITH resource <- state

ResourceFields ==
  {"enabled", "was", "restoring", "stage", "pending", "call", "due", "fast", "seen", "late", "undone",
   "repairing", "worn", "wornOnServer", "unsent"}

ResourceGood(r, online) ==
  /\ DOMAIN r = ResourceFields
  /\ r.wornOnServer \subseteq r.worn \cup r.unsent
  /\ r.wornOnServer # {} => online

ResourceInv == ResourceGood(state, session = "multiplayer")

\* What differs in the endurance only.
ResourceLike(s, r) ==
  /\ DOMAIN s = ResourceFields
  /\ s.worn = r.worn /\ s.wornOnServer = r.wornOnServer /\ s.unsent = r.unsent

LEMMA ResourceInit == Resource!Init => ResourceInv
  BY DEF Resource!Init, ResourceInv, ResourceGood, ResourceFields

LEMMA ResourceSame ==
  ASSUME NEW r, NEW s, NEW online, ResourceGood(r, online), ResourceLike(s, r)
  PROVE  ResourceGood(s, online)
  BY DEF ResourceGood, ResourceLike

LEMMA ResourceCompensated ==
  ASSUME DOMAIN state = ResourceFields, NEW fails
  PROVE  ResourceLike(Resource!Compensated(fails), state)
  <1>1. ASSUME NEW r, ResourceLike(r, state), NEW what
        PROVE  ResourceLike(Resource!Submitted(r, what, fails), state)
    BY <1>1 DEF Resource!Submitted, ResourceLike, ResourceFields
  <1>2. ASSUME NEW r, ResourceLike(r, state) PROVE ResourceLike(Resource!Reset(r), state)
    <2> DEFINE late == IF r.stage = "SendingPacket" /\ r.call \in {"queued", "overdue"}
                       THEN r.late \cup {r.pending} ELSE r.late
               undone == r.undone \/ (r.pending = "plain" /\ ~(r.stage = "SendingPacket" /\ r.call = "done"))
    <2>1. Resource!Reset(r) = [r EXCEPT !.stage = "Idle", !.call = "none", !.late = late, !.undone = undone]
      BY DEF Resource!Reset
    <2> HIDE DEF late, undone
    <2> QED
      BY <1>2, <2>1 DEF ResourceLike, ResourceFields
  <1>3. ResourceLike(Resource!Polled(state, fails), state)
    <2>1. ResourceLike(state, state)
      BY DEF ResourceLike
    <2>2. ResourceLike([state EXCEPT !.stage = "SendingPacket", !.call = "queued"], state)
      BY DEF ResourceLike, ResourceFields
    <2> QED
      BY <1>2, <2>1, <2>2 DEF Resource!Polled
  <1>4. ASSUME NEW r, ResourceLike(r, state) PROVE ResourceLike(Resource!TurnedOn(r, fails), state)
    <2>1. /\ ResourceLike([r EXCEPT !.was = TRUE, !.restoring = FALSE], state)
          /\ ResourceLike([[r EXCEPT !.was = TRUE, !.restoring = FALSE] EXCEPT !.due = FALSE], state)
      BY <1>4 DEF ResourceLike, ResourceFields
    <2> QED
      BY <1>1, <2>1 DEF Resource!TurnedOn
  <1>5. ASSUME NEW r, ResourceLike(r, state) PROVE ResourceLike(Resource!TurnedOff(r, fails), state)
    <2> DEFINE restoring == r.restoring \/ r.was
               off == [r EXCEPT !.was = FALSE, !.due = TRUE, !.restoring = restoring]
    <2>1. \/ Resource!TurnedOff(r, fails) = [r EXCEPT !.was = FALSE, !.due = TRUE, !.restoring = FALSE]
          \/ Resource!TurnedOff(r, fails) = off
          \/ Resource!TurnedOff(r, fails) = Resource!Submitted([off EXCEPT !.restoring = fails], "plain", fails)
      BY DEF Resource!TurnedOff
    <2> HIDE DEF restoring
    <2>2. /\ ResourceLike([r EXCEPT !.was = FALSE, !.due = TRUE, !.restoring = FALSE], state)
          /\ ResourceLike(off, state)
      BY <1>5 DEF ResourceLike, ResourceFields
    <2> HIDE DEF off
    <2>3. ResourceLike([off EXCEPT !.restoring = fails], state)
      BY <2>2 DEF ResourceLike, ResourceFields
    <2> QED
      BY <1>1, <2>1, <2>2, <2>3
  <1> QED
    BY <1>3, <1>4, <1>5 DEF Resource!Compensated

\* A repair is told, or counts as one that was not.
LEMMA ResourceRepaired ==
  ASSUME NEW r, ResourceGood(r, Resource!Online), NEW hands \in SUBSET r.worn, NEW sent
  PROVE  LET t == Resource!Repaired(r, hands, sent) IN
         ResourceGood(t, Resource!Online) /\ t.worn = r.worn \ hands
  <1> DEFINE there == IF sent THEN r.wornOnServer \ hands ELSE r.wornOnServer
             unsent == IF sent THEN r.unsent \ hands ELSE IF Resource!Online THEN r.unsent \cup hands ELSE r.unsent
             t == Resource!Repaired(r, hands, sent)
  <1>1. t = [r EXCEPT !.worn = r.worn \ hands, !.wornOnServer = there, !.unsent = unsent]
    BY DEF Resource!Repaired
  <1>2. there \subseteq (r.worn \ hands) \cup unsent /\ there \subseteq r.wornOnServer
    BY DEF ResourceGood
  <1> HIDE DEF there, unsent, t
  <1>3. DOMAIN t = ResourceFields /\ t.worn = r.worn \ hands /\ t.wornOnServer = there /\ t.unsent = unsent
    BY <1>1 DEF ResourceGood, ResourceFields
  <1> QED
    BY <1>2, <1>3 DEF ResourceGood, t

LEMMA ResourceItems ==
  ASSUME NEW r, ResourceGood(r, Resource!Online), NEW fails
  PROVE  \A t \in Resource!Items(r, fails) : ResourceGood(t, Resource!Online)
  <1>1. ResourceGood(Resource!Repaired(r, r.worn, Resource!Online), Resource!Online)
    BY ResourceRepaired
  <1>2. ASSUME NEW sent \in SUBSET r.worn, NEW kept \in SUBSET r.worn
        PROVE  ResourceGood(Resource!PartlyRepaired(r, sent, kept), Resource!Online)
    <2> DEFINE t == Resource!Repaired(r, sent, Resource!Online)
    <2>1. ResourceGood(t, Resource!Online) /\ t.worn = r.worn \ sent
      BY ResourceRepaired
    <2> HIDE DEF t
    <2>2. r.worn \ (sent \cup kept) \in SUBSET t.worn
      BY <2>1
    <2>3. ResourceGood(Resource!Repaired(t, r.worn \ (sent \cup kept), FALSE), Resource!Online)
      BY <2>1, <2>2, ResourceRepaired
    <2> QED
      BY <2>3 DEF t, Resource!PartlyRepaired
  <1> QED
    BY <1>1, <1>2 DEF Resource!Items

LEMMA ResourceStep == ResourceInv /\ [Resource!Next]_all => ResourceInv'
  <1> SUFFICES ASSUME ResourceGood(state, Resource!Online), [Resource!Next]_all
               PROVE  ResourceGood(state', session' = "multiplayer")
    BY DEF ResourceInv, ResourceGood, ResourceFields, Resource!Online
  <1> DEFINE Stays == session' = session /\ ResourceGood(state', Resource!Online)
  <1>0. DOMAIN state = ResourceFields /\ ResourceLike(state, state)
    BY DEF ResourceGood, ResourceLike
  <1>1. CASE Resource!Live
    <2>1. /\ DOMAIN state' = ResourceFields /\ state'.worn = {} /\ state'.wornOnServer = {} /\ state'.unsent = {}
      <3> DEFINE seen == IF player' = NoPlayer THEN "plain" ELSE state.seen
                 undone == player' # NoPlayer /\ (state.undone \/ (player = NoPlayer /\ state.stage # "Idle"))
      <3>1. state' = [state EXCEPT !.worn = {}, !.wornOnServer = {}, !.unsent = {}, !.fast = FALSE,
                        !.seen = seen, !.undone = undone]
        BY <1>1 DEF Resource!Live
      <3> HIDE DEF seen, undone
      <3> QED
        BY <1>0, <3>1 DEF ResourceFields
    <2> QED
      BY <2>1 DEF ResourceGood
  <1>2. ASSUME Resource!Run \/ Resource!Serve \/ Resource!Elapse \/ (\E s \in state.late : Resource!ServeLate(s))
                 \/ (\E on \in BOOLEAN : Resource!SetEnduranceRecoveryEnabled(on) \/ Resource!SetDurabilityProtectionEnabled(on))
        PROVE  Stays
    <2>1. session' = session
      BY <1>2 DEF Resource!Run, Resource!Serve, Resource!Elapse, Resource!ServeLate,
         Resource!SetEnduranceRecoveryEnabled, Resource!SetDurabilityProtectionEnabled, Resource!game
    <2>2. \A s : ResourceLike(Resource!Received(state, s), state)
      BY <1>0 DEF Resource!Received, ResourceLike, ResourceFields
    <2>3. ASSUME NEW r, ResourceLike(r, state), NEW s, NEW t,
                 \/ s = [r EXCEPT !.call = t] \/ s = [r EXCEPT !.fast = t] \/ s = [r EXCEPT !.due = t]
                 \/ s = [r EXCEPT !.enabled = t] \/ s = [r EXCEPT !.repairing = t]
          PROVE  ResourceLike(s, state)
      BY <2>3 DEF ResourceLike, ResourceFields
    <2>4. CASE Resource!Run
      <3>1. \E t : state' = [state EXCEPT !.fast = t]
        BY <2>4 DEF Resource!Run
      <3> QED
        BY <1>0, <2>1, <2>3, <3>1, ResourceSame
    <2>5. CASE Resource!Serve
      <3>1. \E r : ResourceLike(r, state) /\ state' = [r EXCEPT !.call = "done"]
        BY <1>0, <2>2, <2>5 DEF Resource!Serve
      <3> QED
        BY <2>1, <2>3, <3>1, ResourceSame
    <2>6. CASE Resource!Elapse
      BY <1>0, <2>1, <2>3, <2>6, ResourceSame DEF Resource!Elapse
    <2>7. CASE \E s \in state.late : Resource!ServeLate(s)
      <3>1. PICK s \in state.late : Resource!ServeLate(s)
        BY <2>7
      <3>2. \E l, u : state' = [Resource!Received(state, s) EXCEPT !.late = l, !.undone = u]
        BY <3>1 DEF Resource!ServeLate
      <3>3. ResourceLike(state', state)
        BY <2>2, <3>2 DEF ResourceLike, ResourceFields
      <3> QED
        BY <2>1, <3>3, ResourceSame
    <2>8. CASE \E on \in BOOLEAN : Resource!SetEnduranceRecoveryEnabled(on) \/ Resource!SetDurabilityProtectionEnabled(on)
      BY <1>0, <2>1, <2>3, <2>8, ResourceSame DEF Resource!SetEnduranceRecoveryEnabled, Resource!SetDurabilityProtectionEnabled
    <2> QED
      BY <1>2, <2>4, <2>5, <2>6, <2>7, <2>8
  <1>3. ASSUME NEW hand \in Hands, Resource!Wear(hand) PROVE Stays
    <2> DEFINE there == IF Resource!Online THEN state.wornOnServer \cup {hand} ELSE state.wornOnServer
    <2>1. state' = [state EXCEPT !.worn = state.worn \cup {hand}, !.wornOnServer = there] /\ session' = session
      BY <1>3 DEF Resource!Wear, Resource!game
    <2>2. there \subseteq (state.worn \cup {hand}) \cup state.unsent /\ (there # {} => Resource!Online)
      BY DEF ResourceGood
    <2> HIDE DEF there
    <2>3. /\ DOMAIN state' = ResourceFields /\ state'.worn = state.worn \cup {hand}
          /\ state'.wornOnServer = there /\ state'.unsent = state.unsent
      BY <1>0, <2>1 DEF ResourceFields
    <2> QED
      BY <2>1, <2>2, <2>3 DEF ResourceGood
  <1>4. ASSUME Resource!Update PROVE Stays
    <2>1. session' = session
      BY <1>4 DEF Resource!Update, Resource!game
    <2>2. PICK failing \in {"nothing", "submission", "items"} :
            state' \in Resource!Items(Resource!Compensated(failing = "submission"), failing = "items")
      BY <1>4 DEF Resource!Update
    <2>3. ResourceGood(Resource!Compensated(failing = "submission"), Resource!Online)
      BY <1>0, ResourceCompensated, ResourceSame
    <2> QED
      BY <2>1, <2>2, <2>3, ResourceItems
  <1>5. ASSUME UNCHANGED all PROVE Stays
    BY <1>5 DEF all, game
  <1> QED
    BY <1>1, <1>2, <1>3, <1>4, <1>5 DEF Resource!Next, Resource!Online

LEMMA ResourceKept == ResourceInv => Resource!ServerKnowsTheRepairs
  BY DEF ResourceInv, ResourceGood, Resource!ServerKnowsTheRepairs

-----------------------------------------------------------------------------
(* Experience: what a player has learnt here the server knows, or was not sent. *)

LEMMA ExperienceInit == Experience!Init => ExperienceInv
  BY DEF Experience!Init, Experience!GameInit, ExperienceInv, ExperienceGood, ExperienceFields

LEMMA ExperienceTrained ==
  ASSUME NEW e, DOMAIN e = ExperienceFields, NEW fails
  PROVE  \A t \in Experience!Trained(e, fails) \cup Experience!AfterRefresh(e, fails) : ExperienceLike(t, e)
  <1>1. ExperienceLike(Experience!Stopped(e), e) /\ ExperienceLike(e, e)
    BY DEF ExperienceLike, ExperienceFields, Experience!Stopped
  <1>2. ASSUME NEW strayed PROVE ExperienceLike([e EXCEPT !.rested = FALSE, !.strayed = strayed], e)
    BY DEF ExperienceLike, ExperienceFields
  <1>3. ExperienceLike([e EXCEPT !.rested = FALSE], e)
    BY DEF ExperienceLike, ExperienceFields
  <1>4. \A t \in Experience!Trained(e, fails) : ExperienceLike(t, e)
    <2> DEFINE strayed == e.strayed \/ e.trainee # player \/ ~Experience!Online \/ e.seen >= e.goal
    <2>1. \A t \in Experience!Trained(e, fails) :
            t \in {e, Experience!Stopped(e), [e EXCEPT !.rested = FALSE], [e EXCEPT !.rested = FALSE, !.strayed = strayed]}
      BY DEF Experience!Trained
    <2> HIDE DEF strayed
    <2> QED
      BY <1>1, <1>2, <1>3, <2>1
  <1> QED
    BY <1>1, <1>4 DEF Experience!AfterRefresh

LEMMA ExperienceSame ==
  ASSUME NEW e, NEW t, ExperienceGood(e), ExperienceLike(t, e)
  PROVE  ExperienceGood(t)
  BY DEF ExperienceGood, ExperienceLike

LEMMA ExperienceUpdate ==
  ASSUME DOMAIN state = ExperienceFields, Experience!Update
  PROVE  ExperienceLike(state', state)
  <1> DEFINE known == Experience!Bound(state)
  <1>1. \A e : ExperienceLike(e, state) =>
          /\ ExperienceLike(Experience!Stopped(e), state) /\ ExperienceLike(Experience!Unready(e), state)
          /\ ExperienceLike(Experience!NobodyThere(e), state) /\ ExperienceLike(Experience!Refreshed(e), state)
    BY DEF ExperienceLike, ExperienceFields, Experience!Stopped, Experience!Unready, Experience!NobodyThere,
       Experience!Refreshed
  <1>2. ExperienceLike(state, state)
    BY DEF ExperienceLike
  <1>3. ExperienceLike(known, state)
    <2>1. \/ known = state
          \/ \E m : known = [Experience!Stopped(state) EXCEPT !.mode = m, !.bound = player, !.catalog = FALSE,
                               !.seen = 0, !.ready = FALSE]
      BY DEF Experience!Bound
    <2>2. ExperienceLike(Experience!Stopped(state), state)
      BY <1>1, <1>2
    <2>3. ASSUME NEW e, ExperienceLike(e, state), NEW m, NEW t,
                 t = [e EXCEPT !.mode = m, !.bound = player, !.catalog = FALSE, !.seen = 0, !.ready = FALSE]
          PROVE  ExperienceLike(t, state)
      BY <2>3 DEF ExperienceLike, ExperienceFields
    <2> QED
      BY <1>2, <2>1, <2>2, <2>3
  <1>4. \A e : ExperienceLike(e, state) =>
          /\ ExperienceLike([e EXCEPT !.mode = session], state)
          /\ ExperienceLike([e EXCEPT !.catalog = TRUE], state)
    BY DEF ExperienceLike, ExperienceFields
  <1>5. \A e : ExperienceLike(e, state) =>
          \A fails : \A t \in Experience!AfterRefresh(e, fails) : ExperienceLike(t, state)
    BY ExperienceTrained DEF ExperienceLike
  <1>6. \/ state' \in Experience!AfterRefresh(Experience!Refreshed(known), FALSE)
        \/ state' = [Experience!NobodyThere(state) EXCEPT !.mode = session]
        \/ state' = Experience!Unready(state) \/ state' = Experience!Unready(known)
        \/ state' \in Experience!AfterRefresh([Experience!Unready(known) EXCEPT !.catalog = TRUE], FALSE)
        \/ state' \in Experience!AfterRefresh(Experience!Refreshed(known), TRUE)
    BY DEF Experience!Update
  <1> HIDE DEF known
  <1> QED
    BY <1>1, <1>2, <1>3, <1>4, <1>5, <1>6

LEMMA ExperienceStep == ExperienceInv /\ [Experience!Next]_all => ExperienceInv'
  <1> SUFFICES ASSUME ExperienceInv, [Experience!Next]_all PROVE ExperienceInv'
    OBVIOUS
  <1>0. ExperienceGood(state) /\ DOMAIN state = ExperienceFields
        /\ DOMAIN state.xp = Players /\ DOMAIN state.onServer = Players
    BY DEF ExperienceInv, ExperienceGood
  <1> DEFINE Stays == UNCHANGED <<player, met>> /\ ExperienceGood(state')
  <1>1. Stays => ExperienceInv'
    BY DEF ExperienceInv, ExperienceGood, ExperienceFields
  <1>2. CASE Experience!Live
    <2>1. player' \in met' \cup {NoPlayer} /\ met' \subseteq Players
      BY <1>2 DEF ExperienceInv, Experience!Live, Experience!Play, Experience!LeaveWorld, Experience!Respawn, Experience!EnterWorld
    <2> QED
      BY <1>0, <1>2, <2>1 DEF Experience!Live, ExperienceInv, ExperienceGood, ExperienceFields
  <1>3. ASSUME Experience!Learn PROVE Stays
    <2> DEFINE xp == [state.xp EXCEPT ![player] = state.xp[player] + 1]
               there == [state.onServer EXCEPT ![player] = state.onServer[player] + 1]
    <2>1. state' = [state EXCEPT !.xp = xp, !.onServer = there] /\ UNCHANGED <<player, met>>
      BY <1>0, <1>3 DEF Experience!Learn, Experience!game, ExperienceFields
    <2>2. /\ DOMAIN xp = Players /\ DOMAIN there = Players
          /\ \A p \in Players : state.xp[p] = state.onServer[p] => xp[p] = there[p]
      BY <1>0
    <2> HIDE DEF xp, there
    <2>3. DOMAIN state' = ExperienceFields /\ state'.xp = xp /\ state'.onServer = there /\ state'.unsent = state.unsent
      BY <1>0, <2>1 DEF ExperienceFields
    <2> QED
      BY <1>0, <2>1, <2>2, <2>3 DEF ExperienceGood
  <1>4. ASSUME Experience!Rest PROVE Stays
    <2>1. ExperienceLike(state', state)
      BY <1>0, <1>4 DEF Experience!Rest, ExperienceLike, ExperienceFields
    <2> QED
      BY <1>0, <1>4, <2>1, ExperienceSame DEF Experience!Rest, Experience!game
  <1>5. ASSUME Experience!Update PROVE Stays
    <2>1. ExperienceLike(state', state)
      BY <1>0, <1>5, ExperienceUpdate
    <2> QED
      BY <1>0, <1>5, <2>1, ExperienceSame DEF Experience!Update, Experience!game
  <1>6. ASSUME NEW n, player # NoPlayer
        PROVE  LET g == Experience!Gained(state, n) IN
               /\ ExperienceGood(Experience!Known(g))
               /\ ExperienceGood([g EXCEPT !.unsent = @ \cup {player}])
    <2> DEFINE xp == [state.xp EXCEPT ![player] = IF state.xp[player] + n > Top THEN Top ELSE state.xp[player] + n]
               g == Experience!Gained(state, n)
               k == Experience!Known(g)
               u == [g EXCEPT !.unsent = @ \cup {player}]
    <2>1. g = [state EXCEPT !.xp = xp]
      BY <1>0 DEF Experience!Gained, ExperienceFields
    <2>2. DOMAIN xp = Players /\ \A p \in Players \ {player} : xp[p] = state.xp[p]
      BY <1>0
    <2> HIDE DEF xp, g
    <2>3. /\ DOMAIN g = ExperienceFields /\ g.xp = xp /\ g.onServer = state.onServer /\ g.unsent = state.unsent
      BY <1>0, <2>1 DEF ExperienceFields
    <2> DEFINE there == [g.onServer EXCEPT ![player] = g.xp[player]]
    <2>4. k = [g EXCEPT !.onServer = there]
      BY <2>3 DEF Experience!Known, ExperienceFields
    <2>5. /\ DOMAIN there = Players
          /\ \A p \in Players : there[p] = IF p = player THEN xp[p] ELSE state.onServer[p]
      BY <1>0, <2>3
    <2> HIDE DEF there, k
    <2>6. DOMAIN k = ExperienceFields /\ k.xp = xp /\ k.onServer = there /\ k.unsent = state.unsent
      BY <2>3, <2>4 DEF ExperienceFields
    <2>7. ExperienceGood(k)
      BY <1>0, <2>2, <2>5, <2>6 DEF ExperienceGood
    <2>8. DOMAIN u = ExperienceFields /\ u.xp = xp /\ u.onServer = state.onServer /\ u.unsent = state.unsent \cup {player}
      BY <2>3 DEF ExperienceFields
    <2> HIDE DEF u
    <2>9. ExperienceGood(u)
      BY <1>0, <2>2, <2>8 DEF ExperienceGood
    <2> QED
      BY <2>7, <2>9 DEF k, g, u
  <1>7. ASSUME Experience!Use PROVE Stays
    <2>1. PICK n \in 1 .. Top :
            \/ Experience!AddLocally(n) \/ Experience!ToggleTraining(n)
            \/ Experience!AddSkillExperienceVanilla(n)
      BY <1>7 DEF Experience!Use
    <2>2. UNCHANGED <<player, met>>
      BY <1>7 DEF Experience!Use, Experience!game
    <2>3. CASE Experience!AddLocally(n) \/ Experience!AddSkillExperienceVanilla(n)
      BY <1>6, <2>2, <2>3 DEF Experience!AddLocally, Experience!AddSkillExperienceVanilla
    <2>4. CASE Experience!ToggleTraining(n)
      <3>1. state' = Experience!Stopped(state) \/ state' = Experience!Started(state, n)
        BY <2>4 DEF Experience!ToggleTraining
      <3>2. ExperienceLike(state', state)
        BY <1>0, <3>1 DEF Experience!Stopped, Experience!Started, ExperienceLike, ExperienceFields
      <3> QED
        BY <1>0, <2>2, <3>2, ExperienceSame
    <2> QED
      BY <2>1, <2>3, <2>4
  <1>8. ASSUME UNCHANGED all PROVE Stays
    BY <1>0, <1>8 DEF all, game
  <1> QED
    BY <1>1, <1>2, <1>3, <1>4, <1>5, <1>7, <1>8 DEF Experience!Next

LEMMA ExperienceKept == ExperienceInv => Experience!GainsAreKnown
  BY DEF ExperienceInv, ExperienceGood, Experience!GainsAreKnown

-----------------------------------------------------------------------------
(* PlayerStats: the stats here and on the server agree but for those that are excused. *)

Stats == INSTANCE PlayerStats WITH stats <- state, MaxRequests <- SomeRequests, MaxFaults <- FewFaults

StatsFields ==
  {"blocking", "here", "there", "shown", "built", "listed", "mode", "available", "due", "role", "allowed",
   "current", "excused", "wanted", "infected", "infectedThere", "recent", "swallowed", "ignored"}

StatsTables == [Stats!Names -> 0 .. 2]

\* The stats: those that are not excused agree, and what the last frame found of the rights
\* is so.
StatsLevels(s, online) ==
  /\ DOMAIN s = StatsFields /\ s.here \in StatsTables /\ s.there \in StatsTables
  /\ online => \A n \in Stats!Names \ s.excused : s.here[n] = s.there[n]

StatsRights(s, online, there) ==
  s.current => there /\ (online /\ (s.role \/ s.allowed) => s.available)

\* The infection: what the server knows of it, it was told here.
StatsInfection(s, online) == s.infectedThere => online /\ (s.infected \/ s.swallowed)

StatsGood(s, online, there) ==
  StatsLevels(s, online) /\ StatsRights(s, online, there) /\ StatsInfection(s, online)

StatsInv == StatsGood(state, session = "multiplayer", player # NoPlayer)

StatsFit(s) == StatsGood(s, Stats!Online, player # NoPlayer)

\* What differs in neither.
StatsLike(t, s) ==
  /\ DOMAIN t = StatsFields
  /\ t.here = s.here /\ t.there = s.there /\ t.excused = s.excused /\ t.blocking = s.blocking
  /\ t.current = s.current /\ t.role = s.role /\ t.allowed = s.allowed /\ t.available = s.available
  /\ t.infected = s.infected /\ t.infectedThere = s.infectedThere /\ t.swallowed = s.swallowed

\* What differs in the stats only.
StatsRest(t, s) ==
  /\ t.current = s.current /\ t.role = s.role /\ t.allowed = s.allowed /\ t.available = s.available
  /\ t.infected = s.infected /\ t.infectedThere = s.infectedThere /\ t.swallowed = s.swallowed

LEMMA StatsInit == Stats!Init => StatsInv
  BY DEF Stats!Init, StatsInv, StatsGood, StatsLevels, StatsRights, StatsInfection, StatsFields, StatsTables

LEMMA StatsSame ==
  ASSUME NEW s, NEW t, StatsFit(s), StatsLike(t, s)
  PROVE  StatsFit(t)
  BY DEF StatsFit, StatsGood, StatsLevels, StatsRights, StatsInfection, StatsLike

\* A stat that is set is set there too, or excused.
LEMMA StatsSet ==
  ASSUME NEW s, StatsFit(s), NEW name \in Stats!Names, NEW value \in 0 .. 1, NEW ok
  PROVE  StatsFit(Stats!SetStat(s, name, value, ok)) /\ StatsRest(Stats!SetStat(s, name, value, ok), s)
  <1> DEFINE here == [s.here EXCEPT ![name] = value]
             a == [s EXCEPT !.here[name] = value, !.due = TRUE]
             t == Stats!SetStat(s, name, value, ok)
  <1>0. DOMAIN s = StatsFields /\ s.here \in StatsTables /\ s.there \in StatsTables
    BY DEF StatsFit, StatsGood, StatsLevels
  <1>1. a = [s EXCEPT !.here = here, !.due = TRUE]
    BY <1>0 DEF StatsFields
  <1>2. t = Stats!Synced(a, name, ok)
    BY DEF Stats!SetStat
  <1>3. /\ here \in StatsTables /\ here[name] = value
        /\ \A n \in Stats!Names \ {name} : here[n] = s.here[n]
    BY <1>0 DEF StatsTables
  <1> HIDE DEF here, a, t
  <1>4. /\ DOMAIN a = StatsFields /\ a.here = here /\ a.there = s.there /\ a.excused = s.excused
        /\ StatsRest(a, s)
    BY <1>0, <1>1 DEF StatsFields, StatsRest
  <1>5. CASE ~Stats!Online
    <2>1. t = a
      BY <1>2, <1>5 DEF Stats!Synced
    <2> QED
      BY <1>0, <1>3, <1>4, <1>5, <2>1
      DEF StatsFit, StatsGood, StatsLevels, StatsRights, StatsInfection, StatsRest, t
  <1>6. CASE Stats!Online /\ ok /\ a.available /\ a.allowed
    <2> DEFINE there == [s.there EXCEPT ![name] = value]
    <2>1. t = [a EXCEPT !.there = there, !.excused = @ \ {name}]
      BY <1>0, <1>2, <1>3, <1>4, <1>6 DEF Stats!Synced, StatsFields
    <2>2. /\ there \in StatsTables /\ there[name] = value
          /\ \A n \in Stats!Names \ {name} : there[n] = s.there[n]
      BY <1>0 DEF StatsTables
    <2> HIDE DEF there
    <2>3. /\ DOMAIN t = StatsFields /\ t.here = here /\ t.there = there /\ t.excused = s.excused \ {name}
          /\ StatsRest(t, s)
      BY <1>4, <2>1 DEF StatsFields, StatsRest
    <2>4. StatsLevels(t, Stats!Online)
      BY <1>3, <2>2, <2>3 DEF StatsFit, StatsGood, StatsLevels
    <2> QED
      BY <2>3, <2>4 DEF StatsFit, StatsGood, StatsRights, StatsInfection, StatsRest, t
  <1>7. CASE Stats!Online /\ ~(ok /\ a.available /\ a.allowed) /\ ok /\ a.current /\ a.allowed
    <2>1. a.available
      BY <1>4, <1>7 DEF StatsFit, StatsGood, StatsRights, StatsRest
    <2> QED
      BY <1>7, <2>1
  <1>8. CASE Stats!Online /\ ~(ok /\ a.available /\ a.allowed) /\ ~(ok /\ a.current /\ a.allowed)
    <2>1. t = [a EXCEPT !.excused = @ \cup {name}]
      BY <1>2, <1>8 DEF Stats!Synced
    <2>3. /\ DOMAIN t = StatsFields /\ t.here = here /\ t.there = s.there /\ t.excused = s.excused \cup {name}
          /\ StatsRest(t, s)
      BY <1>4, <2>1 DEF StatsFields, StatsRest
    <2>4. StatsLevels(t, Stats!Online)
      BY <1>0, <1>3, <2>3 DEF StatsFit, StatsGood, StatsLevels
    <2> QED
      BY <2>3, <2>4 DEF StatsFit, StatsGood, StatsRights, StatsInfection, StatsRest, t
  <1> QED
    BY <1>5, <1>6, <1>7, <1>8

\* The drink makes up the difference on both sides.
LEMMA StatsDrink ==
  ASSUME NEW s, StatsFit(s), NEW value \in 0 .. 1, NEW ok
  PROVE  StatsFit(Stats!DrinkTo(s, value, ok)) /\ StatsRest(Stats!DrinkTo(s, value, ok), s)
  <1> DEFINE poured == s.there["thirst"] - Stats!Drink(s, value)
             level == IF ~Stats!Online THEN s.there["thirst"] ELSE IF poured < 0 THEN 0 ELSE IF poured > 2 THEN 2 ELSE poured
             there == [s.there EXCEPT !["thirst"] = level]
             here == [s.here EXCEPT !["thirst"] = value]
             sent == [s EXCEPT !.there = there]
             t == Stats!DrinkTo(s, value, ok)
  <1>0. DOMAIN s = StatsFields /\ s.here \in StatsTables /\ s.there \in StatsTables /\ "thirst" \in Stats!Names
    BY DEF StatsFit, StatsGood, StatsLevels, Stats!Names
  <1>1. t = IF s.blocking THEN s ELSE IF ok THEN [sent EXCEPT !.here = here]
                                            ELSE [sent EXCEPT !.excused = @ \cup {"thirst"}]
    BY <1>0 DEF Stats!DrinkTo, StatsFields
  <1>2. /\ level \in 0 .. 2
        /\ Stats!Online /\ s.here["thirst"] = s.there["thirst"] => level = value
    <2>1. s.here["thirst"] \in 0 .. 2 /\ s.there["thirst"] \in 0 .. 2
      BY <1>0 DEF StatsTables
    <2> QED
      BY <2>1 DEF Stats!Drink
  <1> HIDE DEF level
  <1>3. /\ there \in StatsTables /\ there["thirst"] = level
        /\ \A n \in Stats!Names \ {"thirst"} : there[n] = s.there[n]
    BY <1>0, <1>2 DEF StatsTables
  <1>4. /\ here \in StatsTables /\ here["thirst"] = value
        /\ \A n \in Stats!Names \ {"thirst"} : here[n] = s.here[n]
    BY <1>0 DEF StatsTables
  <1> HIDE DEF here, there, t
  <1>5. /\ DOMAIN sent = StatsFields /\ sent.here = s.here /\ sent.there = there /\ sent.excused = s.excused
        /\ StatsRest(sent, s)
    BY <1>0 DEF StatsFields, StatsRest
  <1> HIDE DEF sent
  <1>6. CASE s.blocking
    BY <1>1, <1>6 DEF StatsRest, t
  <1>7. CASE ~s.blocking /\ ok
    <2>1. /\ DOMAIN t = StatsFields /\ t.here = here /\ t.there = there /\ t.excused = s.excused
          /\ StatsRest(t, s)
      BY <1>1, <1>5, <1>7 DEF StatsFields, StatsRest
    <2>2. StatsLevels(t, Stats!Online)
      BY <1>0, <1>2, <1>3, <1>4, <2>1 DEF StatsFit, StatsGood, StatsLevels
    <2> QED
      BY <2>1, <2>2 DEF StatsFit, StatsGood, StatsRights, StatsInfection, StatsRest, t
  <1>8. CASE ~s.blocking /\ ~ok
    <2>1. /\ DOMAIN t = StatsFields /\ t.here = s.here /\ t.there = there /\ t.excused = s.excused \cup {"thirst"}
          /\ StatsRest(t, s)
      BY <1>1, <1>5, <1>8 DEF StatsFields, StatsRest
    <2>2. StatsLevels(t, Stats!Online)
      BY <1>0, <1>3, <2>1 DEF StatsFit, StatsGood, StatsLevels
    <2> QED
      BY <2>1, <2>2 DEF StatsFit, StatsGood, StatsRights, StatsInfection, StatsRest, t
  <1> QED
    BY <1>6, <1>7, <1>8

LEMMA StatsProtected ==
  ASSUME NEW s, StatsFit(s), NEW name \in Stats!Names, NEW ok
  PROVE  StatsFit(Stats!Protected(s, name, ok))
  <1>1. StatsFit(Stats!DrinkTo(s, 0, ok)) /\ StatsFit(Stats!SetStat(s, name, 0, ok))
    BY StatsDrink, StatsSet
  <1> QED
    BY <1>1 DEF Stats!Protected

LEMMA StatsCleared ==
  ASSUME NEW s, StatsFit(s)
  PROVE  StatsFit(Stats!Cleared(s)) /\ StatsFit([s EXCEPT !.infected = FALSE, !.swallowed = Stats!Online])
  <1> DEFINE Healed(t, there, swallowed) ==
               /\ DOMAIN t = StatsFields
               /\ t.here = s.here /\ t.there = s.there /\ t.excused = s.excused /\ t.current = s.current
               /\ t.role = s.role /\ t.allowed = s.allowed /\ t.available = s.available
               /\ t.infectedThere = there /\ t.swallowed = swallowed
  <1>0. DOMAIN s = StatsFields /\ (s.infectedThere => Stats!Online)
    BY DEF StatsFit, StatsGood, StatsLevels, StatsInfection
  <1>1. ASSUME NEW t, NEW there, NEW swallowed, Healed(t, there, swallowed), there => Stats!Online /\ swallowed
        PROVE  StatsFit(t)
    BY <1>1 DEF StatsFit, StatsGood, StatsLevels, StatsRights, StatsInfection
  <1>2. StatsFit([s EXCEPT !.infected = FALSE, !.swallowed = Stats!Online])
    <2> DEFINE online == Stats!Online
               t == [s EXCEPT !.infected = FALSE, !.swallowed = online]
    <2>1. online <=> Stats!Online
      OBVIOUS
    <2> HIDE DEF online
    <2>2. Healed(t, s.infectedThere, online)
      BY <1>0 DEF StatsFields
    <2> HIDE DEF t
    <2>3. StatsFit(t)
      BY <1>0, <1>1, <2>1, <2>2
    <2> QED
      BY <2>3 DEF t, online
  <1>3. CASE ~("infection" \notin s.wanted \/ ~s.infected)
    <2> DEFINE swallowed == Stats!Online /\ s.recent
               there == s.infectedThere /\ s.recent
               online == Stats!Online
               t == [s EXCEPT !.infected = FALSE, !.swallowed = swallowed, !.infectedThere = there, !.recent = online]
    <2>1. Stats!Cleared(s) = t
      BY <1>3 DEF Stats!Cleared
    <2>2. there => Stats!Online /\ swallowed
      BY <1>0
    <2> HIDE DEF swallowed, there, online
    <2>3. Healed(t, there, swallowed)
      BY <1>0 DEF StatsFields
    <2> HIDE DEF t, Healed
    <2>4. StatsFit(t)
      BY <1>1, <2>2, <2>3
    <2> QED
      BY <1>2, <2>1, <2>4
  <1>4. CASE "infection" \notin s.wanted \/ ~s.infected
    <2>1. Stats!Cleared(s) = s
      BY <1>4 DEF Stats!Cleared
    <2> QED
      BY <1>2, <2>1
  <1> QED
    BY <1>3, <1>4

\* A stat that is high is so on both sides.
LEMMA StatsSuffer ==
  ASSUME StatsFit(state), NEW what \in Stats!Wishes, Stats!Suffer(what)
  PROVE  StatsFit(state')
  <1>0. /\ DOMAIN state = StatsFields /\ state.here \in StatsTables /\ state.there \in StatsTables
    BY DEF StatsFit, StatsGood, StatsLevels
  <1>1. CASE what = "infection"
    <2> DEFINE online == Stats!Online
    <2>1. state' = [state EXCEPT !.infected = TRUE, !.infectedThere = online]
      BY <1>1 DEF Stats!Suffer
    <2>2. online <=> Stats!Online
      OBVIOUS
    <2> HIDE DEF online
    <2>3. /\ DOMAIN state' = StatsFields /\ state'.infected = TRUE /\ state'.infectedThere = online
          /\ state'.here = state.here /\ state'.there = state.there /\ state'.excused = state.excused
          /\ state'.current = state.current /\ state'.role = state.role /\ state'.allowed = state.allowed
          /\ state'.available = state.available
      BY <1>0, <2>1 DEF StatsFields
    <2> QED
      BY <2>2, <2>3 DEF StatsFit, StatsGood, StatsLevels, StatsRights, StatsInfection
  <1>2. CASE what # "infection"
    <2> DEFINE level == IF Stats!Online THEN 2 ELSE state.there[what]
               here == [state.here EXCEPT ![what] = 2]
               there == [state.there EXCEPT ![what] = level]
    <2>0. what \in Stats!Names
      BY <1>2 DEF Stats!Wishes
    <2>1. state' = [state EXCEPT !.here = here, !.there = there, !.excused = state.excused \ {what}, !.ignored = FALSE]
      BY <1>0, <1>2 DEF Stats!Suffer, StatsFields
    <2>2. level \in 0 .. 2 /\ (Stats!Online => level = 2)
      BY <1>0, <2>0 DEF StatsTables
    <2> HIDE DEF level
    <2>3. /\ here \in StatsTables /\ there \in StatsTables /\ here[what] = 2 /\ there[what] = level
          /\ \A n \in Stats!Names \ {what} : here[n] = state.here[n] /\ there[n] = state.there[n]
      BY <1>0, <2>0, <2>2 DEF StatsTables
    <2> HIDE DEF here, there
    <2>4. /\ DOMAIN state' = StatsFields /\ state'.here = here /\ state'.there = there
          /\ state'.excused = state.excused \ {what} /\ StatsRest(state', state)
      BY <1>0, <2>1 DEF StatsFields, StatsRest
    <2>5. StatsLevels(state', Stats!Online)
      BY <2>0, <2>2, <2>3, <2>4 DEF StatsFit, StatsGood, StatsLevels
    <2> QED
      BY <2>4, <2>5 DEF StatsFit, StatsGood, StatsRights, StatsInfection, StatsRest
  <1> QED
    BY <1>1, <1>2

\* A frame with a player finds out the rights; one without knows nothing of them.
LEMMA StatsEffects ==
  ASSUME StatsFit(state), Stats!UpdateEffects
  PROVE  StatsFit(state')
  <1>0. DOMAIN state = StatsFields
    BY DEF StatsFit, StatsGood, StatsLevels
  <1>1. CASE Stats!WithoutPlayer
    <2>1. player = NoPlayer /\ state' = [state EXCEPT !.mode = session, !.available = FALSE]
      BY <1>1 DEF Stats!WithoutPlayer
    <2>2. /\ DOMAIN state' = StatsFields /\ state'.current = state.current
          /\ state'.here = state.here /\ state'.there = state.there /\ state'.excused = state.excused
          /\ state'.infected = state.infected /\ state'.infectedThere = state.infectedThere
          /\ state'.swallowed = state.swallowed
      BY <1>0, <2>1 DEF StatsFields
    <2> QED
      BY <2>1, <2>2 DEF StatsFit, StatsGood, StatsLevels, StatsRights, StatsInfection
  <1>2. CASE Stats!Uninitialized
    <2>1. state' = [state EXCEPT !.available = FALSE, !.current = FALSE]
      BY <1>2 DEF Stats!Uninitialized
    <2>2. /\ DOMAIN state' = StatsFields /\ state'.current = FALSE
          /\ state'.here = state.here /\ state'.there = state.there /\ state'.excused = state.excused
          /\ state'.infected = state.infected /\ state'.infectedThere = state.infectedThere
          /\ state'.swallowed = state.swallowed
      BY <1>0, <2>1 DEF StatsFields
    <2> QED
      BY <2>2 DEF StatsFit, StatsGood, StatsLevels, StatsRights, StatsInfection
  <1>3. CASE Stats!WithPlayer
    <2> DEFINE rights == Stats!HasServerStatSyncCapability(state)
               seen == [state EXCEPT !.mode = session, !.current = TRUE, !.available = rights]
    <2>1. /\ player # NoPlayer
          /\ \/ state' = seen
             \/ state' = Stats!RefreshValues(seen)
             \/ state' = Stats!RefreshValues(Stats!Catalog(seen, Stats!Names))
             \/ \E names \in {{}, {"fatigue"}} : state' = Stats!Catalog(seen, names)
      BY <1>3 DEF Stats!WithPlayer
    <2>2. rights <=> Stats!Online /\ (state.role \/ state.allowed)
      BY DEF Stats!HasServerStatSyncCapability
    <2> HIDE DEF rights
    <2>3. /\ DOMAIN seen = StatsFields /\ seen.available = rights /\ seen.role = state.role
          /\ seen.allowed = state.allowed
          /\ seen.here = state.here /\ seen.there = state.there /\ seen.excused = state.excused
          /\ seen.infected = state.infected /\ seen.infectedThere = state.infectedThere
          /\ seen.swallowed = state.swallowed
      BY <1>0 DEF StatsFields
    <2> HIDE DEF seen
    <2>4. StatsFit(seen)
      BY <2>1, <2>2, <2>3 DEF StatsFit, StatsGood, StatsLevels, StatsRights, StatsInfection
    <2>5. StatsLike(seen, seen)
      BY <2>3 DEF StatsLike
    <2>6. \A s : StatsLike(s, seen) => StatsLike(Stats!RefreshValues(s), seen)
      <3>1. ASSUME NEW s, StatsLike(s, seen), NEW shown, NEW t, t = [s EXCEPT !.shown = shown, !.due = FALSE]
            PROVE  StatsLike(t, seen)
        BY <3>1 DEF StatsLike, StatsFields
      <3> QED
        BY <3>1 DEF Stats!RefreshValues
    <2>7. \A names : StatsLike(Stats!Catalog(seen, names), seen)
      BY <2>3 DEF Stats!Catalog, StatsLike, StatsFields
    <2>8. StatsLike(state', seen)
      BY <2>1, <2>5, <2>6, <2>7
    <2> QED
      BY <2>4, <2>8, StatsSame
  <1> QED
    BY <1>1, <1>2, <1>3 DEF Stats!UpdateEffects

\* A frame keeps the stats low, one after the other, and then clears the infection.
LEMMA StatsCondition ==
  ASSUME StatsFit(state), Stats!UpdateCondition
  PROVE  StatsFit(state')
  <1>1. \A failing, ignored :
          LET tired == Stats!Protected(state, "fatigue", failing # "fatigue")
              thirsty == Stats!Protected(tired, "thirst", failing # "thirst")
              after == IF failing = "infection" THEN [thirsty EXCEPT !.infected = FALSE, !.swallowed = Stats!Online]
                                                ELSE Stats!Cleared(thirsty)
          IN StatsFit([after EXCEPT !.ignored = ignored])
    <2> TAKE failing, ignored
    <2> DEFINE tired == Stats!Protected(state, "fatigue", failing # "fatigue")
               thirsty == Stats!Protected(tired, "thirst", failing # "thirst")
               after == IF failing = "infection" THEN [thirsty EXCEPT !.infected = FALSE, !.swallowed = Stats!Online]
                                                 ELSE Stats!Cleared(thirsty)
               t == [after EXCEPT !.ignored = ignored]
    <2>1. StatsFit(tired)
      BY StatsProtected DEF Stats!Names
    <2> HIDE DEF tired
    <2>2. StatsFit(thirsty)
      BY <2>1, StatsProtected DEF Stats!Names
    <2> HIDE DEF thirsty
    <2>3. StatsFit(after)
      BY <2>2, StatsCleared
    <2> HIDE DEF after
    <2>4. StatsLike(t, after)
      BY <2>3 DEF StatsFit, StatsGood, StatsLevels, StatsLike, StatsFields
    <2> HIDE DEF t
    <2>5. StatsFit(t)
      BY <2>3, <2>4, StatsSame
    <2> QED
      BY <2>5 DEF t, after, thirsty, tired
  <1>2. PICK failing \in {"nothing"} \cup Stats!Wishes, ignored \in BOOLEAN :
          LET tired == Stats!Protected(state, "fatigue", failing # "fatigue")
              thirsty == Stats!Protected(tired, "thirst", failing # "thirst")
              after == IF failing = "infection" THEN [thirsty EXCEPT !.infected = FALSE, !.swallowed = Stats!Online]
                                                ELSE Stats!Cleared(thirsty)
          IN state' = [after EXCEPT !.ignored = ignored]
    BY Zenon DEF Stats!UpdateCondition
  <1> QED
    BY <1>1, <1>2

LEMMA StatsStep == StatsInv /\ [Stats!Next]_all => StatsInv'
  <1> SUFFICES ASSUME StatsFit(state), [Stats!Next]_all PROVE StatsInv'
    BY DEF StatsInv, StatsFit, Stats!Online
  <1> DEFINE Stays == UNCHANGED <<player, session>> /\ StatsFit(state')
  <1>0. DOMAIN state = StatsFields
    BY DEF StatsFit, StatsGood, StatsLevels
  <1>1. Stays => StatsInv'
    BY DEF StatsInv, StatsFit, Stats!Online, StatsGood, StatsLevels, StatsRights, StatsInfection
  <1>2. CASE Stats!Live
    <2> DEFINE zero == [n \in Stats!Names |-> 0]
    <2>1. zero \in StatsTables
      BY DEF StatsTables
    <2>2. state' = [state EXCEPT !.here = zero, !.there = zero, !.current = FALSE, !.excused = {},
                      !.infected = FALSE, !.infectedThere = FALSE, !.swallowed = FALSE, !.ignored = FALSE]
      BY <1>2 DEF Stats!Live
    <2> HIDE DEF zero
    <2>3. DOMAIN state' = StatsFields /\ state'.here = zero /\ state'.there = zero
          /\ state'.current = FALSE /\ state'.infectedThere = FALSE
      BY <1>0, <2>2 DEF StatsFields
    <2> QED
      BY <2>1, <2>3 DEF StatsInv, StatsGood, StatsLevels, StatsRights, StatsInfection
  <1>3. ASSUME Stats!ChangeRole PROVE Stays
    <2>1. PICK role \in BOOLEAN : state' = [state EXCEPT !.allowed = ~@, !.role = role, !.current = FALSE]
      BY <1>3 DEF Stats!ChangeRole
    <2>2. /\ DOMAIN state' = StatsFields /\ state'.current = FALSE
          /\ state'.here = state.here /\ state'.there = state.there /\ state'.excused = state.excused
          /\ state'.infected = state.infected /\ state'.infectedThere = state.infectedThere
          /\ state'.swallowed = state.swallowed
      BY <1>0, <2>1 DEF StatsFields
    <2>3. StatsFit(state')
      BY <2>2 DEF StatsFit, StatsGood, StatsLevels, StatsRights, StatsInfection
    <2> QED
      BY <1>3, <2>3 DEF Stats!ChangeRole, Stats!game
  <1>4. ASSUME Stats!Elapse \/ \E wish \in Stats!Wishes, on \in BOOLEAN : Stats!SetProtectionEnabled(wish, on)
        PROVE  Stays
    <2>1. StatsLike(state', state)
      <3>1. ASSUME NEW wanted, state' = [state EXCEPT !.wanted = wanted]
            PROVE  StatsLike(state', state)
        BY <1>0, <3>1 DEF StatsLike, StatsFields
      <3> QED
        BY <1>0, <1>4, <3>1 DEF Stats!Elapse, Stats!SetProtectionEnabled, StatsLike, StatsFields
    <2> QED
      BY <1>4, <2>1, StatsSame DEF Stats!Elapse, Stats!SetProtectionEnabled, Stats!game
  <1>5. ASSUME NEW what \in Stats!Wishes, Stats!Suffer(what) PROVE Stays
    BY <1>5, StatsSuffer DEF Stats!Suffer, Stats!game
  <1>6. ASSUME Stats!UpdateEffects PROVE Stays
    BY <1>6, StatsEffects DEF Stats!UpdateEffects, Stats!game
  <1>7. ASSUME Stats!UpdateCondition PROVE Stays
    BY <1>7, StatsCondition DEF Stats!UpdateCondition, Stats!game
  <1>8. ASSUME NEW name \in Stats!Names, NEW value \in 0 .. 1, Stats!Edit(name, value) PROVE Stays
    <2>1. \E ok \in BOOLEAN : state' = Stats!DrinkTo(state, value, ok) \/ state' = Stats!SetStat(state, name, value, ok)
      BY <1>8 DEF Stats!Edit
    <2> QED
      BY <1>8, <2>1, StatsDrink, StatsSet DEF Stats!Edit, Stats!game
  <1>9. ASSUME UNCHANGED all PROVE Stays
    BY <1>9 DEF all, game
  <1> QED
    BY <1>1, <1>2, <1>3, <1>4, <1>5, <1>6, <1>7, <1>8, <1>9 DEF Stats!Next

LEMMA StatsKept == StatsInv => Stats!StatsAgree /\ Stats!ServerKnowsTheInfection
  BY DEF StatsInv, StatsGood, StatsLevels, StatsInfection, Stats!StatsAgree, Stats!ServerKnowsTheInfection, Stats!Online

-----------------------------------------------------------------------------
(* Teleport: the player is where the server takes him to be, or was not sent. *)

LEMMA TeleportInit == Teleport!Init => TeleportInv
  BY DEF Teleport!Init, TeleportInv, TeleportGood, TeleportFields

\* A frame that does not jump.
LEMMA TeleportNoticed ==
  ASSUME NEW t, TeleportGood(t), NEW down, NEW client
  PROVE  TeleportGood(Teleport!Noticed(t, down, client))
  BY DEF TeleportGood, TeleportFields, Teleport!Noticed

LEMMA TeleportJumped ==
  ASSUME NEW t, TeleportGood(t), NEW s
  PROVE  /\ TeleportGood(Teleport!Jumped(t, s))
         /\ \A u \in Teleport!Stranded(t, s) : TeleportGood(u)
  BY DEF TeleportGood, TeleportFields, Teleport!Jumped, Teleport!Stranded, Teleport!Moved, Teleport!Sent

LEMMA TeleportStep == TeleportInv /\ [Teleport!Next]_all => TeleportInv'
  <1> SUFFICES ASSUME TeleportGood(state), [Teleport!Next]_all PROVE TeleportGood(state')
    BY DEF TeleportInv, TeleportGood, TeleportFields
  <1>1. CASE Teleport!Live
    BY <1>1 DEF Teleport!Live, TeleportGood, TeleportFields
  <1>2. CASE Teleport!ToggleMap
    BY <1>2 DEF Teleport!ToggleMap, TeleportGood, TeleportFields
  <1>3. CASE Teleport!CoolDown
    BY <1>3 DEF Teleport!CoolDown, TeleportGood, TeleportFields
  <1>4. CASE Teleport!Update
    <2>1. PICK down \in BOOLEAN : \E alt \in BOOLEAN :
            Teleport!Unready(down) \/ \E client \in Teleport!ClientFlags, s \in Places :
              Teleport!UpdateWith(down, alt, client, s)
      BY <1>4 DEF Teleport!Update
    <2>2. \A client : TeleportGood(Teleport!Noticed(state, down, client))
      BY TeleportNoticed
    <2> QED
      BY <2>1, <2>2, TeleportJumped DEF Teleport!Unready, Teleport!UpdateWith
  <1>5. ASSUME NEW on \in BOOLEAN, Teleport!SetPlayerTeleportEnabled(on) PROVE TeleportGood(state')
    BY <1>5 DEF Teleport!SetPlayerTeleportEnabled, TeleportGood, TeleportFields
  <1>6. CASE UNCHANGED all
    BY <1>6 DEF all
  <1> QED
    BY <1>1, <1>2, <1>3, <1>4, <1>5, <1>6 DEF Teleport!Next

LEMMA TeleportKept == TeleportInv => Teleport!ServerKnowsThePlace
  BY DEF TeleportInv, TeleportGood, Teleport!ServerKnowsThePlace

-----------------------------------------------------------------------------
(* WeaponUnload: the server has the weapon loaded as it is here. *)

Unload == INSTANCE WeaponUnload WITH unload <- state

UnloadFields ==
  {"blocked", "kind", "phase", "requested", "remaining", "held", "other", "here", "there", "acting", "made", "unsent"}

\* What the server has loaded is loaded here.
UnloadGood(u) ==
  /\ DOMAIN u = UnloadFields
  /\ u.here \in BOOLEAN /\ u.there \in BOOLEAN
  /\ u.there => u.here
  /\ u.here => u.there \/ u.unsent

UnloadInv == UnloadGood(state)

LEMMA UnloadInit == Unload!Init => UnloadInv
  BY DEF Unload!Init, UnloadInv, UnloadGood, UnloadFields

LEMMA UnloadProceeded ==
  ASSUME NEW u, UnloadGood(u)
  PROVE  /\ UnloadGood(Unload!Proceeded(u)) /\ UnloadGood(Unload!Failed(u)) /\ UnloadGood(Unload!Emptied(u))
         /\ UnloadGood([u EXCEPT !.phase = "Idle"]) /\ UnloadGood([u EXCEPT !.acting = FALSE])
  <1> USE DEF UnloadGood, UnloadFields
  <1>1. UnloadGood(Unload!Counted(u))
    BY DEF Unload!Counted
  <1>2. \A v : UnloadGood(v) => UnloadGood([v EXCEPT !.phase = "Idle"]) /\ UnloadGood([v EXCEPT !.acting = FALSE])
    OBVIOUS
  <1>3. \A v : UnloadGood(v) => UnloadGood(Unload!Synced(v)) /\ UnloadGood(Unload!Stopped(v))
    BY DEF Unload!Synced, Unload!Stopped
  <1>4. UnloadGood([u EXCEPT !.acting = TRUE, !.phase = "WaitingForCompletion"])
    OBVIOUS
  <1>5. UnloadGood(Unload!Emptied(u))
    BY DEF Unload!Emptied
  <1> QED
    BY <1>1, <1>2, <1>3, <1>4, <1>5 DEF Unload!Proceeded, Unload!Failed

LEMMA UnloadStep == UnloadInv /\ [Unload!Next]_all => UnloadInv'
  <1> SUFFICES ASSUME UnloadGood(state), [Unload!Next]_all PROVE UnloadGood(state')
    BY DEF UnloadInv, UnloadGood, UnloadFields
  <1>0. DOMAIN state = UnloadFields
    BY DEF UnloadGood
  <1>1. CASE Unload!Live
    BY <1>0, <1>1 DEF Unload!Live, UnloadGood, UnloadFields
  <1>2. CASE Unload!Take
    <2>1. \E h : state' = [state EXCEPT !.held = h]
      BY <1>2 DEF Unload!Take
    <2> QED
      BY <1>0, <2>1 DEF UnloadGood, UnloadFields
  <1>3. CASE Unload!Empty \/ Unload!Act \/ Unload!Update
    BY <1>3, UnloadProceeded DEF Unload!Empty, Unload!Act, Unload!Update
  <1>4. ASSUME NEW quantity \in 1 .. 2, Unload!Queue(quantity) PROVE UnloadGood(state')
    <2> DEFINE n == IF state.kind = "ammo" THEN 1 ELSE quantity
               acting == state.acting
               u == [state EXCEPT !.other = FALSE, !.made = 0, !.unsent = acting, !.requested = n, !.remaining = n]
    <2>1. \/ state' = Unload!Synced(u)
          \/ state' = Unload!Refused([u EXCEPT !.remaining = u.requested])
      BY <1>4 DEF Unload!Queue
    <2>2. ~state.here /\ ~state.there
      BY <1>4 DEF Unload!Queue, UnloadGood
    <2> HIDE DEF n, acting
    <2>3. DOMAIN u = UnloadFields /\ u.here = state.here /\ u.there = state.there
      BY <1>0 DEF UnloadFields
    <2>4. UnloadGood(Unload!Synced(u)) /\ UnloadGood(Unload!Refused([u EXCEPT !.remaining = u.requested]))
      <3> HIDE DEF u
      <3> QED
        BY <2>2, <2>3 DEF Unload!Synced, Unload!Refused, UnloadGood, UnloadFields
    <2> QED
      BY <2>1, <2>4
  <1>5. CASE UNCHANGED all
    BY <1>5 DEF all
  <1> QED
    BY <1>1, <1>2, <1>3, <1>4, <1>5 DEF Unload!Next

LEMMA UnloadKept == UnloadInv => Unload!ServerKnowsTheLoad
  BY DEF UnloadInv, UnloadGood, Unload!ServerKnowsTheLoad

-----------------------------------------------------------------------------
(* ContainerJobs: a container holds no more on the server than here, unless it was filled anew. *)

LEMMA JobInit == Job!Init => JobInv
  BY DEF Job!Init, JobInv, JobGood, JobFields, JobTables

LEMMA JobSame ==
  ASSUME NEW j, NEW t, JobGood(j), JobLike(t, j)
  PROVE  JobGood(t)
  BY DEF JobGood, JobLike

\* What becomes of the target, without what is in it.
LEMMA JobCounted ==
  ASSUME NEW j, JobGood(j)
  PROVE  /\ JobGood(Job!Done(j)) /\ JobGood(Job!Skipped(j)) /\ JobGood(Job!Cancelled(j))
         /\ JobLike(Job!Cancelled(j), j)
  <1>1. JobLike(Job!Done(j), j) /\ JobLike(Job!Skipped(j), j) /\ JobLike(Job!Cancelled(j), j)
    BY DEF Job!Done, Job!Skipped, Job!Cancelled, JobGood, JobLike, JobFields
  <1> QED
    BY <1>1, JobSame

\* A container that loses a batch loses it on the server too.
LEMMA JobEmptied ==
  ASSUME NEW j, JobGood(j), NEW c \in Places, j.here[c] > 0
  PROVE  JobGood(Job!Emptied(j, c))
  <1> DEFINE here == [j.here EXCEPT ![c] = j.here[c] - 1]
             server == [j.server EXCEPT ![c] = IF j.server[c] > 0 THEN j.server[c] - 1 ELSE 0]
             t == Job!Emptied(j, c)
  <1>0. DOMAIN j = JobFields /\ j.here \in JobTables /\ j.server \in JobTables
    BY DEF JobGood
  <1>1. t = [j EXCEPT !.server = server, !.here = here]
    BY <1>0 DEF Job!Emptied, JobFields
  <1>2. /\ here \in JobTables /\ server \in JobTables
        /\ \A d \in Places : server[d] > here[d] => j.server[d] > j.here[d]
    BY <1>0 DEF JobTables
  <1> HIDE DEF here, server
  <1>3. DOMAIN t = JobFields /\ t.placed = j.placed /\ t.here = here /\ t.server = server /\ t.refills = j.refills
    BY <1>0, <1>1 DEF JobFields
  <1> QED
    BY <1>2, <1>3 DEF JobGood

\* One that is filled is marked.
LEMMA JobRefilled ==
  ASSUME NEW j, JobGood(j), NEW c \in Places
  PROVE  JobGood(Job!Refilled(j, c))
  <1> DEFINE server == [j.server EXCEPT ![c] = IF j.server[c] = 0 THEN 1 ELSE j.server[c]]
             refill == [container |-> c, here |-> j.here[c], by |-> j.link, of |-> j.connection]
             refills == j.refills \cup {refill}
             t == Job!Refilled(j, c)
  <1>0. DOMAIN j = JobFields /\ j.here \in JobTables /\ j.server \in JobTables
    BY DEF JobGood
  <1>1. \E filled, twice : t = [j EXCEPT !.server = server, !.filled = filled, !.twice = twice, !.refills = refills]
    BY <1>0 DEF Job!Refilled, JobFields
  <1>2. /\ server \in JobTables
        /\ \A d \in Places \ {c} : server[d] = j.server[d]
        /\ refill.container = c
    BY <1>0 DEF JobTables
  <1> HIDE DEF server, refill
  <1>3. DOMAIN t = JobFields /\ t.placed = j.placed /\ t.here = j.here /\ t.server = server /\ t.refills = refills
    BY <1>0, <1>1 DEF JobFields
  <1> QED
    BY <1>2, <1>3 DEF JobGood

\* A turn of the loop, and four of them.
LEMMA JobTurn ==
  ASSUME NEW j, JobGood(j)
  PROVE  JobGood(Job!Step(j))
  <1> DEFINE c == Head(j.targets)
             left == IF j.here[c] > 0 THEN Job!Emptied(j, c) ELSE j
  <1>1. ASSUME c \in j.placed PROVE c \in Places /\ JobGood(left)
    BY <1>1, JobEmptied DEF JobGood
  <1>2. Job!Handled(j) = IF c \notin j.placed THEN Job!Skipped(j)
                         ELSE IF left.here[c] > 0 THEN left
                         ELSE Job!Done(IF j.reroll THEN Job!Refilled(left, c) ELSE left)
    BY DEF Job!Handled
  <1> HIDE DEF c, left
  <1>3. JobGood(Job!Handled(j))
    BY <1>1, <1>2, JobCounted, JobRefilled
  <1> QED
    BY <1>3 DEF Job!Step

LEMMA JobStepped ==
  ASSUME NEW j, JobGood(j)
  PROVE  JobGood(Job!Stepped(j))
  BY JobTurn, JobCounted DEF Job!Stepped

LEMMA JobRun ==
  ASSUME JobGood(state), Job!Run
  PROVE  JobGood(state')
  <1> DEFINE moved == [Job!Cancelled(state) EXCEPT !.previous = IF Job!Ready THEN player ELSE NoPlayer,
                                                  !.previousLink = state.link]
             begun == IF Job!Moved THEN moved ELSE state
  <1>1. JobGood(begun)
    <2>1. JobLike(moved, Job!Cancelled(state)) /\ JobGood(Job!Cancelled(state))
      BY JobCounted DEF JobGood, JobLike, JobFields
    <2> HIDE DEF moved
    <2> QED
      BY <2>1, JobSame
  <1>2. \/ \E rounds : \/ state' = [begun EXCEPT !.rounds = rounds]
                       \/ state' = [Job!Cancelled(begun) EXCEPT !.rounds = rounds]
                       \/ state' = [Job!Stepped(begun) EXCEPT !.rounds = rounds]
        \/ \E c \in begun.placed :
             state' = Job!Cancelled([begun EXCEPT !.server[c] = IF @ > 0 THEN @ - 1 ELSE 0])
    <2> DEFINE underWay == Job!Ready /\ begun.owner # NoPlayer
               stepped == IF ~underWay THEN begun ELSE IF Job!Stale(begun) THEN Job!Cancelled(begun) ELSE Job!Stepped(begun)
               emptied(c) == Job!Cancelled([begun EXCEPT !.server[c] = IF @ > 0 THEN @ - 1 ELSE 0])
    <2>1. \/ state' = [stepped EXCEPT !.rounds = IF underWay THEN @ + 1 ELSE @]
          \/ Head(begun.targets) \in begun.placed /\ state' = emptied(Head(begun.targets))
      BY DEF Job!Run
    <2> HIDE DEF begun, emptied, underWay
    <2>2. \/ \E rounds : state' = [stepped EXCEPT !.rounds = rounds]
          \/ \E c \in begun.placed : state' = emptied(c)
      BY <2>1
    <2> QED
      BY <2>2 DEF emptied
  <1> HIDE DEF begun
  <1>3. ASSUME NEW j, JobGood(j), NEW rounds, NEW t, t = [j EXCEPT !.rounds = rounds]
        PROVE  JobGood(t)
    <2>1. JobLike(t, j)
      BY <1>3 DEF JobGood, JobLike, JobFields
    <2> QED
      BY <1>3, <2>1, JobSame
  <1>4. ASSUME NEW c \in begun.placed
        PROVE  JobGood(Job!Cancelled([begun EXCEPT !.server[c] = IF @ > 0 THEN @ - 1 ELSE 0]))
    <2> DEFINE server == [begun.server EXCEPT ![c] = IF begun.server[c] > 0 THEN begun.server[c] - 1 ELSE 0]
               t == [begun EXCEPT !.server[c] = IF @ > 0 THEN @ - 1 ELSE 0]
    <2>0. DOMAIN begun = JobFields /\ begun.here \in JobTables /\ begun.server \in JobTables /\ c \in Places
      BY <1>1 DEF JobGood
    <2>1. t = [begun EXCEPT !.server = server]
      BY <2>0 DEF JobFields
    <2>2. /\ server \in JobTables /\ \A d \in Places : server[d] > begun.here[d] => begun.server[d] > begun.here[d]
      BY <1>1, <2>0 DEF JobTables, JobGood
    <2> HIDE DEF server
    <2>3. DOMAIN t = JobFields /\ t.placed = begun.placed /\ t.here = begun.here /\ t.server = server
          /\ t.refills = begun.refills
      BY <2>0, <2>1 DEF JobFields
    <2> HIDE DEF t
    <2>4. JobGood(t)
      BY <1>1, <2>2, <2>3 DEF JobGood
    <2>5. JobGood(Job!Cancelled(t))
      BY <2>4, JobCounted
    <2> QED
      BY <2>5 DEF t
  <1> QED
    BY <1>1, <1>2, <1>3, <1>4, JobCounted, JobStepped

LEMMA JobStep == JobInv /\ [Job!Next]_all => JobInv'
  <1> SUFFICES ASSUME JobGood(state), [Job!Next]_all PROVE JobGood(state')
    BY DEF JobInv, JobGood
  <1>0. DOMAIN state = JobFields /\ state.here \in JobTables /\ state.server \in JobTables /\ state.placed \subseteq Places
    BY DEF JobGood
  <1>1. CASE Job!Live \/ Job!Reconnect \/ \E c \in Places : Job!Move(c)
    <2>1. ASSUME NEW link, state' = [state EXCEPT !.link = link] PROVE JobLike(state', state)
      BY <1>0, <2>1 DEF JobLike, JobFields
    <2>2. JobLike(state', state)
      BY <1>0, <1>1, <2>1 DEF Job!Live, Job!Reconnect, Job!Move, JobLike, JobFields
    <2> QED
      BY <2>2, JobSame
  <1>2. ASSUME NEW c \in Places, Job!Put(c) \/ Job!Arrive(c) PROVE JobGood(state')
    <2>1. ASSUME NEW here, NEW server, here \in JobTables, server \in JobTables,
                 \A d \in Places : server[d] > here[d] => state.server[d] > state.here[d],
                 state' = [state EXCEPT !.here = here, !.server = server]
          PROVE  JobGood(state')
      <3>1. DOMAIN state' = JobFields /\ state'.here = here /\ state'.server = server
            /\ state'.placed = state.placed /\ state'.refills = state.refills
        BY <1>0, <2>1 DEF JobFields
      <3> QED
        BY <2>1, <3>1 DEF JobGood
    <2>2. CASE Job!Put(c)
      <3> DEFINE here == [state.here EXCEPT ![c] = state.here[c] + 1]
                 server == [state.server EXCEPT ![c] = state.server[c] + 1]
      <3>1. state' = [state EXCEPT !.here = here, !.server = server]
        BY <1>0, <2>2 DEF Job!Put, JobFields
      <3>2. here \in JobTables /\ server \in JobTables
            /\ \A d \in Places : server[d] > here[d] => state.server[d] > state.here[d]
        BY <1>0 DEF JobTables
      <3> QED
        BY <2>1, <3>1, <3>2
    <2>3. CASE Job!Arrive(c)
      <3> DEFINE here == [state.here EXCEPT ![c] = state.server[c]]
      <3>1. state' = [state EXCEPT !.here = here, !.server = state.server]
        BY <1>0, <2>3 DEF Job!Arrive, JobFields
      <3>2. here \in JobTables
            /\ \A d \in Places : state.server[d] > here[d] => state.server[d] > state.here[d]
        BY <1>0 DEF JobTables
      <3> QED
        BY <1>0, <2>1, <3>1, <3>2
    <2> QED
      BY <1>2, <2>2, <2>3
  <1>3. ASSUME NEW reroll, Job!Begin(reroll) PROVE JobGood(state')
    <2>1. JobLike(state', state)
      <3> DEFINE filled == [c \in Places |-> 0]
      <3>1. \E order : state' = [state EXCEPT !.owner = player, !.connection = state.link, !.reroll = reroll,
                                   !.completed = 0, !.skipped = 0, !.targets = order, !.total = Len(order),
                                   !.filled = filled]
        BY <1>3 DEF Job!Begin
      <3> HIDE DEF filled
      <3> QED
        BY <1>0, <3>1 DEF JobLike, JobFields
    <2> QED
      BY <2>1, JobSame
  <1>4. CASE Job!Run
    BY <1>4, JobRun
  <1>5. CASE UNCHANGED all
    BY <1>5 DEF all
  <1> QED
    BY <1>1, <1>2, <1>3, <1>4, <1>5 DEF Job!Next

LEMMA JobKept == JobInv => Job!RemovedIsRemovedThere
  BY DEF JobInv, JobGood, Job!RemovedIsRemovedThere

-----------------------------------------------------------------------------
(* PlayerWeapon: a jam that is cleared here is cleared on the server. *)

JamLike(t, s) ==
  /\ DOMAIN t = WeaponFields /\ t.jammed = s.jammed
  /\ t.jammedOnServer = s.jammedOnServer /\ t.unsent = s.unsent

LEMMA JamInit == Weapon!Init => JamInv
  BY DEF Weapon!Init, JamInv, JamGood, WeaponFields

LEMMA JamSame ==
  ASSUME NEW s, NEW t, NEW online, JamGood(s, online), JamLike(t, s)
  PROVE  JamGood(t, online)
  BY DEF JamGood, JamLike

\* The chances are written without the jam.
LEMMA JamTracked ==
  ASSUME NEW s, DOMAIN s = WeaponFields
  PROVE  /\ \A ok : JamLike(Weapon!Released(s, ok), s)
         /\ \A ok : JamLike(Weapon!Unhanded(s, ok), s) /\ JamLike(Weapon!Tracked(s, ok), s)
  <1>1. ASSUME NEW tracked, NEW original, NEW chance, NEW lost, NEW t,
               t = [s EXCEPT !.tracked = tracked, !.original = original, !.chance = chance, !.lost = lost]
        PROVE  JamLike(t, s)
    BY <1>1 DEF JamLike, WeaponFields
  <1>2. ASSUME NEW ok PROVE JamLike(Weapon!Released(s, ok), s)
    <2>1. CASE s.tracked = NoWeapon
      BY <2>1 DEF Weapon!Released, JamLike
    <2>2. CASE s.tracked # NoWeapon
      <3> DEFINE lost == IF ok /\ s.original = s.base[s.tracked] THEN s.lost ELSE s.lost \cup {s.tracked}
                 value == IF ok THEN s.original ELSE s.chance[s.tracked]
                 chance == [s.chance EXCEPT ![s.tracked] = value]
      <3>1. Weapon!Released(s, ok) = [s EXCEPT !.tracked = NoWeapon, !.original = 0, !.chance = chance, !.lost = lost]
        BY <2>2 DEF Weapon!Released, WeaponFields
      <3> HIDE DEF lost, value, chance
      <3> QED
        BY <1>1, <3>1
    <2> QED
      BY <2>1, <2>2
  <1>3. ASSUME NEW r, JamLike(r, s), NEW tracked, NEW original, NEW t,
               t = [r EXCEPT !.tracked = tracked, !.original = original] \/ t = [r EXCEPT !.original = original]
        PROVE  JamLike(t, s)
    BY <1>3 DEF JamLike, WeaponFields
  <1>4. ASSUME NEW ok PROVE JamLike(Weapon!Unhanded(s, ok), s) /\ JamLike(Weapon!Tracked(s, ok), s)
    <2> DEFINE u == Weapon!Unhanded(s, ok)
               r == [u EXCEPT !.tracked = s.held, !.original = s.chance[s.held]]
               t == IF s.tracked = s.held THEN s ELSE r
    <2>1. JamLike(s, s)
      BY DEF JamLike
    <2>5. JamLike(u, s)
      BY <1>2, <2>1 DEF Weapon!Unhanded
    <2> HIDE DEF u
    <2>2. JamLike(r, s)
      BY <1>3, <2>5
    <2>3. Weapon!Tracked(s, ok) = IF s.chance[s.held] = 0 THEN t ELSE [t EXCEPT !.original = s.chance[s.held]]
      BY DEF Weapon!Tracked, u
    <2> HIDE DEF r
    <2>4. JamLike(t, s)
      BY <2>1, <2>2
    <2> HIDE DEF t
    <2> QED
      BY <1>3, <2>3, <2>4, <2>5 DEF u
  <1> QED
    BY <1>2, <1>4

LEMMA JamCleared ==
  ASSUME NEW s, NEW sent, JamGood(s, Weapon!Online)
  PROVE  JamGood(Weapon!Unjammed(s, sent), Weapon!Online)
  <1> DEFINE there == s.jammedOnServer /\ ~sent
             online == Weapon!Online
             unsent == online /\ ~sent
             t == [s EXCEPT !.jammed = FALSE, !.jammedOnServer = there, !.unsent = unsent]
  <1>1. there => online /\ unsent
    BY DEF JamGood
  <1>2. Weapon!Unjammed(s, sent) = IF ~s.jammed THEN s ELSE t
    BY DEF Weapon!Unjammed
  <1> HIDE DEF there, unsent, online
  <1>3. DOMAIN t = WeaponFields /\ t.jammed = FALSE /\ t.jammedOnServer = there /\ t.unsent = unsent
    BY DEF JamGood, WeaponFields
  <1> HIDE DEF t
  <1>4. JamGood(t, online)
    BY <1>1, <1>3 DEF JamGood
  <1> QED
    BY <1>2, <1>4 DEF online

LEMMA JamStep == JamInv /\ [Weapon!Next]_all => JamInv'
  <1> SUFFICES ASSUME JamGood(state, Weapon!Online), [Weapon!Next]_all PROVE JamGood(state', session' = "multiplayer")
    BY DEF JamInv, JamGood, Weapon!Online
  <1> DEFINE Stays == session' = session /\ JamGood(state', Weapon!Online)
  <1>0. DOMAIN state = WeaponFields
    BY DEF JamGood
  <1>1. ASSUME NEW w, NEW n, state' = Weapon!Holding(w, n) PROVE \A online : JamGood(state', online)
    BY <1>0, <1>1 DEF Weapon!Holding, JamGood, WeaponFields
  <1>2. CASE Weapon!Live
    BY <1>1, <1>2 DEF Weapon!Live
  <1>3. ASSUME NEW w \in Weapons \cup {NoWeapon}, Weapon!Hold(w) PROVE Stays
    BY <1>1, <1>3 DEF Weapon!Hold, Weapon!game
  <1>4. ASSUME Weapon!Shoot PROVE Stays
    <2>1. PICK jam \in BOOLEAN :
            state' = [state EXCEPT !.rounds = @ - 1, !.fired = TRUE, !.jammed = jam,
                        !.jammedOnServer = (@ \/ jam) /\ Weapon!Online]
      BY <1>4 DEF Weapon!Shoot
    <2> DEFINE there == (state.jammedOnServer \/ jam) /\ Weapon!Online
    <2>2. there => Weapon!Online /\ (jam \/ state.unsent)
      BY <1>4 DEF Weapon!Shoot, JamGood
    <2>3. state' = [state EXCEPT !.rounds = @ - 1, !.fired = TRUE, !.jammed = jam, !.jammedOnServer = there]
      BY <2>1
    <2> HIDE DEF there
    <2>4. /\ DOMAIN state' = WeaponFields /\ state'.jammed = jam
          /\ state'.jammedOnServer = there /\ state'.unsent = state.unsent
      BY <1>0, <2>3 DEF WeaponFields
    <2> QED
      BY <1>4, <2>2, <2>4 DEF JamGood, Weapon!Shoot, Weapon!game
  <1>5. ASSUME \/ Weapon!ChangeClip \/ Weapon!Modify \/ Weapon!UpdateAmmo
               \/ \E on \in BOOLEAN : Weapon!SetNoWeaponJamEnabled(on) \/ Weapon!SetInfiniteAmmoEnabled(on)
        PROVE  Stays
    <2>1. ASSUME Weapon!Modify PROVE JamLike(state', state)
      <3> DEFINE value == 3 - state.base[state.held]
                 base == [state.base EXCEPT ![state.held] = value]
                 chance == [state.chance EXCEPT ![state.held] = value]
                 lost == state.lost \ {state.held}
      <3>1. state' = [state EXCEPT !.base = base, !.chance = chance, !.lost = lost]
        BY <1>0, <2>1 DEF Weapon!Modify, WeaponFields
      <3> HIDE DEF value, base, chance, lost
      <3> QED
        BY <1>0, <3>1 DEF JamLike, WeaponFields
    <2>2. ASSUME Weapon!UpdateAmmo PROVE JamLike(state', state)
      <3> DEFINE refilled == ~state.fired
                 rounds == Capacity[state.held] - 1
      <3>1. state' = [state EXCEPT !.rounds = rounds, !.fired = FALSE, !.refilled = refilled]
        BY <2>2 DEF Weapon!UpdateAmmo
      <3> HIDE DEF refilled, rounds
      <3> QED
        BY <1>0, <3>1 DEF JamLike, WeaponFields
    <2>3. ASSUME \/ Weapon!ChangeClip
                 \/ \E on \in BOOLEAN : Weapon!SetNoWeaponJamEnabled(on) \/ Weapon!SetInfiniteAmmoEnabled(on)
          PROVE  JamLike(state', state)
      BY <1>0, <2>3
      DEF Weapon!ChangeClip, Weapon!SetNoWeaponJamEnabled, Weapon!SetInfiniteAmmoEnabled, JamLike, WeaponFields
    <2> QED
      BY <1>5, <2>1, <2>2, <2>3, JamSame
      DEF Weapon!ChangeClip, Weapon!Modify, Weapon!UpdateAmmo, Weapon!SetNoWeaponJamEnabled,
          Weapon!SetInfiniteAmmoEnabled, Weapon!game
  <1>6. ASSUME Weapon!UpdateReliability PROVE Stays
    <2>1. \/ \E ok : state' = Weapon!Released(state, ok)
          \/ \E ok, sent :
               state' \in {Weapon!Unhanded(state, ok), Weapon!Tracked(state, ok), Weapon!Reliable(state, ok),
                          Weapon!Unjammed(Weapon!Reliable(state, ok), sent)}
      BY <1>6 DEF Weapon!UpdateReliability
    <2>2. ASSUME NEW ok PROVE JamLike(Weapon!Reliable(state, ok), state)
      <3> DEFINE tracked == Weapon!Tracked(state, ok)
      <3>1. JamLike(tracked, state)
        BY <1>0, JamTracked
      <3>2. Weapon!Reliable(state, ok) = [tracked EXCEPT !.chance[state.held] = 0]
        BY DEF Weapon!Reliable
      <3> HIDE DEF tracked
      <3> QED
        BY <3>1, <3>2 DEF JamLike, WeaponFields
    <2>3. session' = session
      BY <1>6 DEF Weapon!UpdateReliability, Weapon!game
    <2>4. JamGood(state', Weapon!Online)
      BY <1>0, <2>1, <2>2, JamTracked, JamSame, JamCleared
    <2> QED
      BY <2>3, <2>4
  <1>7. ASSUME UNCHANGED all PROVE Stays
    BY <1>7 DEF all, game
  <1> QED
    BY <1>2, <1>3, <1>4, <1>5, <1>6, <1>7 DEF Weapon!Next, Weapon!Online

LEMMA JamKept == JamInv => Weapon!ServerKnowsTheJam
  BY DEF JamInv, JamGood, Weapon!ServerKnowsTheJam

-----------------------------------------------------------------------------
(* HandTools: the server knows the clothes that are mended. *)

\* The server knows of what is mended, or the telling failed.
ClothesGood(h) ==
  /\ DOMAIN h = HandFields
  /\ h.mended \subseteq h.told \cup h.lost

ClothesInv == ClothesGood(state)

ClothesLike(t, h) ==
  DOMAIN t = HandFields /\ t.mended = h.mended /\ t.told = h.told /\ t.lost = h.lost

LEMMA ClothesInit == Hand!Init => ClothesInv
  BY DEF Hand!Init, ClothesInv, ClothesGood, HandFields

\* The weapon is looked after without the clothes.
LEMMA ClothesArmed ==
  ASSUME NEW h, DOMAIN h = HandFields
  PROVE  ClothesLike(Hand!Restored(h), h) /\ ClothesLike(Hand!Armed(h), h)
  <1>1. ASSUME NEW a, DOMAIN a = HandFields PROVE ClothesLike(Hand!Restored(a), a)
    <2> DEFINE value == Hand!Given(a)
    <2>1. Hand!Restored(a) = [a EXCEPT !.value = value, !.weapon = NoWeapon, !.applied = {}]
      BY DEF Hand!Restored
    <2> HIDE DEF value
    <2> QED
      BY <1>1, <2>1 DEF ClothesLike, HandFields
  <1>2. ASSUME NEW a, DOMAIN a = HandFields, NEW g PROVE ClothesLike(Hand!Apply(a, g), a)
    <2> DEFINE original == [a.original EXCEPT ![g] = IF g \in a.applied THEN a.original[g] ELSE a.value[a.weapon][g]]
               ours == [a.value EXCEPT ![a.weapon][g] = "ours"]
               given == [a.value EXCEPT ![a.weapon][g] = a.original[g]]
    <2>1. Hand!Apply(a, g) = IF g \in a.flags
                             THEN [a EXCEPT !.original = original, !.value = ours, !.applied = @ \cup {g}]
                             ELSE IF g \in a.applied
                             THEN [a EXCEPT !.value = given, !.applied = @ \ {g}] ELSE a
      BY <1>2 DEF Hand!Apply, HandFields
    <2> HIDE DEF original, ours, given
    <2> QED
      BY <1>2, <2>1 DEF ClothesLike, HandFields
  <1> DEFINE changed == IF h.weapon # h.held THEN [Hand!Restored(h) EXCEPT !.weapon = h.held] ELSE h
  <1>3. ClothesLike(changed, h)
    <2>1. ClothesLike(Hand!Restored(h), h)
      BY <1>1
    <2> QED
      BY <2>1 DEF ClothesLike, HandFields
  <1>4. Hand!Armed(h) = IF changed.weapon = NoWeapon THEN changed
                        ELSE Hand!Apply(Hand!Apply(changed, "critical"), "minimum")
    BY DEF Hand!Armed
  <1> HIDE DEF changed
  <1>5. ClothesLike(Hand!Apply(Hand!Apply(changed, "critical"), "minimum"), h)
    <2>1. ClothesLike(Hand!Apply(changed, "critical"), h)
      BY <1>2, <1>3 DEF ClothesLike
    <2> QED
      BY <1>2, <2>1 DEF ClothesLike
  <1> QED
    BY <1>1, <1>3, <1>4, <1>5

LEMMA ClothesStep == ClothesInv /\ [Hand!Next]_all => ClothesInv'
  <1> SUFFICES ASSUME ClothesGood(state), [Hand!Next]_all PROVE ClothesGood(state')
    BY DEF ClothesInv, ClothesGood
  <1>0. DOMAIN state = HandFields
    BY DEF ClothesGood
  <1>1. ASSUME NEW t, ClothesLike(t, state) PROVE ClothesGood(t)
    BY <1>1 DEF ClothesGood, ClothesLike
  <1>2. CASE Hand!Live \/ \E w \in Weapons \cup {NoWeapon} : Hand!Take(w)
    BY <1>0, <1>1, <1>2 DEF Hand!Live, Hand!Take, ClothesLike, HandFields
  <1>3. ASSUME NEW w, NEW g, Hand!Alter(w, g) PROVE ClothesGood(state')
    <2> DEFINE value == [state.value EXCEPT ![w][g] = "altered"]
               altered == IF state.value[w][g] = "ours" THEN state.altered ELSE state.altered \cup {<<w, g>>}
    <2>1. state' = [state EXCEPT !.value = value, !.altered = altered]
      BY <1>0, <1>3 DEF Hand!Alter, HandFields
    <2> HIDE DEF value, altered
    <2> QED
      BY <1>0, <1>1, <2>1 DEF ClothesLike, HandFields
  <1>4. ASSUME NEW c, Hand!Tear(c) PROVE ClothesGood(state')
    BY <1>0, <1>4 DEF Hand!Tear, ClothesGood, HandFields
  <1>5. ASSUME NEW f, Hand!Switch(f) PROVE ClothesGood(state')
    <2>1. \E flags : state' = [state EXCEPT !.flags = flags]
      BY <1>5 DEF Hand!Switch
    <2> QED
      BY <1>0, <1>1, <2>1 DEF ClothesLike, HandFields
  <1>6. CASE Hand!Run
    <2> DEFINE begun == IF Hand!Moved THEN [Hand!Restored(state) EXCEPT !.previous = player] ELSE state
               armed == IF player = NoPlayer THEN begun ELSE Hand!Armed(begun)
    <2>1. \E upTo, told : state' = Hand!Mend(armed, upTo, told)
      BY <1>6 DEF Hand!Run
    <2>2. ClothesLike(begun, state)
      <3>1. ClothesLike(Hand!Restored(state), state)
        BY <1>0, ClothesArmed
      <3> QED
        BY <1>0, <3>1 DEF ClothesLike, HandFields
    <2> HIDE DEF begun
    <2>3. ClothesLike(armed, state)
      BY <2>2, ClothesArmed DEF ClothesLike
    <2> HIDE DEF armed
    <2>4. ASSUME NEW upTo, NEW told PROVE ClothesGood(Hand!Mend(armed, upTo, told))
      BY <1>1, <2>3 DEF Hand!Mend, ClothesGood, ClothesLike, HandFields
    <2> QED
      BY <2>1, <2>4
  <1>7. CASE UNCHANGED all
    BY <1>7 DEF all
  <1> QED
    BY <1>2, <1>3, <1>4, <1>5, <1>6, <1>7 DEF Hand!Next

LEMMA ClothesKept == ClothesInv => Hand!ServerKnowsTheClothes
  BY DEF ClothesInv, ClothesGood, Hand!ServerKnowsTheClothes

-----------------------------------------------------------------------------
(* ZombieTools: what the server was not told of this client's zombies is to be published. *)

ZombieTold == [Things -> [useless : BOOLEAN, struck : BOOLEAN]]

\* The server was told how a zombie is.
ToldRight(z, x) == z.told[x].useless = z.useless[x] /\ (z.told[x].struck <=> x \in z.struck)

\* What the server was not told of this client's zombies is on its way.
ToldGood(z, online) ==
  /\ DOMAIN z = ZombieFields /\ z.present \subseteq Things
  /\ z.useless \in ZombieValues /\ z.original \in ZombieValues /\ z.told \in ZombieTold
  /\ online => \A x \in (z.local \cap z.present) \ (z.strayed \cup z.missed) :
                 ToldRight(z, x) \/ x \in z.pending

\* In the first world nothing was done yet.
ToldFresh(z) == z.known = {} /\ \A x \in Things : ToldRight(z, x)

ToldInv == ToldGood(state, session = "multiplayer") /\ (met = {} => ToldFresh(state))

\* A state that a tool makes of this one.
ToldFit(z) == ToldGood(z, Zombie!Online) /\ z.local = state.local

ToldLike(t, z) ==
  /\ DOMAIN t = ZombieFields
  /\ t.useless = z.useless /\ t.original = z.original /\ t.told = z.told /\ t.known = z.known
  /\ t.struck = z.struck /\ t.pending = z.pending
  /\ t.present = z.present /\ t.local = z.local /\ t.strayed = z.strayed /\ t.missed = z.missed

LEMMA ToldInit == Zombie!Init => ToldInv
  <1> SUFFICES ASSUME Zombie!Init PROVE ToldInv
    OBVIOUS
  <1>1. PICK own \in [Things -> BOOLEAN], passive \in BOOLEAN :
       state = [flags |-> {}, link |-> 0, retained |-> 0, previousLink |-> 0,
                 previous |-> NoPlayer, seenOff |-> NoPlayer, invisibleOriginal |-> FALSE,
                 present |-> {}, local |-> {}, struck |-> {}, known |-> {}, pending |-> {},
                 strayed |-> {}, missed |-> {}, own |-> own, useless |-> own,
                 original |-> [z \in Things |-> FALSE],
                 told |-> [z \in Things |-> [useless |-> own[z], struck |-> FALSE]],
                 passive |-> passive, passiveOwn |-> passive, passiveApplied |-> FALSE,
                 passiveOriginal |-> FALSE, invisible |-> {}]
    BY DEF Zombie!Init
  <1> DEFINE told == [z \in Things |-> [useless |-> own[z], struck |-> FALSE]]
             original == [z \in Things |-> FALSE]
  <1>2. told \in ZombieTold /\ original \in ZombieValues /\ own \in ZombieValues
    BY DEF ZombieTold, ZombieValues
  <1>3. \A z \in Things : told[z].useless = own[z] /\ told[z].struck = FALSE
    OBVIOUS
  <1>4. /\ DOMAIN state = ZombieFields /\ state.present = {} /\ state.known = {} /\ state.struck = {}
        /\ state.useless = own /\ state.original = original /\ state.told = told
    BY <1>1 DEF ZombieFields
  <1> HIDE DEF told, original
  <1> QED
    BY <1>2, <1>3, <1>4 DEF ToldInv, ToldGood, ToldFresh, ToldRight

LEMMA ToldSame ==
  ASSUME NEW z, NEW t, ToldLike(t, z)
  PROVE  /\ ToldFit(z) => ToldFit(t)
         /\ ToldFresh(z) => ToldFresh(t)
  BY DEF ToldLike, ToldFit, ToldGood, ToldFresh, ToldRight

\* Passive and Invisible do not touch the zombies.
LEMMA ToldPassive ==
  ASSUME NEW z, DOMAIN z = ZombieFields
  PROVE  /\ ToldLike(Zombie!Passive(z), z) /\ ToldLike(Zombie!Seen(z), z) /\ ToldLike(Zombie!Invisible(z), z)
         /\ \A link : ToldLike([z EXCEPT !.retained = link], z)
  <1>0. ToldLike(z, z)
    BY DEF ToldLike
  <1>1. ToldLike(Zombie!Passive(z), z)
    <2>1. \/ Zombie!Passive(z) = z
          \/ \E o, p, a : Zombie!Passive(z) = [z EXCEPT !.passiveOriginal = o, !.passiveApplied = a, !.passive = p]
          \/ \E p, a : Zombie!Passive(z) = [z EXCEPT !.passive = p, !.passiveApplied = a]
      BY DEF Zombie!Passive
    <2> QED
      BY <1>0, <2>1 DEF ToldLike, ZombieFields
  <1>2. ToldLike(Zombie!Seen(z), z)
    <2>1. \/ Zombie!Seen(z) = z
          \/ \E i : Zombie!Seen(z) = [z EXCEPT !.invisible = i, !.seenOff = NoPlayer]
      BY DEF Zombie!Seen
    <2> QED
      BY <1>0, <2>1 DEF ToldLike, ZombieFields
  <1>3. ToldLike(Zombie!Invisible(z), z)
    <2>1. PICK s \in {z, Zombie!Seen(z)} :
            \/ Zombie!Invisible(z) = s
            \/ \E o, i : Zombie!Invisible(z) = [s EXCEPT !.invisibleOriginal = o, !.seenOff = player, !.invisible = i]
      BY DEF Zombie!Invisible
    <2>2. ToldLike(s, z)
      BY <1>0, <1>2, <2>1
    <2> QED
      BY <2>1, <2>2 DEF ToldLike, ZombieFields
  <1>4. ASSUME NEW link PROVE ToldLike([z EXCEPT !.retained = link], z)
    BY <1>0 DEF ToldLike, ZombieFields
  <1> QED
    BY <1>1, <1>2, <1>3, <1>4

\* What is given back is to be published.
LEMMA ToldGivenBack ==
  ASSUME NEW z, ToldFit(z), NEW set, NEW known, NEW t,
         t = [Zombie!GivenBack(z, set) EXCEPT !.known = known]
  PROVE  /\ ToldFit(t)
         /\ ToldFresh(z) /\ set = {} /\ known = {} => ToldFresh(t)
  <1> DEFINE useless == [x \in Things |-> IF x \in set THEN z.original[x] ELSE z.useless[x]]
             b == Zombie!GivenBack(z, set)
  <1>0. /\ DOMAIN z = ZombieFields /\ z.useless \in ZombieValues /\ z.original \in ZombieValues
        /\ z.local = state.local
    BY DEF ToldFit, ToldGood
  <1>1. b = [z EXCEPT !.useless = useless, !.pending = @ \cup set]
    BY <1>0 DEF Zombie!GivenBack, ZombieFields
  <1>2. /\ useless \in ZombieValues
        /\ \A x \in Things : x \notin set => useless[x] = z.useless[x]
    BY <1>0 DEF ZombieValues
  <1> HIDE DEF useless, b
  <1>3. /\ DOMAIN t = ZombieFields /\ t.useless = useless /\ t.original = z.original /\ t.told = z.told
        /\ t.struck = z.struck /\ t.pending = z.pending \cup set /\ t.known = known
        /\ t.present = z.present /\ t.local = z.local /\ t.strayed = z.strayed /\ t.missed = z.missed
    BY <1>0, <1>1 DEF ZombieFields, b
  <1>4. \A x \in Things : x \notin set => (ToldRight(z, x) => ToldRight(t, x))
    BY <1>2, <1>3 DEF ToldRight
  <1> QED
    BY <1>0, <1>2, <1>3, <1>4 DEF ToldFit, ToldGood, ToldFresh

LEMMA ToldForgotten ==
  ASSUME NEW z, ToldFit(z)
  PROVE  /\ ToldFit(Zombie!Forgotten(z)) /\ ToldFit(Zombie!Released(z))
         /\ ToldFresh(z) => ToldFresh(Zombie!Forgotten(z))
  <1>1. \A set, known : ToldFit([Zombie!GivenBack(z, set) EXCEPT !.known = known])
    BY ToldGivenBack
  <1>2. ToldFit(Zombie!Released(z))
    <2> DEFINE gone == {x \in z.known : "useless" \notin z.flags \/ x \notin z.present \/ ~Zombie!Owned(x)}
               b == Zombie!GivenBack(z, {x \in gone : Zombie!Owned(x)})
    <2>1. \E known : Zombie!Released(z) = [b EXCEPT !.known = known]
      BY DEF Zombie!Released
    <2> HIDE DEF gone
    <2> QED
      BY <1>1, <2>1
  <1>3. ToldFresh(z) => ToldFresh(Zombie!Forgotten(z))
    <2> DEFINE set == {x \in z.known : Zombie!Owned(x)}
    <2>1. z.known = {} => set = {}
      OBVIOUS
    <2>2. Zombie!Forgotten(z) = [Zombie!GivenBack(z, set) EXCEPT !.known = {}]
      BY DEF Zombie!Forgotten
    <2> HIDE DEF set
    <2> QED
      BY <2>1, <2>2, ToldGivenBack DEF ToldFresh
  <1> QED
    BY <1>1, <1>2, <1>3 DEF Zombie!Forgotten

\* A zombie that is held is to be published, unless it was still already.
LEMMA ToldHeld ==
  ASSUME NEW z, ToldFit(z)
  PROVE  ToldFit(Zombie!Held(z))
  <1> DEFINE mine == {x \in z.present \ z.struck : Zombie!Owned(x) /\ "useless" \in z.flags}
             original == [x \in Things |-> IF x \in mine \ z.known THEN z.useless[x] ELSE z.original[x]]
             useless == [x \in Things |-> x \in mine \/ z.useless[x]]
             changed == {x \in mine : ~z.useless[x]}
             t == Zombie!Held(z)
  <1>0. /\ DOMAIN z = ZombieFields /\ z.useless \in ZombieValues /\ z.original \in ZombieValues
    BY DEF ToldFit, ToldGood
  <1>1. original \in ZombieValues
    BY <1>0 DEF ZombieValues
  <1>2. useless \in ZombieValues
    BY <1>0 DEF ZombieValues
  <1>3. ASSUME NEW x \in Things, x \notin changed PROVE useless[x] = z.useless[x]
    <2>1. z.useless[x] \in BOOLEAN
      BY <1>0 DEF ZombieValues
    <2>2. useless[x] = (x \in mine \/ z.useless[x])
      OBVIOUS
    <2>3. x \in mine => z.useless[x]
      BY <1>3
    <2> HIDE DEF useless, mine, changed
    <2>4. CASE z.useless[x] = TRUE
      BY <2>2, <2>4
    <2>5. CASE z.useless[x] = FALSE
      <3>1. (x \in mine) = FALSE
        BY <2>3, <2>5
      <3>2. useless[x] = (FALSE \/ FALSE)
        BY <2>2, <2>5, <3>1
      <3> QED
        BY <2>5, <3>2
    <2> QED
      BY <2>1, <2>4, <2>5
  <1>4. t = [z EXCEPT !.known = z.known \cup mine, !.original = original, !.useless = useless,
               !.pending = z.pending \cup changed]
    BY <1>0 DEF Zombie!Held, ZombieFields
  <1> HIDE DEF mine, original, useless, changed, t
  <1>5. /\ DOMAIN t = ZombieFields /\ t.useless = useless /\ t.original = original /\ t.told = z.told
        /\ t.struck = z.struck /\ t.pending = z.pending \cup changed
        /\ t.present = z.present /\ t.local = z.local /\ t.strayed = z.strayed /\ t.missed = z.missed
    BY <1>0, <1>4 DEF ZombieFields
  <1>6. \A x \in Things : x \notin changed => (ToldRight(z, x) => ToldRight(t, x))
    BY <1>3, <1>5 DEF ToldRight
  <1>7. ToldFit(t)
    BY <1>1, <1>2, <1>5, <1>6 DEF ToldFit, ToldGood
  <1> QED
    BY <1>7 DEF t

\* Those that are struck are to be published.
LEMMA ToldStruck ==
  ASSUME NEW z, ToldFit(z), NEW near
  PROVE  ToldFit(Zombie!Struck(z, near))
  <1> DEFINE mine == {x \in near \cap z.present : Zombie!Owned(x) /\ "kill" \in z.flags}
             pending == IF Zombie!Online THEN z.pending \cup mine ELSE z.pending
             t == Zombie!Struck(z, near)
  <1>0. DOMAIN z = ZombieFields
    BY DEF ToldFit, ToldGood
  <1>1. t = [z EXCEPT !.struck = z.struck \cup mine, !.pending = pending]
    BY <1>0 DEF Zombie!Struck, ZombieFields
  <1>2. Zombie!Online => pending = z.pending \cup mine
    OBVIOUS
  <1> HIDE DEF mine, pending, t
  <1>3. /\ DOMAIN t = ZombieFields /\ t.useless = z.useless /\ t.original = z.original /\ t.told = z.told
        /\ t.struck = z.struck \cup mine /\ t.pending = pending
        /\ t.present = z.present /\ t.local = z.local /\ t.strayed = z.strayed /\ t.missed = z.missed
    BY <1>0, <1>1 DEF ZombieFields
  <1>4. \A x \in Things : x \notin mine => (ToldRight(z, x) => ToldRight(t, x))
    BY <1>3 DEF ToldRight
  <1>5. ToldFit(t)
    BY <1>2, <1>3, <1>4 DEF ToldFit, ToldGood
  <1> QED
    BY <1>5 DEF t

\* What is published is as it is here, and the rest of this client's stays to be published.
LEMMA ToldPublish ==
  ASSUME NEW z, ToldFit(z), NEW t \in Zombie!Publish(z)
  PROVE  ToldFit(t) /\ (ToldFresh(z) => ToldFresh(t))
  <1>0. /\ DOMAIN z = ZombieFields /\ z.useless \in ZombieValues /\ z.told \in ZombieTold
        /\ z.local = state.local /\ z.present \subseteq Things
    BY DEF ToldFit, ToldGood
  <1>1. CASE ~Zombie!Online
    <2>1. t = [z EXCEPT !.pending = {}]
      BY <1>1 DEF Zombie!Publish
    <2>2. /\ DOMAIN t = ZombieFields /\ t.useless = z.useless /\ t.original = z.original /\ t.told = z.told
          /\ t.struck = z.struck /\ t.known = z.known /\ t.present = z.present /\ t.local = z.local
      BY <1>0, <2>1 DEF ZombieFields
    <2> QED
      BY <1>1, <2>2 DEF ToldFit, ToldGood, ToldFresh, ToldRight
  <1>2. CASE Zombie!Online /\ t = z
    BY <1>2
  <1>3. ASSUME Zombie!Online, NEW sent, t = Zombie!Published(z, sent)
        PROVE  ToldFit(t) /\ (ToldFresh(z) => ToldFresh(t))
    <2> DEFINE here(x) == [useless |-> z.useless[x], struck |-> x \in z.struck]
               told == [x \in Things |-> IF x \in sent THEN here(x) ELSE z.told[x]]
               pending == {x \in z.pending : Zombie!Owned(x)} \ sent
    <2>1. t = [z EXCEPT !.pending = pending, !.told = told]
      BY <1>0, <1>3 DEF Zombie!Published, ZombieFields
    <2>2. ASSUME NEW x \in Things
          PROVE  /\ here(x) \in [useless : BOOLEAN, struck : BOOLEAN]
                 /\ here(x).useless = z.useless[x] /\ (here(x).struck <=> x \in z.struck)
      <3>1. z.useless[x] \in BOOLEAN /\ (x \in z.struck) \in BOOLEAN
        BY <1>0 DEF ZombieValues
      <3> QED
        BY <3>1
    <2> HIDE DEF here
    <2>3. told \in ZombieTold
      BY <1>0, <2>2 DEF ZombieTold
    <2>4. \A x \in Things : told[x] = IF x \in sent THEN here(x) ELSE z.told[x]
      OBVIOUS
    <2>5. \A x \in z.pending \cap z.local : x \in pending \/ x \in sent
      BY <1>0 DEF Zombie!Owned
    <2> HIDE DEF told, pending
    <2>6. /\ DOMAIN t = ZombieFields /\ t.useless = z.useless /\ t.original = z.original /\ t.told = told
          /\ t.struck = z.struck /\ t.pending = pending /\ t.known = z.known
          /\ t.present = z.present /\ t.local = z.local /\ t.strayed = z.strayed /\ t.missed = z.missed
      BY <1>0, <2>1 DEF ZombieFields
    <2>7. \A x \in Things : x \in sent \/ ToldRight(z, x) => ToldRight(t, x)
      BY <2>2, <2>4, <2>6 DEF ToldRight
    <2>8. ToldFit(t)
      <3>1. ASSUME NEW x \in (t.local \cap t.present) \ (t.strayed \cup t.missed)
            PROVE  ToldRight(t, x) \/ x \in t.pending
        BY <1>0, <1>3, <2>5, <2>6, <2>7 DEF ToldFit, ToldGood
      <3> QED
        BY <2>3, <2>6, <3>1 DEF ToldFit, ToldGood
    <2> QED
      BY <2>6, <2>7, <2>8 DEF ToldFresh
  <1>4. Zombie!Online => t = z \/ \E sent : t = Zombie!Published(z, sent)
    BY DEF Zombie!Publish
  <1> QED
    BY <1>1, <1>2, <1>3, <1>4

LEMMA ToldRestored ==
  ASSUME NEW z, ToldFit(z)
  PROVE  \A t \in Zombie!Restored(z) : ToldFit(t) /\ (ToldFresh(z) => ToldFresh(t))
  <1> DEFINE back(x) == [Zombie!Seen(x) EXCEPT !.passive = IF x.passiveApplied THEN x.passiveOriginal ELSE @,
                                 !.passiveApplied = FALSE]
             f == Zombie!Forgotten(z)
             g == [f EXCEPT !.missed = @ \cup f.pending, !.pending = {}]
  <1>1. ToldFit(f) /\ (ToldFresh(z) => ToldFresh(f))
    BY ToldForgotten
  <1>2. ASSUME NEW x, ToldFit(x) PROVE ToldFit(back(x)) /\ (ToldFresh(x) => ToldFresh(back(x)))
    <2>1. ToldLike(Zombie!Seen(x), x)
      BY <1>2, ToldPassive DEF ToldFit, ToldGood
    <2>2. \E p : back(x) = [Zombie!Seen(x) EXCEPT !.passive = p, !.passiveApplied = FALSE]
      OBVIOUS
    <2> HIDE DEF back
    <2>3. ToldLike(back(x), x)
      BY <2>1, <2>2 DEF ToldLike, ZombieFields
    <2> QED
      BY <1>2, <2>3, ToldSame
  <1>3. \A t \in Zombie!Restored(z) : t = back(g) \/ \E x \in Zombie!Publish(f) : t = back(x)
    BY DEF Zombie!Restored
  <1> HIDE DEF back, f
  <1>4. ToldFit(g) /\ (ToldFresh(f) => ToldFresh(g))
    <2>1. /\ DOMAIN f = ZombieFields
          /\ DOMAIN g = ZombieFields /\ g.useless = f.useless /\ g.original = f.original /\ g.told = f.told
          /\ g.struck = f.struck /\ g.known = f.known /\ g.present = f.present /\ g.local = f.local
          /\ g.strayed = f.strayed /\ g.missed = f.missed \cup f.pending
      BY <1>1 DEF ToldFit, ToldGood, ZombieFields
    <2> HIDE DEF g
    <2> QED
      BY <1>1, <2>1 DEF ToldFit, ToldGood, ToldFresh, ToldRight
  <1> HIDE DEF g
  <1>5. \A x \in Zombie!Publish(f) : ToldFit(x) /\ (ToldFresh(f) => ToldFresh(x))
    BY <1>1, ToldPublish
  <1> QED
    BY <1>1, <1>2, <1>3, <1>4, <1>5

LEMMA ToldWorked ==
  ASSUME NEW z, ToldFit(z), NEW near
  PROVE  ToldFit(Zombie!Worked(z, near))
  <1> DEFINE a == [z EXCEPT !.retained = z.link]
             b == Zombie!Passive(a)
             c == Zombie!Invisible(b)
             d == Zombie!Released(c)
             e == Zombie!Held(d)
  <1>0. \A x : ToldFit(x) => DOMAIN x = ZombieFields
    BY DEF ToldFit, ToldGood
  <1>1. ToldFit(a)
    BY <1>0, ToldPassive, ToldSame
  <1> HIDE DEF a
  <1>2. ToldFit(b)
    BY <1>0, <1>1, ToldPassive, ToldSame
  <1> HIDE DEF b
  <1>3. ToldFit(c)
    BY <1>0, <1>2, ToldPassive, ToldSame
  <1> HIDE DEF c
  <1>4. ToldFit(d)
    BY <1>3, ToldForgotten
  <1> HIDE DEF d
  <1>5. ToldFit(e)
    BY <1>4, ToldHeld
  <1> HIDE DEF e
  <1>6. ToldFit(Zombie!Struck(e, near))
    BY <1>5, ToldStruck
  <1> QED
    BY <1>6 DEF Zombie!Worked, a, b, c, d, e

LEMMA ToldRun ==
  ASSUME ZombieInv, ToldInv, Zombie!Run
  PROVE  ToldFit(state') /\ (met = {} => ToldFresh(state'))
  <1>0. ToldFit(state) /\ (met = {} => ToldFresh(state))
    BY DEF ToldInv, ToldFit, Zombie!Online
  <1>1. ASSUME NEW z \in Zombie!Begun
        PROVE  ToldFit(z) /\ (ToldFresh(state) => ToldFresh(z))
    <2>1. \A x \in Zombie!Restored(state) : ToldFit(x) /\ (ToldFresh(state) => ToldFresh(x))
      BY <1>0, ToldRestored
    <2>2. CASE z = state
      BY <1>0, <2>2
    <2>3. ASSUME NEW x \in Zombie!Restored(state), NEW p, NEW l, z = [x EXCEPT !.previous = p, !.previousLink = l]
          PROVE  ToldFit(z) /\ (ToldFresh(state) => ToldFresh(z))
      <3>1. ToldLike(z, x)
        BY <2>1, <2>3 DEF ToldFit, ToldGood, ToldLike, ZombieFields
      <3> QED
        BY <2>1, <3>1, ToldSame
    <2>4. \/ z = state
          \/ \E x \in Zombie!Restored(state) : \E p, l : z = [x EXCEPT !.previous = p, !.previousLink = l]
      BY DEF Zombie!Begun
    <2> QED
      BY <2>2, <2>3, <2>4
  <1>2. Zombie!Ready => met # {}
    BY PlayerAssumption DEF Zombie!Ready, ZombieInv
  <1>3. \/ state' \in Zombie!Begun
        \/ Zombie!Ready /\ \E z \in Zombie!Begun : \E near : state' \in Zombie!Publish(Zombie!Worked(z, near))
        \/ state' = Zombie!Forgotten(state)
        \/ Zombie!Ready /\ \E z \in Zombie!Begun : \E near : state' = Zombie!Worked(z, near)
    BY DEF Zombie!Run
  <1>4. ASSUME NEW z \in Zombie!Begun, NEW near
        PROVE  /\ ToldFit(Zombie!Worked(z, near))
               /\ \A t \in Zombie!Publish(Zombie!Worked(z, near)) : ToldFit(t)
    <2>1. ToldFit(Zombie!Worked(z, near))
      BY <1>1, ToldWorked
    <2> QED
      BY <2>1, ToldPublish
  <1> QED
    BY <1>0, <1>1, <1>2, <1>3, <1>4, ToldForgotten

LEMMA ToldStep == ZombieInv /\ ToldInv /\ [Zombie!Next]_all => ToldInv'
  <1> SUFFICES ASSUME ZombieInv, ToldInv, [Zombie!Next]_all PROVE ToldInv'
    OBVIOUS
  <1> DEFINE online == session = "multiplayer"
             Stays == UNCHANGED <<session, met>> /\ ToldGood(state', online) /\ (met = {} => ToldFresh(state'))
             Kept(t) == /\ DOMAIN t = ZombieFields
                        /\ t.useless = state.useless /\ t.original = state.original /\ t.known = state.known
                        /\ t.struck = state.struck /\ t.pending = state.pending /\ t.missed = state.missed
  <1>0. /\ ToldGood(state, online) /\ DOMAIN state = ZombieFields /\ (met = {} => ToldFresh(state))
        /\ player \in met \cup {NoPlayer} /\ (player = NoPlayer => state.present = {})
    BY DEF ToldInv, ToldGood, ZombieInv
  <1>1. Stays => ToldInv'
    BY DEF ToldInv, ToldGood, ToldFresh, ToldRight, ZombieFields, ZombieValues, ZombieTold
  <1>2. CASE Zombie!Live
    <2>1. /\ met' # {}
          /\ session' = session \/ state.present = {}
      BY <1>0, <1>2, PlayerAssumption
      DEF Zombie!Live, Zombie!Play, Zombie!LeaveWorld, Zombie!Respawn, Zombie!EnterWorld
    <2>2. \/ state' = [state EXCEPT !.link = 0, !.present = {}, !.local = {}]
          \/ met = {} /\ \E l : state' = [state EXCEPT !.link = l, !.present = Things, !.local = Things]
          \/ \E l : state' = [state EXCEPT !.link = l]
      BY <1>2 DEF Zombie!Live
    <2>3. Kept(state') /\ state'.told = state.told /\ state'.strayed = state.strayed
      BY <1>0, <2>2 DEF ZombieFields
    <2>4. CASE state' = [state EXCEPT !.link = 0, !.present = {}, !.local = {}]
      <3>1. state'.present = {}
        BY <1>0, <2>4 DEF ZombieFields
      <3> QED
        BY <1>0, <2>1, <2>3, <3>1 DEF ToldInv, ToldGood
    <2>5. CASE met = {} /\ \E l : state' = [state EXCEPT !.link = l, !.present = Things, !.local = Things]
      <3>1. state'.present = Things
        BY <1>0, <2>5 DEF ZombieFields
      <3>2. \A x \in Things : ToldRight(state', x)
        BY <1>0, <2>3, <2>5 DEF ToldFresh, ToldRight
      <3> QED
        BY <1>0, <2>1, <2>3, <3>1, <3>2 DEF ToldInv, ToldGood
    <2>6. CASE \E l : state' = [state EXCEPT !.link = l]
      <3>1. state'.present = state.present /\ state'.local = state.local
        BY <1>0, <2>6 DEF ZombieFields
      <3>2. \A x : ToldRight(state, x) => ToldRight(state', x)
        BY <2>3 DEF ToldRight
      <3> QED
        BY <1>0, <2>1, <2>3, <3>1, <3>2 DEF ToldInv, ToldGood
    <2> QED
      BY <2>2, <2>4, <2>5, <2>6
  <1>3. ASSUME Zombie!Disconnect \/ \E f \in Zombie!Flags : Zombie!Switch(f) PROVE Stays
    <2>1. \E l, f : state' = [state EXCEPT !.link = l] \/ state' = [state EXCEPT !.flags = f]
      BY <1>3 DEF Zombie!Disconnect, Zombie!Switch
    <2>2. ToldLike(state', state)
      BY <1>0, <2>1 DEF ToldLike, ZombieFields
    <2>3. ToldGood(state', online) /\ (met = {} => ToldFresh(state'))
      BY <1>0, <2>2 DEF ToldLike, ToldGood, ToldFresh, ToldRight
    <2> QED
      BY <1>3, <2>3 DEF Zombie!Disconnect, Zombie!Switch, Zombie!game
  <1>4. ASSUME NEW z \in Things, Zombie!PassOn(z) \/ Zombie!Unload(z) PROVE Stays
    <2>1. \/ \E s : state.strayed \subseteq s /\ state' = [state EXCEPT !.local = @ \ {z}, !.strayed = s]
          \/ state' = [state EXCEPT !.present = @ \ {z}]
      BY <1>4 DEF Zombie!PassOn, Zombie!Unload
    <2>2. /\ Kept(state') /\ state'.told = state.told /\ state.strayed \subseteq state'.strayed
          /\ state'.present \subseteq state.present /\ state'.local \subseteq state.local
      BY <1>0, <2>1 DEF ZombieFields
    <2>3. ToldGood(state', online) /\ (met = {} => ToldFresh(state'))
      BY <1>0, <2>2 DEF ToldGood, ToldFresh, ToldRight
    <2> QED
      BY <1>4, <2>3 DEF Zombie!PassOn, Zombie!Unload, Zombie!game
  <1>5. ASSUME NEW z \in Things, Zombie!TakeOver(z) PROVE Stays
    <2> DEFINE here == Zombie!Here[z]
               told == [state.told EXCEPT ![z] = here]
    <2>1. state' = [state EXCEPT !.local = @ \cup {z}, !.told = told]
      BY <1>0, <1>5 DEF Zombie!TakeOver, ZombieFields
    <2>2. /\ here \in [useless : BOOLEAN, struck : BOOLEAN]
          /\ here.useless = state.useless[z] /\ (here.struck <=> z \in state.struck)
      <3>1. state.useless[z] \in BOOLEAN /\ (z \in state.struck) \in BOOLEAN
        BY <1>0 DEF ToldGood, ZombieValues
      <3>2. here = [useless |-> state.useless[z], struck |-> z \in state.struck]
        BY DEF Zombie!Here
      <3> HIDE DEF here
      <3> DEFINE struck == z \in state.struck
      <3>3. struck \in BOOLEAN /\ (struck <=> z \in state.struck) /\ here = [useless |-> state.useless[z], struck |-> struck]
        BY <3>2
      <3> HIDE DEF struck
      <3> QED
        BY <3>1, <3>3
    <2> HIDE DEF here
    <2>3. /\ told \in ZombieTold /\ told[z] = here
          /\ \A x \in Things \ {z} : told[x] = state.told[x]
      BY <1>0, <2>2 DEF ToldGood, ZombieTold
    <2> HIDE DEF told
    <2>4. /\ Kept(state') /\ state'.told = told /\ state'.strayed = state.strayed
          /\ state'.present = state.present /\ state'.local = state.local \cup {z}
      BY <1>0, <2>1 DEF ZombieFields
    <2>5. ToldRight(state', z) /\ \A x \in Things : ToldRight(state, x) => ToldRight(state', x)
      BY <2>2, <2>3, <2>4 DEF ToldRight
    <2>6. ToldGood(state', online) /\ (met = {} => ToldFresh(state'))
      BY <1>0, <2>3, <2>4, <2>5 DEF ToldGood, ToldFresh
    <2> QED
      BY <1>5, <2>6 DEF Zombie!TakeOver, Zombie!game
  <1>6. ASSUME Zombie!Run PROVE Stays
    <2>1. ToldFit(state') /\ (met = {} => ToldFresh(state'))
      BY <1>6, ToldRun
    <2> QED
      BY <1>6, <2>1 DEF ToldFit, Zombie!Online, Zombie!Run, Zombie!game
  <1>7. ASSUME UNCHANGED all PROVE Stays
    BY <1>0, <1>7 DEF all, game
  <1> QED
    BY <1>1, <1>2, <1>3, <1>4, <1>5, <1>6, <1>7 DEF Zombie!Next

LEMMA ToldKept == ToldInv => Zombie!ServerKnowsTheZombies
  <1> SUFFICES ASSUME ToldGood(state, Zombie!Online), Zombie!Online,
                      NEW x \in (state.local \cap state.present) \ (state.strayed \cup state.missed),
                      ToldRight(state, x)
               PROVE  state.told[x] = Zombie!Here[x]
    BY DEF ToldInv, ToldGood, Zombie!ServerKnowsTheZombies, Zombie!Online
  <1>1. x \in Things /\ state.told[x] \in [useless : BOOLEAN, struck : BOOLEAN]
    BY DEF ToldGood, ZombieTold
  <1>2. Zombie!Here[x] = [useless |-> state.useless[x], struck |-> x \in state.struck]
    BY <1>1 DEF Zombie!Here
  <1>3. state.told[x] = [useless |-> state.told[x].useless, struck |-> state.told[x].struck]
    BY <1>1
  <1>4. state.told[x].struck = (x \in state.struck)
    <2>1. state.told[x].struck \in BOOLEAN
      BY <1>1
    <2> QED
      BY <2>1 DEF ToldRight
  <1> QED
    BY <1>2, <1>3, <1>4 DEF ToldRight
=============================================================================
