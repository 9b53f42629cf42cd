---------------------------- MODULE PlayerStats ----------------------------
(***************************************************************************)
(* trainer/src/bridge/player_effect_bridge.cpp,                            *)
(* player_condition_bridge.cpp and the thirst route of                     *)
(* server_player_effect_bridge.cpp: the stats of the character are listed  *)
(* for the menu, set on request, and kept low while the user wants it.  On *)
(* a server a change needs a capability to be sent; thirst also has the    *)
(* packet of an ordinary drink, and the body a throttled message.          *)
(*                                                                         *)
(* "fatigue" stands for every stat but thirst.  A stat is 0 at its minimum *)
(* and 2 where protection sets in.                                         *)
(***************************************************************************)
EXTENDS GameSession

CONSTANT Blocking  \* whether a frame bars synchronous calls of the game thread

VARIABLE stats

vars == <<stats, game, bounds>>

Names == {"fatigue", "thirst"}
Wishes == Names \cup {"infection"}
Levels == 0 .. 2

\* here and there are the values in the game and on the server, shown the stats that are
\* high in the catalog's copy;
\* allowed is what the server grants, role what the player's own role says.  current: the
\* last frame saw this player and these rights.  excused are stats the server could not
\* be told of; swallowed is a cleared infection whose message came too soon.
StatsTypeOK ==
  stats \in [blocking : BOOLEAN, here : [Names -> Levels], there : [Names -> Levels],
             shown : SUBSET Names, built : BOOLEAN, listed : SUBSET Names,
             mode : Sessions \cup {"unknown"}, available : BOOLEAN, due : BOOLEAN,
             role : BOOLEAN, allowed : BOOLEAN, current : BOOLEAN, excused : SUBSET Names,
             wanted : SUBSET Wishes, infected : BOOLEAN, infectedThere : BOOLEAN,
             recent : BOOLEAN, swallowed : BOOLEAN, ignored : BOOLEAN]

Init ==
  /\ GameInit
  /\ \E b \in Blocking, role, allowed \in BOOLEAN :
       stats = [blocking |-> b, here |-> [s \in Names |-> 0], there |-> [s \in Names |-> 0],
                shown |-> {}, built |-> FALSE, listed |-> {}, mode |-> "unknown",
                available |-> FALSE, due |-> TRUE,
                role |-> role, allowed |-> allowed, current |-> FALSE, excused |-> {},
                wanted |-> {}, infected |-> FALSE, infectedThere |-> FALSE,
                recent |-> FALSE, swallowed |-> FALSE, ignored |-> FALSE]

-----------------------------------------------------------------------------
(* The game.                                                               *)

Live ==
  /\ Play
  /\ stats' = [stats EXCEPT !.here = [s \in Names |-> 0], !.there = [s \in Names |-> 0],
                 !.current = FALSE, !.excused = {}, !.infected = FALSE,
                 !.infectedThere = FALSE, !.swallowed = FALSE, !.ignored = FALSE]

\* The character tires, gets thirsty or is bitten.
Suffer(what) ==
  /\ player # NoPlayer
  /\ stats' = IF what = "infection"
              THEN [stats EXCEPT !.infected = TRUE, !.infectedThere = Online]
              ELSE [stats EXCEPT !.here[what] = 2, !.there[what] = IF Online THEN 2 ELSE @,
                      !.excused = @ \ {what}, !.ignored = FALSE]
  /\ Request
  /\ UNCHANGED game

\* The rights of the connection change, and with them those of the role, or not yet.
ChangeRole ==
  /\ Online
  /\ \E role \in BOOLEAN :
       stats' = [stats EXCEPT !.allowed = ~@, !.role = role, !.current = FALSE]
  /\ Request
  /\ UNCHANGED game

\* 150 ms have passed.
Elapse ==
  /\ stats.recent \/ ~stats.due
  /\ stats' = [stats EXCEPT !.recent = FALSE, !.due = TRUE]
  /\ UNCHANGED <<game, bounds>>

SetProtectionEnabled(wish, enabled) ==
  /\ stats' = [stats EXCEPT !.wanted = IF enabled THEN @ \cup {wish} ELSE @ \ {wish}]
  /\ Request
  /\ UNCHANGED game

-----------------------------------------------------------------------------
(* The catalog.                                                            *)

\* Faulty variant of HasServerStatSyncCapability: the role of the player decides.
RoleHasCapability(s) == Online /\ s.role

\* Any mirror of the rights will do: the server decides.
HasServerStatSyncCapability(s) == Online /\ (s.role \/ s.allowed)

\* BuildCatalog, read up to where a call fails.  A catalog that was read in part is not
\* empty, and is not built again before the session changes.
Catalog(s, names) == [s EXCEPT !.built = TRUE, !.listed = names, !.shown = {}]

RefreshValues(s) ==
  IF ~s.due THEN s
  ELSE [s EXCEPT !.shown = {n \in s.listed : s.here[n] = 2}, !.due = FALSE]

\* UpdatePlayerEffectBridge.
WithoutPlayer ==
  /\ player = NoPlayer /\ NoFault
  /\ stats' = [stats EXCEPT !.mode = session, !.available = FALSE]

Uninitialized ==
  /\ Fault
  /\ stats' = [stats EXCEPT !.available = FALSE, !.current = FALSE]

WithPlayer ==
  LET rebuild == ~stats.built \/ stats.mode # session
      seen == [stats EXCEPT !.mode = session, !.current = TRUE,
                 !.available = HasServerStatSyncCapability(stats)]
  IN  /\ player # NoPlayer
      /\ \/ /\ NoFault
            /\ stats' = RefreshValues(IF rebuild THEN Catalog(seen, Names) ELSE seen)
         \/ Fault /\ rebuild /\ \E names \in {{}, {"fatigue"}} : stats' = Catalog(seen, names)
         \/ Fault /\ ~rebuild /\ stats' = seen

UpdateEffects ==
  /\ WithoutPlayer \/ Uninitialized \/ WithPlayer
  /\ UNCHANGED <<game, requests>>

-----------------------------------------------------------------------------
(* The stats.                                                              *)

\* What the server has after SendPlayerStatSync: it checks the rights itself.
Synced(s, name, ok) ==
  IF ~Online THEN s
  ELSE IF ok /\ s.available /\ s.allowed
  THEN [s EXCEPT !.there[name] = s.here[name], !.excused = @ \ {name}]
  ELSE IF ok /\ s.current /\ s.allowed THEN s
  ELSE [s EXCEPT !.excused = @ \cup {name}]

\* SetPlayerCharacterStat, ResetPlayerCharacterStat: here, then on the server, in the
\* session the last frame saw; shown again with the next frame.
SetStat(s, name, value, ok) ==
  Synced([s EXCEPT !.here[name] = value, !.due = TRUE], name, ok)

\* Faulty variant of Drink: what is drunk is the new value.
DrinkTarget(s, value) == value - s.here["thirst"]

\* How much the server's thirst falls.
Drink(s, value) == s.here["thirst"] - value

\* SetServerCharacterStat: the packet makes up the difference; then the value here.
DrinkTo(s, value, ok) ==
  LET poured == s.there["thirst"] - Drink(s, value)
      sent == [s EXCEPT !.there["thirst"] =
                 IF ~Online THEN @ ELSE IF poured < 0 THEN 0 ELSE IF poured > 2 THEN 2 ELSE poured]
  IN  IF s.blocking THEN s
      ELSE IF ok THEN [sent EXCEPT !.here["thirst"] = value]
                 ELSE [sent EXCEPT !.excused = @ \cup {"thirst"}]

\* The two buttons of the editor.
Edit(name, value) ==
  /\ name \in stats.listed /\ player # NoPlayer
  /\ \E ok \in BOOLEAN :
       /\ stats' = IF stats.mode = "multiplayer" /\ name = "thirst"
                   THEN DrinkTo(stats, value, ok) ELSE SetStat(stats, name, value, ok)
       /\ ok \/ faults < MaxFaults
       /\ faults' = IF ok THEN faults ELSE faults + 1
  /\ requests < MaxRequests /\ requests' = requests + 1
  /\ UNCHANGED game

\* ProtectStat, by what the catalog shows.
Protects(s, name) ==
  /\ name \in s.wanted \cap s.shown
  /\ Online => s.available \/ name = "thirst"

Protected(s, name, ok) ==
  IF ~Protects(s, name) THEN s
  ELSE IF name = "thirst" /\ ~s.available THEN DrinkTo(s, 0, ok) ELSE SetStat(s, name, 0, ok)

\* Faulty variant of Cleared: nobody is told.
ClearedHere(s) == [s EXCEPT !.infected = FALSE]

\* ClearInfection and SyncPlayerState, at most every 100 ms.
Cleared(s) ==
  IF "infection" \notin s.wanted \/ ~s.infected THEN s
  ELSE [s EXCEPT !.infected = FALSE, !.swallowed = Online /\ s.recent,
                 !.infectedThere = @ /\ s.recent, !.recent = Online]

\* UpdatePlayerConditionBridge: fatigue and its like, thirst, the infection.  ignored: a
\* stat was high, shown so and to be kept low, and is high still.
UpdateCondition ==
  /\ player # NoPlayer
  /\ \E failing \in {"nothing"} \cup Wishes :
       LET tired == Protected(stats, "fatigue", failing # "fatigue")
           thirsty == Protected(tired, "thirst", failing # "thirst")
           after == IF failing = "infection" THEN [thirsty EXCEPT !.infected = FALSE, !.swallowed = Online]
                                             ELSE Cleared(thirsty)
       IN  /\ IF failing = "nothing" THEN NoFault ELSE Fault
           /\ failing = "infection" => "infection" \in stats.wanted /\ stats.infected
           /\ stats' = [after EXCEPT !.ignored =
                          failing = "nothing" /\ \E s \in Names : Protects(stats, s) /\ after.here[s] = 2]
  /\ UNCHANGED <<game, requests>>

Next ==
  \/ Live \/ ChangeRole \/ Elapse
  \/ \E what \in Wishes : Suffer(what) \/ \E on \in BOOLEAN : SetProtectionEnabled(what, on)
  \/ UpdateEffects \/ UpdateCondition
  \/ \E s \in Names, value \in 0 .. 1 : Edit(s, value)

Spec == Init /\ [][Next]_vars

-----------------------------------------------------------------------------
(* Properties.                                                             *)

\* On a server a stat is here what it is there, by whichever way it was set: unless the
\* server would not have it, a call failed, or the rights changed since the last frame.
StatsAgree ==
  Online => \A s \in Names \ stats.excused : stats.here[s] = stats.there[s]

\* The server learns that an infection is gone, unless that fell into the 100 ms after
\* the last message: that one is never sent later.
ServerKnowsTheInfection ==
  stats.infectedThere => stats.infected \/ stats.swallowed

\* A stat that the menu shows as protected is lowered by the frame that finds it high.
ProtectionActs == ~stats.ignored
=============================================================================
