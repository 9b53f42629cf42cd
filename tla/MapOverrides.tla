---------------------------- MODULE MapOverrides ----------------------------
(***************************************************************************)
(* trainer/src/bridge/world_map_reveal_bridge.cpp and                      *)
(* world_map_player_bridge.cpp: a setting of the game is overridden on an  *)
(* object of the JVM, which is remembered with the original.  For "reveal" *)
(* it is the world map while that is open, and what it hides; for          *)
(* "players" the server's option, and who is shown on the map.             *)
(***************************************************************************)
EXTENDS GameSession

CONSTANTS
  Settings,   \* the objects that carry the setting, over several worlds
  NoSetting

VARIABLE override

vars == <<override, game, bounds>>

Values == 0 .. 2  \* 0 is the one that is forced

\* present is the open map or the option of the server, own what the game has set; lost
\* are settings that were not put back, or were changed while they were overridden.  other
\* is another player, marked tells that the map shows him.
OverrideTypeOK ==
  override \in [kind : {"reveal", "players"}, wanted : BOOLEAN, applied : BOOLEAN,
                present : Settings \cup {NoSetting}, held : Settings \cup {NoSetting},
                original : Values, value : [Settings -> Values],
                own : [Settings -> Values], lost : SUBSET Settings, settled : BOOLEAN,
                other : {"absent", "alive", "dead"}, marked : BOOLEAN]

Init ==
  /\ GameInit
  /\ \E kind \in {"reveal", "players"}, own \in [Settings -> Values \ {0}] :
       override = [kind |-> kind, wanted |-> FALSE, applied |-> FALSE, present |-> NoSetting,
                   held |-> NoSetting, original |-> 1, value |-> own, own |-> own,
                   lost |-> {}, settled |-> FALSE, other |-> "absent", marked |-> FALSE]

-----------------------------------------------------------------------------
(* The game.                                                               *)

Live ==
  /\ Play
  /\ override' = [override EXCEPT !.present = NoSetting, !.settled = FALSE,
                    !.other = "absent", !.marked = FALSE]

\* The map is opened or closed, or the options of a server arrive.
Show(s) ==
  /\ player # NoPlayer /\ s # override.present
  /\ override.kind = "players" => Online /\ s # NoSetting
  /\ override' = [override EXCEPT !.present = s, !.settled = FALSE]
  /\ UNCHANGED <<game, bounds>>

\* The game sets another value.
Change ==
  /\ override.present # NoSetting
  /\ LET s == override.present IN
     override' = [override EXCEPT !.own[s] = 3 - @, !.value[s] = 3 - override.own[s],
                    !.lost = IF override.held = s THEN @ \cup {s} ELSE @ \ {s}]
  /\ Request
  /\ UNCHANGED game

OtherPlayer(o) ==
  /\ override.kind = "players" /\ override.present # NoSetting /\ o # override.other
  /\ override' = [override EXCEPT !.other = o, !.marked = @ /\ o = "dead"]
  /\ UNCHANGED <<game, bounds>>

SetEnabled(wanted) ==
  /\ override' = [override EXCEPT !.wanted = wanted, !.settled = FALSE]
  /\ Request
  /\ UNCHANGED game

-----------------------------------------------------------------------------
(* The operations.                                                         *)

\* RestoreMap, RestoreVisibility: forgotten, written or not.
Restored(o, ok) ==
  IF o.held = NoSetting THEN o
  ELSE [o EXCEPT !.held = NoSetting, !.value[o.held] = IF ok THEN o.original ELSE @,
          !.lost = IF ok /\ o.original = o.own[o.held] THEN @ \ {o.held} ELSE @ \cup {o.held}]

\* Faulty variant of Captured: what is set now is the original.
CapturedAgain(o) == [o EXCEPT !.held = o.present, !.original = o.value[o.present]]

\* Another object: the one before gets its value back, and this one's is kept.
Captured(o) ==
  IF o.held = o.present THEN o
  ELSE LET free == Restored(o, TRUE) IN
       [free EXCEPT !.held = o.present, !.original = o.value[o.present]]

\* PublishSynchronizedPlayers: players that are alive.
Published(o) == [o EXCEPT !.marked = @ \/ (o.kind = "players" /\ o.other = "alive")]

Applied(o) ==
  LET c == Captured(o) IN Published([c EXCEPT !.value[c.held] = 0, !.applied = TRUE])

\* Where the setting is overridden: a map that can be seen, a server.
Wanted(o) == o.wanted /\ o.present # NoSetting /\ (o.kind = "players" => Online)

\* Faulty variant of Withdrawn: only when it is turned off.
WithdrawnIfOff(o, ok) ==
  IF o.wanted THEN [o EXCEPT !.applied = FALSE, !.settled = ok]
  ELSE [Restored(o, ok) EXCEPT !.applied = FALSE, !.settled = ok]

Withdrawn(o, ok) == [Restored(o, ok) EXCEPT !.applied = FALSE, !.settled = ok]

\* UpdateWorldMapRevealBridge, UpdateWorldMapPlayerBridge: classes, values and references
\* that are not there leave everything as it is, or only the one before restored.
Uninitialized ==
  /\ Fault
  /\ override' = [override EXCEPT !.applied = FALSE]

Apply ==
  /\ Wanted(override)
  /\ \/ NoFault /\ override' = Applied(override)
     \/ /\ Fault
        /\ LET free == IF override.held = override.present THEN override ELSE Restored(override, TRUE)
           IN  override' \in {[o EXCEPT !.applied = FALSE] : o \in {free, Captured(override)}}

Withdraw ==
  /\ ~Wanted(override)
  /\ \/ NoFault /\ override' = Withdrawn(override, TRUE)
     \/ Fault /\ override' = Withdrawn(override, FALSE)

Update ==
  /\ Uninitialized \/ Apply \/ Withdraw
  /\ UNCHANGED <<game, requests>>

Next ==
  \/ Live \/ Change \/ Update
  \/ \E s \in Settings \cup {NoSetting} : Show(s)
  \/ \E o \in {"alive", "dead"} : OtherPlayer(o)
  \/ \E wanted \in BOOLEAN : SetEnabled(wanted)

Spec == Init /\ [][Next]_vars

-----------------------------------------------------------------------------
(* Properties.                                                             *)

\* A setting has the game's value, or it is the one that is held and the original is the
\* game's; through closed maps, other worlds and servers, except where putting it back
\* failed or the game changed it while it was overridden.
SettingsAreRemembered ==
  \A s \in Settings \ override.lost :
    override.value[s] = override.own[s] \/ (override.held = s /\ override.original = override.own[s])

\* Once a frame found the feature off, the map closed or no server, nothing is overridden.
WithdrawnMeansOwn ==
  override.settled => \A s \in Settings \ override.lost : override.value[s] = override.own[s]
=============================================================================
