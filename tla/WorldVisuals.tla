---------------------------- MODULE WorldVisuals ----------------------------
(***************************************************************************)
(* trainer/src/bridge/world_visual_bridge.cpp: what the world looks like   *)
(* here.  Variables of the climate and the cone of vision are overridden,  *)
(* each with the original that is remembered when it is first taken, a     *)
(* light follows the player, and a mask is suppressed; all of it is taken  *)
(* back when it is turned off and when the world is left.                  *)
(*                                                                         *)
(* The values and colours of the daylight are one variable, and every      *)
(* strength that is forced is the same.                                    *)
(***************************************************************************)
EXTENDS GameSession

CONSTANTS
  Squares,  \* where the player may stand
  NoSquare

VARIABLE visuals

vars == <<visuals, game, bounds>>

Climate == {"daylight", "vision", "fog", "precipitation", "snow"}
FogModes == {"follow", "off", "on"}
RainModes == {"follow", "off", "rain", "snow"}

\* forced are the variables that do not have the game's value, taken those whose original
\* is remembered, right those for which that is the game's.  lamps are the lights in the
\* world, lamp the one that is remembered.  ended: no frame has seen yet that the world
\* was left.  obeyed: a frame has just gone well.
VisualsTypeOK ==
  visuals \in [daylight : BOOLEAN, vision : BOOLEAN, dark : BOOLEAN, reveal : BOOLEAN,
               fog : FogModes, rain : RainModes, forced : SUBSET Climate,
               taken : SUBSET Climate, right : SUBSET Climate, broken : SUBSET Climate,
               square : Squares, lamp : Squares \cup {NoSquare}, lamps : SUBSET Squares,
               orphans : SUBSET Squares, masked : BOOLEAN, ended : BOOLEAN, obeyed : BOOLEAN]

Init ==
  /\ GameInit
  /\ \E s \in Squares :
       visuals = [daylight |-> FALSE, vision |-> FALSE, dark |-> FALSE, reveal |-> FALSE,
                  fog |-> "follow", rain |-> "follow", forced |-> {}, taken |-> {},
                  right |-> {}, broken |-> {}, square |-> s, lamp |-> NoSquare, lamps |-> {},
                  orphans |-> {}, masked |-> FALSE, ended |-> FALSE, obeyed |-> FALSE]

-----------------------------------------------------------------------------
(* The game.  Many frames are drawn before another world is entered.       *)

Leave ==
  /\ LeaveWorld
  /\ visuals' = [visuals EXCEPT !.ended = TRUE, !.obeyed = FALSE]
  /\ UNCHANGED bounds

Enter ==
  /\ ~visuals.ended
  /\ \E p \in Players, s \in Sessions : EnterWorld(p, s)
  /\ visuals' = [visuals EXCEPT !.forced = {}, !.broken = {}, !.lamps = {}, !.orphans = {},
                   !.obeyed = FALSE]
  /\ UNCHANGED bounds

Die ==
  /\ \E p \in Players : Respawn(p)
  /\ UNCHANGED <<visuals, bounds>>

Walk(s) ==
  /\ player # NoPlayer /\ s # visuals.square
  /\ visuals' = [visuals EXCEPT !.square = s, !.obeyed = FALSE]
  /\ UNCHANGED <<game, bounds>>

-----------------------------------------------------------------------------
(* The user.                                                               *)

\* The mask follows at once, in a world.
SetRevealUnexploredEnabled(on) ==
  [visuals EXCEPT !.reveal = on, !.masked = on /\ player # NoPlayer, !.obeyed = FALSE]

Set ==
  /\ \/ \E on \in BOOLEAN :
          visuals' \in {[visuals EXCEPT !.daylight = on, !.obeyed = FALSE],
                        [visuals EXCEPT !.vision = on, !.obeyed = FALSE],
                        [visuals EXCEPT !.dark = on, !.obeyed = FALSE],
                        SetRevealUnexploredEnabled(on)}
     \/ \E mode \in FogModes : visuals' = [visuals EXCEPT !.fog = mode, !.obeyed = FALSE]
     \/ \E mode \in RainModes : visuals' = [visuals EXCEPT !.rain = mode, !.obeyed = FALSE]
  /\ Request
  /\ UNCHANGED game

-----------------------------------------------------------------------------
(* The climate.                                                            *)

\* RestoreDaylight, RestoreVisionCone, RestoreWeatherOverride, RestoreSnowOverride.
Restored(v, c) ==
  IF c \notin v.taken THEN v
  ELSE [v EXCEPT !.taken = @ \ {c}, !.forced = IF c \in v.right THEN @ \ {c} ELSE @ \cup {c}]

\* Faulty variant of Taken: the original is read again.
TakenAgain(v, c) ==
  [v EXCEPT !.taken = @ \cup {c}, !.right = IF c \in v.forced THEN @ \ {c} ELSE @ \cup {c}]

\* SnapshotDaylight and the like: once, until it is restored.
Taken(v, c) ==
  IF c \in v.taken THEN v
  ELSE [v EXCEPT !.taken = @ \cup {c}, !.right = IF c \in v.forced THEN @ \ {c} ELSE @ \cup {c}]

Forced(v, c) == [Taken(v, c) EXCEPT !.forced = @ \cup {c}]

Steered(v, c, wanted) == IF wanted THEN Forced(v, c) ELSE Restored(v, c)

\* What is left of a variable whose override fails: it was not taken, or not written; the
\* daylight is put back, and a snow flag of which only a part could be read is written.
Failed(v, c, wanted) ==
  IF ~wanted THEN {[Restored(v, c) EXCEPT !.forced = v.forced, !.broken = @ \cup {c}]}
  ELSE CASE c = "daylight" -> {v, Restored(Taken(v, c), c)}
         [] c = "snow" /\ c \notin v.taken ->
              {v, [v EXCEPT !.forced = @ \cup {c}, !.broken = @ \cup {c}]}
         [] OTHER -> {v, Taken(v, c)}

Wanted(v, c) ==
  CASE c = "daylight" -> v.daylight
    [] c = "vision" -> v.vision
    [] c = "fog" -> v.fog # "follow"
    [] c = "precipitation" -> v.rain # "follow"
    [] c = "snow" -> v.rain \in {"rain", "snow"}

\* Faulty variant of Precipitation: rain that is turned off leaves the snow.
RainOnly(v) ==
  IF v.rain = "off" THEN Forced(v, "precipitation")
  ELSE Steered(Steered(v, "precipitation", Wanted(v, "precipitation")), "snow", Wanted(v, "snow"))

\* ApplyPrecipitationOverride.
Precipitation(v) ==
  Steered(Steered(v, "precipitation", Wanted(v, "precipitation")), "snow", Wanted(v, "snow"))

-----------------------------------------------------------------------------
(* The light.                                                              *)

RemoveLocalLight(v) == [v EXCEPT !.lamp = NoSquare, !.lamps = @ \ {v.lamp}]

\* Faulty variant of UpdateLocalLight: the old light stays.
LightHere(v) ==
  IF ~v.dark THEN RemoveLocalLight(v) ELSE [v EXCEPT !.lamp = v.square, !.lamps = @ \cup {v.square}]

UpdateLocalLight(v) ==
  CASE ~v.dark -> RemoveLocalLight(v)
    [] v.dark /\ v.lamp = v.square -> v
    [] OTHER -> [RemoveLocalLight(v) EXCEPT !.lamp = v.square, !.lamps = @ \cup {v.square}]

\* A light may be in the world when adding it fails, and stays when removing it does.
LightFails(v) ==
  LET dark == [v EXCEPT !.lamp = NoSquare] IN
  IF v.lamp = NoSquare /\ ~v.dark THEN {v}
  ELSE {v, RemoveLocalLight(v), [dark EXCEPT !.orphans = @ \cup ({v.lamp} \ {NoSquare})],
        [RemoveLocalLight(v) EXCEPT !.lamps = @ \cup {v.square}, !.orphans = @ \cup {v.square}]}

-----------------------------------------------------------------------------
(* UpdateWorldVisualBridge.                                                *)

\* All of it, restored one after the other, when there is no world.
Ended(v) ==
  RemoveLocalLight([v EXCEPT !.taken = {}, !.forced = (@ \ v.taken) \cup (v.taken \ v.right), !.masked = FALSE,
                      !.ended = FALSE, !.obeyed = FALSE])

UpdateWithoutWorld ==
  /\ player = NoPlayer /\ NoFault
  /\ visuals' = Ended(visuals)

\* One part after the other; one that fails does not keep the others from being done,
\* but the snow is not looked at when the precipitation failed.
After(v, c, failing) ==
  IF c = failing THEN Failed(v, c, Wanted(v, c)) ELSE {Steered(v, c, Wanted(v, c))}

Lit(v, failing) == IF failing = "light" THEN LightFails(v) ELSE {UpdateLocalLight(v)}

Rained(v, failing) ==
  CASE failing = "precipitation" -> Failed(v, failing, Wanted(v, failing))
    [] failing = "snow" -> Failed(Steered(v, "precipitation", Wanted(v, "precipitation")),
                                  "snow", Wanted(v, "snow"))
    [] OTHER -> {Precipitation(v)}

\* Without the climate or the player nothing but the mask is done.
UpdateInWorld ==
  LET begun == [visuals EXCEPT !.masked = visuals.reveal] IN
  /\ player # NoPlayer
  /\ \/ Fault /\ visuals' = [begun EXCEPT !.obeyed = FALSE]
     \/ \E failing \in {"nothing", "light"} \cup Climate :
          /\ IF failing = "nothing" THEN NoFault ELSE Fault
          /\ \E d \in After(begun, "daylight", failing) : \E l \in Lit(d, failing) :
             \E s \in After(l, "vision", failing) : \E f \in After(s, "fog", failing) :
             \E r \in Rained(f, failing) :
               visuals' = [r EXCEPT !.obeyed = failing = "nothing"]

Update ==
  /\ UpdateWithoutWorld \/ UpdateInWorld
  /\ UNCHANGED <<game, requests>>

Next ==
  \/ Leave \/ Enter \/ Die \/ Set \/ Update
  \/ \E s \in Squares : Walk(s)

Spec == Init /\ [][Next]_vars

-----------------------------------------------------------------------------
(* Properties.                                                             *)

\* Where a variable does not have the game's value, the game's value is remembered; unless
\* a call for that very variable failed.
ClimateIsRemembered ==
  visuals.forced \ visuals.broken \subseteq visuals.taken \cap visuals.right

\* After a frame that went well exactly what is turned on is overridden, whatever was on
\* before, in whichever combination of the modes.
FrameObeys ==
  visuals.obeyed =>
    \A c \in Climate \ visuals.broken : c \in visuals.forced <=> Wanted(visuals, c)

\* There is at most one light, it is the one that is remembered, and after a frame it is
\* where the player is; lights that could not be added or removed are the exception.
OneLight ==
  LET lights == visuals.lamps \ visuals.orphans IN
  /\ player # NoPlayer => lights \subseteq {visuals.lamp}
  /\ visuals.obeyed => visuals.lamp = IF visuals.dark THEN visuals.square ELSE NoSquare
=============================================================================
