---------------------------- MODULE ModelScreens ----------------------------
(***************************************************************************)
(* How models are painted over the picture without disturbing it: a pass   *)
(* draws into a target of its own, whose edges and interior are then put   *)
(* onto the picture (native_model_outline.hpp, and ModelScreenPass.java    *)
(* for the ViewPoint mod), and everything of OpenGL that was touched is    *)
(* given back (native_model_chams.cpp, ViewpointModelChams.java).          *)
(*                                                                         *)
(* With ViewPoint, the frame of the trainer reads the mod's camera         *)
(* (viewpoint_bridge.cpp) and publishes what is to be painted; the mod's   *)
(* own frame, which is hooked, paints it.                                  *)
(***************************************************************************)
EXTENDS GameSession

CONSTANTS
  Ids,     \* identities of objects; two objects may have the same
  Sizes,   \* of the window
  Natives  \* the passes of a replay that are tried, of "self", "fill" and "edge"

VARIABLE screen

vars == <<screen, game, bounds>>

Kinds == {"player", "vehicle"}
Objects == Ids \X Kinds
NoSize == 0

\* What a context of OpenGL has set, and who set it.
Groups == {"program", "vertices", "unit", "textures", "target", "clear", "mask", "viewport",
           "depth", "cull", "factors", "alpha factors", "blend", "scissor", "tests"}
AllGame == [g \in Groups |-> "game"]

\* A target: its program, the size it is believed to have, and the one of its texture.
Passes == Natives \cup {"viewpoint"}
NoTarget == [program |-> "none", size |-> NoSize, real |-> NoSize]

\* mod and on are the mod's, separate that the game blends alpha with factors of
\* its own, own the identities of models that are the player's.  The bridge knows that
\* the mod is detected, ready, active (on) and valid (its camera).  helper is the part in
\* Java.  published and coloured are what the mod's frame shall paint, and fresh that it is
\* not 500 ms old.
\* For the properties: last is what the last frame listed to be painted, missed that this
\* could not be said, late that a frame aimed or drew by a camera it had not read, gl who
\* set what after the last pass, stray that something was drawn outside a target, misfit
\* that a target of another size was put onto the picture, spoilt that one could not be
\* made again in another size, and wrong that something was painted that was not listed.
ScreenTypeOK ==
  /\ screen.mod \in {"absent", "partial", "whole"}
  /\ {screen.on, screen.separate, screen.late, screen.wrong, screen.detected, screen.ready} \subseteq BOOLEAN
  /\ {screen.active, screen.valid, screen.fresh, screen.missed} \subseteq BOOLEAN
  /\ screen.own \subseteq Ids /\ screen.world \subseteq Objects /\ screen.shown \subseteq Kinds
  /\ screen.helper \in {"none", "bound", "ready"} /\ screen.size \in Sizes
  /\ screen.published \subseteq Objects /\ screen.coloured \subseteq Kinds /\ screen.last \subseteq Objects
  /\ \A p \in Passes : screen.targets[p].program \in {"none", "failed", "built"}
  /\ screen.gl \in [Groups -> {"game", "replay", "pass"}]

Init ==
  /\ GameInit
  /\ \E own \in SUBSET Ids, separate \in BOOLEAN :
       screen = [mod |-> "absent", on |-> FALSE, separate |-> separate,
                 own |-> own, world |-> {}, shown |-> Kinds,
                 size |-> CHOOSE size \in Sizes : TRUE,
                 detected |-> FALSE, ready |-> FALSE, active |-> FALSE, valid |-> FALSE,
                 helper |-> "none", published |-> {}, coloured |-> {}, fresh |-> FALSE, last |-> {},
                 missed |-> FALSE, late |-> FALSE, targets |-> [p \in Passes |-> NoTarget],
                 gl |-> AllGame, stray |-> FALSE, misfit |-> FALSE, spoilt |-> FALSE,
                 wrong |-> FALSE]

-----------------------------------------------------------------------------
(* The game, the mod and the user.                                         *)

Live ==
  /\ Play
  /\ screen' = [screen EXCEPT !.world = {}]

Become(o) ==
  /\ player # NoPlayer
  /\ screen' = [screen EXCEPT !.world = IF o \in @ THEN @ \ {o} ELSE @ \cup {o}]
  /\ UNCHANGED <<game, bounds>>

\* The classes of the mod appear; another version of it lacks some.
Load(mod) ==
  /\ screen.mod = "absent"
  /\ screen' = [screen EXCEPT !.mod = mod]
  /\ UNCHANGED <<game, bounds>>

View ==
  /\ screen.mod # "absent"
  /\ screen' = [screen EXCEPT !.on = ~@]
  /\ Request
  /\ UNCHANGED game

Resize ==
  /\ \E size \in Sizes \ {screen.size} : screen' = [screen EXCEPT !.size = size]
  /\ Request
  /\ UNCHANGED game

\* Painting is turned on or off for all kinds at once.
Switch ==
  /\ screen' = [screen EXCEPT !.shown = Kinds \ @]
  /\ Request
  /\ UNCHANGED game

Expire ==
  /\ screen.fresh
  /\ screen' = [screen EXCEPT !.fresh = FALSE]
  /\ UNCHANGED <<game, bounds>>

-----------------------------------------------------------------------------
(* The camera.                                                             *)

\* Initialize: the mod is detected by one class, and used only if all of them fit.
Found(c, works) ==
  IF c.ready \/ c.mod = "absent" \/ ~works THEN c
  ELSE [c EXCEPT !.detected = TRUE, !.ready = c.mod = "whole"]

\* Faulty variant of Refreshed: what was read stays until something else can be read.
RefreshedKeeping(c, works, camera) ==
  LET found == Found(c, works # "none")
  IN  IF ~found.ready \/ works = "none" THEN found
      ELSE [found EXCEPT !.active = c.on, !.valid = IF c.on /\ works = "all" THEN camera ELSE @]

\* RefreshViewpointCamera: works tells how far reading comes, to nothing, to whether the
\* mod is on, or to its camera, if it has one.  What was read before is forgotten first.
Refreshed(c, works, camera) ==
  LET found == [Found(c, works # "none") EXCEPT !.active = FALSE, !.valid = FALSE]
  IN  IF ~found.ready \/ works = "none" THEN found
      ELSE [found EXCEPT !.active = c.on, !.valid = c.on /\ camera /\ works = "all"]

CanUseViewpoint3D(c) == c.detected /\ c.ready /\ c.active /\ c.valid

\* HookedSwapBuffers: with the mod on, the frame is aimed and drawn by its camera, or is
\* empty.
Aimed(c, read) ==
  [c EXCEPT !.late = @ \/ (CanUseViewpoint3D(c) /\ ~read), !.last = {}, !.missed = FALSE]

-----------------------------------------------------------------------------
(* A pass.                                                                 *)

SetBy(gl, groups, who) == [g \in Groups |-> IF g \in groups THEN who ELSE gl[g]]
Back(gl, groups, saved) == [g \in Groups |-> IF g \in groups THEN saved[g] ELSE gl[g]]

\* Faulty variant of Resized: a target keeps the size it was made with.
ResizedOnce(t, size, whole) ==
  IF t.size # NoSize THEN [t EXCEPT !.size = size]
  ELSE [t EXCEPT !.real = size, !.size = IF whole THEN size ELSE @]

\* The texture has its new size before it is known that it can be drawn into.
Resized(t, size, whole) ==
  IF t.size = size THEN t ELSE [t EXCEPT !.real = size, !.size = IF whole THEN size ELSE @]

Held == {"target", "viewport", "clear", "mask", "blend", "tests"}

\* Begin.  A program that could not be compiled is not tried again.
Begun(c, p, works) ==
  LET t == c.targets[p]
      sized == Resized([t EXCEPT !.program = "built"], c.size, works # "size")
  IN  IF t.program = "failed" \/ (t.program = "none" /\ works = "program")
      THEN [c EXCEPT !.targets[p].program = "failed"]
      ELSE IF sized.size # c.size THEN [c EXCEPT !.targets[p] = sized, !.spoilt = TRUE]
      ELSE [c EXCEPT !.targets[p] = sized, !.gl = SetBy(@, Held, "pass")]

\* ReplayCapturedModel, and the batches of ViewPoint.
Drawn(c, who) ==
  [c EXCEPT !.stray = @ \/ c.gl["target"] # "pass",
            !.gl = SetBy(@, {"program", "vertices", "unit", "textures"}, who)]

\* Faulty variant of Ended: the mask of the colours stays.
EndedMasked(c, saved) == [c EXCEPT !.gl = Back(@, Held \ {"mask"}, saved)]

Ended(c, saved) == [c EXCEPT !.gl = Back(@, Held, saved)]

\* Composite gives back all it touches.
Composited(c, p) ==
  IF p = "self" THEN c ELSE [c EXCEPT !.misfit = @ \/ c.targets[p].real # c.size]

\* One of the passes of a replay; without a target, nothing is drawn.
Passed(c, p, works) ==
  LET begun == Begun(c, p, works) IN
  IF begun.gl["target"] # "pass" THEN begun
  ELSE Composited(Ended(Drawn(begun, "replay"), c.gl), p)

\* The factors for alpha are set to those for the colours.
GivenBack(c) ==
  LET kept == {"target", "clear", "mask"} \cup (IF c.separate THEN {"alpha factors"} ELSE {})
  IN  [c EXCEPT !.gl = Back(@, Groups \ kept, AllGame)]

\* Replay, of passes of which those in bad fail: the mask of the player's own model comes
\* first, then what is filled, then the edges.
Replayed(c, passes, bad, how) ==
  LET own == {"tests", "blend", "factors", "alpha factors", "depth", "cull", "scissor"}
      set == [c EXCEPT !.gl = SetBy(AllGame, own, "replay")]
      pass(d, p) == IF p \in passes THEN Passed(d, p, IF p \in bad THEN how ELSE "all") ELSE d
  IN  GivenBack(pass(pass(pass(set, "self"), "fill"), "edge"))

-----------------------------------------------------------------------------
(* The frame of the trainer.                                               *)

\* ResetViewpointModelChamsStatus.
Cleared(c) ==
  [c EXCEPT !.published = IF c.helper = "none" THEN @ ELSE {},
            !.fresh = IF c.helper = "none" THEN @ ELSE FALSE]

\* Initialize: the class is bound before the mod's frame is hooked.
Hooked(c, helper) == [c EXCEPT !.helper = IF @ = "ready" \/ helper = "none" THEN @ ELSE helper]

\* DrawViewpointModelChams: all that the frame lists, with the kinds that have a colour.
Published(c, helper, works) ==
  LET hooked == Hooked(c, helper)
      wanted == {o \in c.world : o[2] \in c.shown}
  IN  IF hooked.helper = "ready" /\ works
      THEN [hooked EXCEPT !.published = c.world, !.coloured = c.shown, !.fresh = TRUE,
                          !.last = wanted]
      ELSE [hooked EXCEPT !.last = wanted, !.missed = TRUE]

\* Faulty variant of Settled: what was published stays until it is old.
SettledLate(c) == c

\* Without the mod's camera, or outside a world, nothing is published any more.
Settled(c) == IF CanUseViewpoint3D(c) /\ player # NoPlayer THEN c ELSE Cleared(c)

Helpers == {"none", "bound", "ready"}

\* The passes of a frame whose lists are painted natively.
Replaying(c) == ~c.active /\ player # NoPlayer /\ c.shown # {}

\* One step fails, or what was not ready before is not tried yet.
Frame ==
  /\ \E works \in {"none", "on", "all"}, camera \in BOOLEAN :
       LET read == works = "all" /\ screen.on /\ camera
           seen == Settled(Aimed(Refreshed(screen, works, camera), read)) IN
       IF CanUseViewpoint3D(seen) /\ player # NoPlayer
       THEN \E helper \in Helpers, says \in BOOLEAN :
              /\ screen' = Published(seen, helper, says)
              /\ IF says THEN NoFault ELSE Fault
       ELSE IF Replaying(seen)
       THEN \E passes \in SUBSET Natives, how \in {"program", "size"} : \E bad \in SUBSET passes :
              /\ screen' = Replayed(seen, passes, bad, how)
              /\ IF bad = {} THEN NoFault /\ (works = "all" \/ ~screen.ready)
                 ELSE Cardinality(bad) = 1 /\ works = "all" /\ Fault
       ELSE /\ screen' = seen
            /\ IF works = "all" \/ ~screen.ready THEN NoFault ELSE Fault
  /\ UNCHANGED <<game, requests>>

-----------------------------------------------------------------------------
(* The frame of the mod.                                                   *)

\* Faulty variant of Colour: the object that was listed first has the identity.
ColourFirst(c, o) ==
  LET kinds == {k \in Kinds : <<o[1], k>> \in c.published}
  IN  IF kinds = {} THEN "none" ELSE CHOOSE k \in kinds : TRUE

\* groupsByOwner: an identity that was listed for objects of several kinds has no colour.
Colour(c, o) ==
  LET kinds == {k \in Kinds : <<o[1], k>> \in c.published}
  IN  IF Cardinality(kinds) = 1 THEN CHOOSE k \in kinds : TRUE ELSE "none"

\* The objects that are painted.  The player's own model is known by a flag.
Selected(c) ==
  {o \in c.world : /\ Colour(c, o) \in c.coloured
                   /\ ~(o[2] = "player" /\ o[1] \in c.own /\ Colour(c, o) = "player")}

\* What is painted was listed, and nothing else that was listed has the identity.
Right(c, o) ==
  /\ <<o[1], Colour(c, o)>> \in c.last \/ c.missed
  /\ {k \in Kinds : <<o[1], k>> \in c.published} = {Colour(c, o)}

\* ModelScreenPass.get: a program that could not be made is tried again.
Opened(c, works) ==
  LET t == c.targets["viewpoint"]
      sized == Resized([t EXCEPT !.program = "built"], c.size, works # "size")
  IN  IF t.program = "none" /\ works = "program" THEN c
      ELSE IF sized.size # c.size
      THEN [c EXCEPT !.targets["viewpoint"] = sized, !.spoilt = TRUE,
                     !.gl = SetBy(@, {"textures", "target"}, "pass")]
      ELSE [c EXCEPT !.targets["viewpoint"] = sized, !.gl = SetBy(@, Groups, "pass")]

\* Faulty variant of Restored: after a failure nothing is given back.
RestoredOnSuccess(c, works) == IF works = "all" THEN [c EXCEPT !.gl = AllGame] ELSE c

\* The end of the mod's pass, and GlState.restore, whatever has failed.
Restored(c, works) == [c EXCEPT !.gl = AllGame]

\* renderInternal.
Rendered(c, works) ==
  LET touched == [c EXCEPT !.gl = SetBy(AllGame, {"unit", "tests"}, "pass")]
      open == Opened(touched, works)
      done == Composited(Drawn(open, "pass"), "viewpoint")
      opened == open.gl["program"] = "pass"
  IN  IF ~c.fresh \/ Selected(c) = {} \/ works = "read" THEN c
      ELSE IF ~opened THEN Restored(open, works)
      ELSE Restored([done EXCEPT !.wrong = @ \/ \E o \in Selected(c) : ~Right(c, o)], works)

\* renderPublished, which the hook calls in the mod's frame.
ViewpointFrame ==
  /\ screen.mod = "whole" /\ screen.on /\ screen.helper = "ready"
  /\ \E works \in {"read", "program", "size", "draw", "all"} :
       /\ screen' = Rendered(screen, works)
       /\ IF works = "all" THEN NoFault ELSE Fault
  /\ UNCHANGED <<game, requests>>

Next ==
  \/ Live \/ View \/ Resize \/ Switch \/ Expire \/ Frame \/ ViewpointFrame
  \/ \E o \in Objects : Become(o)
  \/ \E mod \in {"partial", "whole"} : Load(mod)

Spec == Init /\ [][Next]_vars

-----------------------------------------------------------------------------
(* Properties.                                                             *)

\* After a pass everything of OpenGL is as the game had it, whichever step failed, except
\* that a replay does not know factors of their own for alpha.
GameStateIsBack ==
  \A g \in Groups : screen.gl[g] = "game" \/ (g = "alpha factors" /\ screen.separate)

\* Models are drawn into targets only, and what is put onto the picture has its size,
\* unless a target could once not be made in another size.
TargetsAreOwn == ~screen.stray /\ (screen.misfit => screen.spoilt)

\* Nobody aims or draws by a camera that was not read in the same frame.
CameraIsOfThisFrame == ~screen.late

\* The mod's frame paints nothing but what the last frame of the trainer listed to be
\* painted, unless that could not say so, and no identity that is not clear.
PaintedIsListed == ~screen.wrong
=============================================================================
