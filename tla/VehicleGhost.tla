----------------------------- MODULE VehicleGhost -----------------------------
(***************************************************************************)
(* trainer/src/java/pztrainer/extensions/VehiclePhysics.java with          *)
(* trainer/src/features/vehicle: before each step of the physics engine the*)
(* vehicle the player drives is made one that nothing collides with, and   *)
(* moved; it gets back what it was when it is no longer wanted, driven or  *)
(* heard of.  The mode is two things in the engine, a static body and the  *)
(* flags of the body, which a hook writes while the game sets the first.   *)
(***************************************************************************)
EXTENDS GameSession

CONSTANTS Vehicles, NoVehicle

VARIABLE ghost

vars == <<ghost, game, bounds>>

\* The modules the hooks are in, and how far they are set up.
Hooks == {"absent", "set", "ready"}
\* A body: whether it is static, and whether its flags are the ghost's.
Bodies == [static : BOOLEAN, flags : {"own", "ghost"}]

\* static is the hook of the first, step the one of a step; natives says that the methods
\* are registered and bridge that all of it is.  flag is the user's switch, requested what
\* the game thread was told last and heard whether that was within two seconds.
\* body is how each vehicle stands in the engine and own whether it is static by itself;
\* retained and original are what the code remembers.  stranded are vehicles that the
\* game took away while they were ghosts, half those the engine refused to give back.
GhostTypeOK ==
  /\ ghost.static \in Hooks /\ ghost.step \in Hooks
  /\ ghost.natives \in BOOLEAN /\ ghost.bridge \in BOOLEAN
  /\ ghost.flag \in BOOLEAN /\ ghost.requested \in BOOLEAN /\ ghost.heard \in BOOLEAN
  /\ ghost.driven \in Vehicles \cup {NoVehicle} /\ ghost.here \subseteq Vehicles
  /\ ghost.own \in [Vehicles -> BOOLEAN] /\ ghost.body \in [Vehicles -> Bodies]
  /\ ghost.retained \in Vehicles \cup {NoVehicle} /\ ghost.original \in Bodies
  /\ ghost.publish \in BOOLEAN /\ ghost.half \subseteq Vehicles

Init ==
  /\ GameInit
  /\ \E own \in [Vehicles -> BOOLEAN] :
       ghost = [static |-> "absent", step |-> "absent", natives |-> FALSE, bridge |-> FALSE,
                flag |-> FALSE, requested |-> FALSE, heard |-> FALSE,
                driven |-> NoVehicle, here |-> Vehicles, own |-> own,
                body |-> [v \in Vehicles |-> [static |-> own[v], flags |-> "own"]],
                retained |-> NoVehicle, original |-> [static |-> FALSE, flags |-> "own"],
                publish |-> FALSE, half |-> {}]

-----------------------------------------------------------------------------
(* The game.                                                               *)

Live ==
  /\ Play
  /\ ghost' = [ghost EXCEPT !.driven = NoVehicle, !.here = IF player' = NoPlayer THEN {} ELSE @]

Drive(v) ==
  /\ player # NoPlayer /\ ghost.driven # v /\ v \in ghost.here \cup {NoVehicle}
  /\ ghost' = [ghost EXCEPT !.driven = v]
  /\ UNCHANGED <<game, bounds>>

Remove(v) ==
  /\ v \in ghost.here
  /\ ghost' = [ghost EXCEPT !.here = @ \ {v}, !.driven = IF @ = v THEN NoVehicle ELSE @]
  /\ UNCHANGED <<game, bounds>>

\* The game sets a vehicle static, or frees it, as it does by itself: the hook lets it
\* through.
SetStatic(v) ==
  /\ v \in ghost.here /\ ghost.body[v].static # ghost.own[v]
  /\ ghost' = [ghost EXCEPT !.body[v].static = ghost.own[v]]
  /\ UNCHANGED <<game, bounds>>

Switch(on) ==
  /\ ghost' = [ghost EXCEPT !.flag = on]
  /\ Request
  /\ UNCHANGED game

-----------------------------------------------------------------------------
(* The render thread.                                                      *)

\* vehicle_ghost::Install.
Installed(g) == [g EXCEPT !.static = "ready"]

\* Faulty variant of Cleaned: the hook is disabled and left.
CleanedHalf(g) == [g EXCEPT !.static = "set"]

\* vehicle_ghost::Cleanup.
Cleaned(g) == [g EXCEPT !.static = "absent"]

\* EnsureVehiclePhysicsBridge: in its order, and a failure of the second hook takes the
\* first one back.
Ensured(g) ==
  LET hooked == [Installed([g EXCEPT !.natives = TRUE]) EXCEPT !.step = "ready", !.bridge = TRUE]
  IN  IF g.bridge THEN g ELSE hooked

EnsureFails(g) ==
  {g, [g EXCEPT !.natives = TRUE], Cleaned(Installed([g EXCEPT !.natives = TRUE])),
   [Cleaned(Installed([g EXCEPT !.natives = TRUE])) EXCEPT !.step = "set"]}

\* UpdateExtensionBridge, and the run it submits.  A failure to set up turns the switch
\* off.
Update ==
  /\ \/ NoFault /\ LET g == IF ghost.flag THEN Ensured(ghost) ELSE ghost IN
        ghost' = [g EXCEPT !.requested = ghost.flag, !.heard = TRUE]
     \/ /\ Fault /\ ghost.flag /\ ~ghost.bridge
        /\ \E g \in EnsureFails(ghost) : ghost' = [g EXCEPT !.flag = FALSE]
  /\ UNCHANGED <<game, requests>>

\* Two seconds without one: the world pauses, or the frames stop.
Silence ==
  /\ ghost.heard
  /\ ghost' = [ghost EXCEPT !.heard = FALSE]
  /\ UNCHANGED <<game, bounds>>

-----------------------------------------------------------------------------
(* A step of the engine.                                                   *)

\* setGhost: the body is set static through the game, whose call the hook sees, and then
\* the flags are written.
Entered(g, v) == [g EXCEPT !.body[v] = [static |-> TRUE, flags |-> "ghost"]]

\* How far a call gets that fails: it is refused, the game's part works, or all does and
\* the answer is an error.
Short(g, v, body) ==
  {g, [g EXCEPT !.body[v].static = body.static], [g EXCEPT !.body[v] = body]}

\* Faulty variant of Released: a vehicle that cannot be restored is let go.
ReleasedAnyway(g) == [g EXCEPT !.retained = NoVehicle, !.publish = FALSE]

\* restore, when what it calls works.
Released(g) ==
  IF g.retained = NoVehicle THEN g
  ELSE [g EXCEPT !.body = IF g.retained \in g.here THEN [@ EXCEPT ![g.retained] = g.original] ELSE @,
                 !.retained = NoVehicle, !.publish = FALSE]

ReleaseFails(g) ==
  IF g.retained = NoVehicle \/ g.retained \notin g.here THEN {Released(g)}
  ELSE Short(g, g.retained, g.original)

Wanted ==
  /\ ghost.requested /\ ghost.heard
  /\ player # NoPlayer /\ ghost.driven # NoVehicle

\* Faulty variant of Captured: what the vehicle is is read after it was changed.
CapturedAfter(g, v) == [Entered(g, v) EXCEPT !.original = [static |-> TRUE, flags |-> "own"], !.retained = v]

Captured(g, v) ==
  [Entered(g, v) EXCEPT !.original = [static |-> g.body[v].static, flags |-> g.body[v].flags],
                        !.retained = v]

\* A capture that fails is undone as far as the game can: the flags are not.
CaptureFails(g, v) ==
  {[short EXCEPT !.body[v].static = g.body[v].static,
                 !.half = IF short.body[v].flags = "ghost" THEN @ \cup {v} ELSE @] :
     short \in Short(g, v, [static |-> TRUE, flags |-> "ghost"])}

\* The vehicle of before is given back before another is taken.
Changed(g) == IF g.retained # ghost.driven THEN Released(g) ELSE g

Steered(g) ==
  [Entered(IF g.retained = NoVehicle THEN Captured(g, g.driven) ELSE g, g.driven) EXCEPT !.publish = TRUE]

\* beforeStep.
BeforeStep ==
  /\ ghost.bridge
  /\ LET g == [ghost EXCEPT !.publish = FALSE] IN
     \/ NoFault /\ ~Wanted /\ ghost' = Released(g)
     \/ Fault /\ ~Wanted /\ ghost' \in ReleaseFails(g)
     \/ NoFault /\ Wanted /\ ghost' = Steered(Changed(g))
     \/ /\ Fault /\ Wanted
        /\ \/ g.retained # g.driven /\ ghost' \in ReleaseFails(g)
           \/ LET begun == Changed(g) IN
              IF begun.retained = NoVehicle THEN ghost' \in CaptureFails(begun, g.driven)
              ELSE ghost' = Released(begun)
           \* writing fails, and so does taking it back
           \/ \E short \in ReleaseFails([Steered(Changed(g)) EXCEPT !.publish = FALSE]) : ghost' = short
  /\ UNCHANGED <<game, requests>>

\* afterStep: the mode is written once more.
AfterStep ==
  /\ ghost.bridge /\ ghost.publish /\ ghost.retained # NoVehicle /\ ghost.retained \in ghost.here
  /\ \/ NoFault /\ ghost' = [Entered(ghost, ghost.retained) EXCEPT !.publish = FALSE]
     \/ Fault /\ ghost' = [Released(ghost) EXCEPT !.publish = FALSE]
  /\ UNCHANGED <<game, requests>>

Next ==
  \/ Live \/ Update \/ Silence \/ BeforeStep \/ AfterStep
  \/ \E v \in Vehicles : Remove(v) \/ SetStatic(v)
  \/ \E v \in Vehicles \cup {NoVehicle} : Drive(v)
  \/ \E on \in BOOLEAN : Switch(on)

Spec == Init /\ [][Next]_vars

-----------------------------------------------------------------------------
(* Properties.                                                             *)

\* A vehicle that nothing collides with is the one that is remembered, with what it was,
\* whatever failed on the way there or back; except where the engine took part of a
\* capture only and could not give that back.
GhostsAreRetained ==
  \A v \in ghost.here \ ghost.half :
    (ghost.body[v].flags = "ghost" \/ (ghost.body[v].static /\ ~ghost.own[v])) =>
      /\ v = ghost.retained
      /\ ghost.original = [static |-> ghost.own[v], flags |-> "own"]

\* The hook of the body stands where a step relies on it, and is gone when the one of the
\* step could not be set up.
HooksStandTogether ==
  /\ ghost.bridge => ghost.natives /\ ghost.static = "ready" /\ ghost.step = "ready"
  /\ ~ghost.bridge => ghost.static = "absent" /\ ghost.retained = NoVehicle
=============================================================================
