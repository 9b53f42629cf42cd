---------------------------- MODULE ModelCapture ----------------------------
(***************************************************************************)
(* trainer/src/features/visual/native_model_chams.cpp and                  *)
(* trainer/src/java/pztrainer/player/visual/NativeModelCapture.java: models*)
(* are painted over the picture.  A frame publishes which objects are      *)
(* wanted; the game thread submits their models once more with its own     *)
(* picture; the render thread draws them, and the hooked calls of OpenGL   *)
(* record what is drawn; the next frame replays the record.                *)
(*                                                                         *)
(* An object is known by the hash of its identity, which a new object may  *)
(* have again.  The lists of the frame are a snapshot, so that each of     *)
(* these steps may see another game.                                       *)
(***************************************************************************)
EXTENDS GameSession, Sequences, SequencesExt

CONSTANTS
  Ids,          \* identities of objects
  Windows,      \* contexts of OpenGL
  MaxCommands   \* 2048 draws are recorded at most

VARIABLE capture

vars == <<capture, game, bounds>>

NoWindow == "none"
Self == "self"
Bodies == Ids \cup {Self}
Kinds == {"zombie", "animal"}
Nothing == [i \in Ids |-> "none"]

\* kind is what has an identity now, seen the snapshot of it.  shown is the kinds whose
\* painting is on and viewpoint whether ViewPoint draws the world.
\* status is g_initialization_status ("waiting" for 0 to -3, "refused" from 100, "ready")
\* and helper the part in Java: its class bound, and its hook in the world frame.
\* window is g_capture_context and enabled g_capture_enabled.  requested is the selection,
\* fresh that it is not 500 ms old.  queue is what the game thread submitted and the
\* render thread has not drawn, refs renderRefCount of the models.  commands is the
\* record.  For the properties: last is what the last frame of the window listed, self that
\* the record began with a picture that has the player's own model, and painted what the
\* last replay painted.
CaptureTypeOK ==
  /\ capture.kind \in [Ids -> Kinds \cup {"none"}] /\ capture.seen \in [Ids -> Kinds \cup {"none"}]
  /\ capture.shown \in SUBSET Kinds /\ capture.viewpoint \in BOOLEAN
  /\ capture.status \in {"waiting", "refused", "ready"} /\ capture.helper \in {"none", "bound", "ready"}
  /\ capture.window \in Windows \cup {NoWindow} /\ capture.enabled \in BOOLEAN
  /\ capture.requested \in [Ids -> Kinds \cup {"none"}] /\ capture.fresh \in BOOLEAN
  /\ capture.refs \in [Bodies -> Nat]
  /\ Len(capture.commands) <= MaxCommands

Init ==
  /\ GameInit
  /\ capture = [kind |-> Nothing, seen |-> Nothing, shown |-> {}, viewpoint |-> FALSE,
                status |-> "waiting", helper |-> "none", window |-> NoWindow, enabled |-> FALSE,
                requested |-> Nothing, fresh |-> FALSE, queue |-> <<>>,
                refs |-> [b \in Bodies |-> 0], commands |-> <<>>,
                last |-> Nothing, self |-> FALSE, painted |-> [models |-> {}, mask |-> TRUE, own |-> TRUE]]

-----------------------------------------------------------------------------
(* The game and the user.                                                  *)

Live ==
  /\ Play
  /\ capture' = [capture EXCEPT !.kind = Nothing]

\* An object comes, goes, or makes room for another one with its identity.
Become(i, k) ==
  /\ player # NoPlayer /\ capture.kind[i] # k
  /\ capture' = [capture EXCEPT !.kind = [@ EXCEPT ![i] = k]]
  /\ UNCHANGED <<game, bounds>>

Snapshot ==
  /\ capture.seen # capture.kind
  /\ capture' = [capture EXCEPT !.seen = capture.kind]
  /\ UNCHANGED <<game, bounds>>

Switch ==
  /\ \/ \E k \in Kinds : capture' = [capture EXCEPT !.shown = IF k \in @ THEN @ \ {k} ELSE @ \cup {k}]
     \/ capture' = [capture EXCEPT !.viewpoint = ~@]
  /\ Request
  /\ UNCHANGED game

Expire ==
  /\ capture.fresh
  /\ capture' = [capture EXCEPT !.fresh = FALSE]
  /\ UNCHANGED <<game, bounds>>

-----------------------------------------------------------------------------
(* The game thread, at the end of its part of a picture.                   *)

\* At most one of the steps of an action fails: its number, or zero.
Failing(n) == IF n = 0 THEN NoFault ELSE Fault
Without(steps, n) == IF n = 0 THEN steps ELSE RemoveAt(steps, n)

\* How many submissions are of a model.
Times(subs, b) == Cardinality({n \in DOMAIN subs : subs[n].body = b})

Submission(b, k) == [body |-> b, group |-> k]

\* selectedGroup: an object is painted only as what it was asked for.
Submittable(c, i) == c.requested[i] # "none" /\ c.kind[i] = c.requested[i]

\* Faulty variant of Enqueued: a model that could not be submitted keeps its reference.
EnqueuedKept(c, subs, failing) ==
  [c EXCEPT !.refs = [b \in Bodies |-> c.refs[b] + Times(subs, b)], !.queue = Without(subs, failing)]

\* enqueueReady: a reference is taken first, and given back where a step fails.
Enqueued(c, subs, failing) ==
  LET made == Without(subs, failing) IN
  [c EXCEPT !.refs = [b \in Bodies |-> c.refs[b] + Times(made, b)], !.queue = made]

\* Faulty variant of Order: the objects as they come.
OrderAny(own, objects) == objects \o own

\* queue: the player's own model is submitted before the others.
Order(own, objects) == own \o objects

\* queuePublished, which the hook calls.
Due(c) == c.fresh /\ \E i \in Ids : c.requested[i] # "none"

WorldFrame ==
  /\ player # NoPlayer /\ capture.helper = "ready" /\ capture.queue = <<>>
  /\ Due(capture)
  /\ \E has \in BOOLEAN, objects \in SetToSeqs({i \in Ids : Submittable(capture, i)}) :
       LET own == IF has THEN <<Submission(Self, "zombie")>> ELSE <<>>
           rest == [n \in DOMAIN objects |-> Submission(objects[n], capture.requested[objects[n]])]
           subs == Order(own, rest)
       IN  \E failing \in 0 .. Len(subs) :
             Failing(failing) /\ capture' = Enqueued(capture, subs, failing)
  /\ UNCHANGED <<game, requests>>

-----------------------------------------------------------------------------
(* The render thread.                                                      *)

\* CaptureDrawElements, where models are drawn in full: as far as the record has room.
Recorded(c, w, subs) ==
  IF ~c.enabled \/ w # c.window THEN c.commands
  ELSE LET all == c.commands \o [n \in DOMAIN subs |->
                                   [body |-> subs[n].body, group |-> subs[n].group, window |-> w]]
       IN  SubSeq(all, 1, IF Len(all) < MaxCommands THEN Len(all) ELSE MaxCommands)

\* render of all that was submitted, and postRender, also where drawing fails.
Drawn(c, w, failing) ==
  LET works == Without(c.queue, failing) IN
  [c EXCEPT !.queue = <<>>, !.refs = [b \in Bodies |-> c.refs[b] - Times(c.queue, b)],
            !.commands = Recorded(c, w, works),
            !.self = IF c.commands # <<>> THEN @
                     ELSE c.enabled /\ w = c.window /\ \E n \in DOMAIN works : works[n].body = Self]

Draw(w) ==
  /\ capture.queue # <<>>
  /\ \E failing \in 0 .. Len(capture.queue) :
       Failing(failing) /\ capture' = Drawn(capture, w, failing)
  /\ UNCHANGED <<game, requests>>

\* TryInitializeNativeModelChams: some failures are tried again.
Initialized(c, how) == [c EXCEPT !.status = IF @ = "waiting" THEN how ELSE @]

Wanted(c) == c.status = "ready" /\ c.shown # {} /\ player # NoPlayer

\* Faulty variant of Colours: the colour is the one it was recorded with.
ColoursRecorded(c, command) == IF command.body = Self THEN "none" ELSE command.group

\* ResolveTrackedEntityColorIndex: the colour is that of the object in the lists of this frame.
Colours(c, command) == IF command.body = Self THEN "none" ELSE c.seen[command.body]

Dropped(c) == [c EXCEPT !.enabled = FALSE, !.commands = <<>>]

\* What is painted of the record: the objects whose colour is wanted, beneath the mask
\* that is made of the player's own model.
Painted(c, w) ==
  LET models == {m \in ToSet(c.commands) : Colours(c, m) \in c.shown}
      own == {m \in ToSet(c.commands) : m.body = Self}
  IN  [models |-> {<<m.body, Colours(c, m), c.seen[m.body]>> : m \in models},
       mask |-> c.self /\ c.commands # <<>> => own # {},
       own |-> \A m \in models \cup own : m.window = w]

\* Replay.
Replayed(c, w) ==
  IF c.viewpoint THEN [c EXCEPT !.enabled = FALSE]
  ELSE IF c.window = NoWindow \/ w # c.window THEN c
  ELSE IF ~Wanted(c) THEN Dropped(c)
  ELSE [Dropped(c) EXCEPT !.painted = Painted(c, w)]

\* SetCaptureEnabled: the capture is for the window that was seen first, or that takes over.
Rebound(c, w) ==
  IF c.window = w THEN c
  ELSE IF c.window = NoWindow THEN [c EXCEPT !.window = w]
  ELSE [Dropped(c) EXCEPT !.window = w]

\* QueueOwnedCapture: the objects of the lists whose painting is on.
Selection(c) == [i \in Ids |-> IF c.seen[i] \in c.shown THEN c.seen[i] ELSE "none"]

\* Faulty variant of Published: with nothing to paint, nothing is said.
PublishedSome(c) ==
  IF Selection(c) = Nothing THEN c ELSE [c EXCEPT !.requested = Selection(c), !.fresh = TRUE]

Published(c) == [c EXCEPT !.requested = Selection(c), !.fresh = Selection(c) # Nothing]

\* InitializeOwnedCapture: what was set up before a failure is kept.
SetUp(c, helper) == [c EXCEPT !.helper = IF @ = "ready" \/ helper = "none" THEN @ ELSE helper]

Queued(c, helper) ==
  LET set == SetUp(c, helper) IN IF set.helper = "ready" THEN Published(set) ELSE set

Cleared(c) ==
  [Dropped(c) EXCEPT !.requested = IF c.helper = "none" THEN @ ELSE Nothing,
                     !.fresh = IF c.helper = "none" THEN @ ELSE FALSE]

Enabled(c, w, helper) ==
  IF ~Wanted(c) THEN IF w = c.window THEN [Cleared(c) EXCEPT !.last = Nothing] ELSE c
  ELSE LET own == Rebound(c, w)
       IN  IF c.viewpoint THEN [Cleared(own) EXCEPT !.last = Nothing]
           ELSE [Queued(own, helper) EXCEPT !.enabled = TRUE, !.last = Selection(c)]

\* A frame, in the window that shows a picture.
Frame(w) ==
  /\ \/ NoFault /\ capture' = Enabled(Replayed(Initialized(capture, "ready"), w), w, "ready")
     \/ /\ Fault
        /\ \/ \E how \in {"waiting", "refused"} :
                capture' = Enabled(Replayed(Initialized(capture, how), w), w, "ready")
           \/ \E helper \in {"none", "bound"} :
                capture' = Enabled(Replayed(Initialized(capture, "ready"), w), w, helper)
  /\ capture' # capture
  /\ UNCHANGED <<game, requests>>

Next ==
  \/ Live \/ Snapshot \/ Switch \/ Expire \/ WorldFrame
  \/ \E i \in Ids, k \in Kinds \cup {"none"} : Become(i, k)
  \/ \E w \in Windows : Draw(w) \/ Frame(w)

Spec == Init /\ [][Next]_vars

-----------------------------------------------------------------------------
(* Properties.                                                             *)

\* Every reference that was taken of a model is given back when its submission is drawn
\* or could not be made, once: the engine frees a model when none is left.
ReferencesAreReturned == \A b \in Bodies : capture.refs[b] = Times(capture.queue, b)

\* The game thread submits for nothing but what the last frame of the window listed, also
\* when that frame had nothing to paint.
AskedIsListed == Due(capture) => capture.requested = capture.last

\* A model is painted only in the colour of what the lists of the frame say it is, and
\* only from draws into the window of the capture.
PaintedAsSeen ==
  /\ \A p \in capture.painted.models : p[2] = p[3]
  /\ capture.painted.own

\* The player's own model is recorded before all others, so that a full record still
\* keeps the others off its pixels.
OwnModelIsMasked == capture.painted.mask
=============================================================================
