---------------------------- MODULE AimOverrides ----------------------------
(***************************************************************************)
(* What aiming changes in the game while there is a target, and how it is  *)
(* given back: the weapon's values and the player's movement, which a      *)
(* frame changes and restores (features/aim/rage_aim.cpp), and the aim     *)
(* that is forced in the game's thread, by calls that are queued for it    *)
(* and may run late or in another order (bridge/rage_fire_bridge.cpp,      *)
(* RageFireOverrides.java).  Which target is chosen, and where it is, is   *)
(* left to chance.                                                         *)
(***************************************************************************)
EXTENDS GameSession

CONSTANTS
  Weapons,   \* firearms
  NoWeapon   \* something else, or nothing, in the hand

VARIABLE aim

vars == <<aim, game, bounds>>

\* Whose a value is: the game's, that of an override, or what a restore made of a value
\* that could not be read.
Owners == {"own", "ours", "other"}
Calls == {"prepare", "release", "attack"}
Options == {"rage", "stop", "automatic", "double", "silent"}
NoRequest == [who |-> NoPlayer, automatic |-> FALSE, fresh |-> FALSE]

\* What a frame leaves: nothing but what is being released (settled), nobody stopped
\* (idle), or all that a target asks for.
Frames == {"none", "settled", "idle", "aiming"}

\* values are those of the weapons, moves those of the players and force their flag.
\* weapon and walker are remembered, with what they had; forced and pending (a second
\* shot) are the trainer's, requested, prepared, actor and previous the helper's in Java.
\* calls are waited for, and strays no longer, but still run.  published is what the hooks
\* of the physics use.  frame is what the last one left.
\* making is the request of the preparation that the game's thread is at.
\* For the properties: spoiltWeapons and spoiltPlayers were restored without success,
\* unsent that a release could not be queued, caught that a preparation was going on
\* while that frame was made, followed that a first shot was made that a second may
\* follow, and extra that there was a second without a first.
AimTypeOK ==
  /\ aim.options \subseteq Options /\ aim.hand \in Weapons \cup {NoWeapon}
  /\ aim.values \in [Weapons -> Owners] /\ {aim.moves, aim.force} \subseteq [Players -> Owners]
  /\ aim.weapon \in Weapons \cup {NoWeapon}
  /\ {aim.weaponHad, aim.walkerHad, aim.previous} \subseteq Owners
  /\ {aim.walker, aim.actor, aim.requested.who, aim.prepared.who, aim.making.who} \subseteq Players \cup {NoPlayer}
  /\ {aim.forced, aim.pending, aim.published, aim.prepared.fresh} \subseteq BOOLEAN
  /\ {aim.unsent, aim.caught, aim.followed, aim.extra} \subseteq BOOLEAN
  /\ aim.calls \in [Calls -> {"none", "queued", "done"}] /\ aim.strays \subseteq Calls \ {"attack"}
  /\ aim.hooks \in {"none", "ready", "failed"}
  /\ aim.spoiltWeapons \subseteq Weapons /\ aim.spoiltPlayers \subseteq Players
  /\ aim.frame \in Frames

Init ==
  /\ GameInit
  /\ aim = [options |-> {}, hand |-> NoWeapon,
            values |-> [w \in Weapons |-> "own"], moves |-> [p \in Players |-> "own"],
            force |-> [p \in Players |-> "own"],
            weapon |-> NoWeapon, weaponHad |-> "own", walker |-> NoPlayer, walkerHad |-> "own",
            forced |-> FALSE, pending |-> FALSE, published |-> FALSE, hooks |-> "none",
            requested |-> NoRequest, making |-> NoRequest, prepared |-> NoRequest,
            actor |-> NoPlayer, previous |-> "own",
            calls |-> [call \in Calls |-> "none"], strays |-> {}, frame |-> "none",
            spoiltWeapons |-> {}, spoiltPlayers |-> {}, unsent |-> FALSE, caught |-> FALSE,
            followed |-> FALSE, extra |-> FALSE]

-----------------------------------------------------------------------------
(* The game and the user.                                                  *)

\* A new character has nothing in its hand.  Aiming does not ask whether the world is
\* on a server: the sessions would only repeat each other.
Live ==
  /\ Play
  /\ session' = session
  /\ aim' = [aim EXCEPT !.hand = NoWeapon]

Take ==
  /\ player # NoPlayer
  /\ \E w \in (Weapons \cup {NoWeapon}) \ {aim.hand} : aim' = [aim EXCEPT !.hand = w]
  /\ UNCHANGED <<game, bounds>>

Set ==
  /\ \E option \in Options :
       aim' = [aim EXCEPT !.options = IF option \in @ THEN @ \ {option} ELSE @ \cup {option}]
  /\ Request
  /\ UNCHANGED game

\* 250 ms after it was said, a target is not valid any more.
Expire ==
  /\ \/ aim.requested.fresh /\ aim' = [aim EXCEPT !.requested.fresh = FALSE]
     \/ aim.prepared.fresh /\ aim' = [aim EXCEPT !.prepared = NoRequest]
  /\ UNCHANGED <<game, bounds>>

-----------------------------------------------------------------------------
(* Calls that the game's thread makes.                                     *)

\* ResetObjectMethodCall forgets a call; what was queued is still made.  (An attack changes
\* nothing that is modelled here.)
Forgotten(c, call) ==
  [c EXCEPT !.calls[call] = "none",
            !.strays = IF c.calls[call] = "queued" /\ call # "attack" THEN @ \cup {call} ELSE @]

\* PollObjectMethodOnMainThread.
Polled(c, call, bad) ==
  IF c.calls[call] = "done" \/ bad = "late" THEN Forgotten(c, call) ELSE c

Queued(c, call, bad) ==
  [c EXCEPT !.calls[call] = IF bad = "queue" THEN @ ELSE "queued",
            !.unsent = @ \/ (bad = "queue" /\ call = "release")]

\* releaseAim: the flag is given back to the player it was taken from.
ReleaseAim(c) ==
  [c EXCEPT !.actor = NoPlayer,
            !.force = IF c.actor # NoPlayer /\ c.actor = player
                      THEN [@ EXCEPT ![player] = c.previous] ELSE @]

ForceAim(c, who) ==
  [c EXCEPT !.actor = IF @ = NoPlayer THEN who ELSE @,
            !.previous = IF c.actor = NoPlayer THEN c.force[who] ELSE @,
            !.force[who] = "ours"]

Done(c, call) ==
  \/ c.calls[call] = "queued" /\ aim' = [c EXCEPT !.calls[call] = "done"]
  \/ call \in c.strays /\ aim' = [c EXCEPT !.strays = @ \ {call}]

\* same: a target that is prepared counts as long as it is the one that is asked for.
Same(a, b) == a.who # NoPlayer /\ a.who = b.who /\ a.automatic = b.automatic

Ready(c) == c.prepared.fresh /\ Same(c.prepared, c.requested)

\* prepare reads what is requested and who plays,
Begin ==
  /\ aim.calls["prepare"] = "queued" \/ "prepare" \in aim.strays
  /\ IF aim.requested.fresh /\ aim.requested.who = player
     THEN aim' = [aim EXCEPT !.making = aim.requested]
     ELSE Done([aim EXCEPT !.prepared = NoRequest], "prepare")

\* and then the aim is forced, even if the bone is not found, and frames may have been
\* made in between.
Prepare(found) ==
  LET want == aim.making
      forced == IF want.automatic THEN ForceAim(aim, want.who) ELSE ReleaseAim(aim)
      ready == found /\ Same(want, aim.requested)
  IN  Done([forced EXCEPT !.making = NoRequest,
                          !.prepared = IF ready THEN want ELSE NoRequest], "prepare")

\* Every call is queued by a thread of its own: they run in any order.
GameThread ==
  /\ \/ /\ aim.making = NoRequest
        /\ \/ Begin
           \/ Done(ReleaseAim(aim), "release")
           \/ Done(aim, "attack")
     \/ /\ aim.making # NoRequest
        /\ \E found \in BOOLEAN : Prepare(found)
  /\ UNCHANGED <<game, bounds>>

-----------------------------------------------------------------------------
(* What a frame changes and gives back.                                    *)

\* What could not be written is forgotten all the same.
RestoreWeapon(c, bad) ==
  IF c.weapon = NoWeapon THEN c
  ELSE [c EXCEPT !.values[c.weapon] = IF bad = "restore" THEN @ ELSE c.weaponHad,
                 !.spoiltWeapons = IF bad = "restore" THEN @ \cup {c.weapon} ELSE @,
                 !.weapon = NoWeapon]

RestoreMovement(c, bad) ==
  IF c.walker = NoPlayer THEN c
  ELSE [c EXCEPT !.moves[c.walker] = IF bad = "restore" THEN @ ELSE c.walkerHad,
                 !.spoiltPlayers = IF bad = "restore" THEN @ \cup {c.walker} ELSE @,
                 !.walker = NoPlayer]

\* Faulty variant of Remembered: it is read again in every frame.
RememberedAgain(c, w) == [c EXCEPT !.weapon = w, !.weaponHad = c.values[w]]

Remembered(c, w) ==
  IF c.weapon = w THEN c ELSE [c EXCEPT !.weapon = w, !.weaponHad = c.values[w]]

\* Faulty variant of Applied: the weapon before it is forgotten.
AppliedOver(c, w, bad) == [Remembered(c, w) EXCEPT !.values[w] = "ours"]

\* ApplyWeaponSettings.  A weapon of which not all could be read is restored to what was
\* not read.
Applied(c, w, bad) ==
  LET before == IF c.weapon = w THEN c ELSE RestoreWeapon(c, bad) IN
  IF bad = "capture" /\ c.weapon # w
  THEN [before EXCEPT !.values[w] = "other", !.spoiltWeapons = @ \cup {w}]
  ELSE [Remembered(before, w) EXCEPT !.values[w] = "ours"]

\* Faulty variant of Stopped: what is in force already is remembered.
StoppedAgain(c, bad) ==
  [c EXCEPT !.walker = player, !.walkerHad = c.moves[player], !.moves[player] = "ours"]

\* StopMovement.
Stopped(c, bad) ==
  LET before == IF c.walker = player THEN c ELSE RestoreMovement(c, bad) IN
  IF bad = "stop" /\ c.walker # player
  THEN [before EXCEPT !.moves[player] = "other", !.spoiltPlayers = @ \cup {player}]
  ELSE [before EXCEPT !.walker = player, !.moves[player] = "ours",
                      !.walkerHad = IF c.walker = player THEN @ ELSE before.moves[player]]

\* ReleaseRageAutomaticAim.
Release(c, bad) ==
  LET polled == Polled(c, "release", bad) IN
  IF c.actor # NoPlayer /\ polled.calls["release"] = "none" THEN Queued(polled, "release", bad)
  ELSE polled

\* ReleaseForcedAim.  busy: an attack goes on, or was made less than 250 ms ago.
ReleaseForced(c, busy, bad) ==
  IF ~c.forced \/ player = NoPlayer \/ busy \/ c.calls["attack"] # "none" THEN c
  ELSE [Release(c, bad) EXCEPT !.forced = FALSE]

\* Faulty variant of Cleared: a target that is to be prepared stays.
ClearedPrepared(c, bad) == Release([c EXCEPT !.prepared = NoRequest], bad)

\* ClearRageFireTarget.
Cleared(c, bad) == Release([c EXCEPT !.requested = NoRequest, !.prepared = NoRequest], bad)

Unpublished(c) == [c EXCEPT !.published = FALSE]

\* Faulty variant of NoSecond: a second shot stays due.
NoSecondKept(c) == c

NoSecond(c) == [c EXCEPT !.pending = FALSE]

\* ResetRuntime.
Reset(c, busy, bad) ==
  LET released == ReleaseForced(Cleared(Unpublished(c), bad), busy, bad)
      forgotten == IF player = NoPlayer THEN [released EXCEPT !.forced = FALSE] ELSE released
      restored == RestoreWeapon(RestoreMovement(forgotten, bad), bad)
  IN  NoSecond([Forgotten(restored, "attack") EXCEPT !.frame = "settled"])

\* Faulty variant of Unarmed: the player stays where it is.
UnarmedStopped(c, busy, bad) ==
  [ReleaseForced(RestoreWeapon(Unpublished(c), bad), busy, bad) EXCEPT !.frame = "idle"]

\* Without a firearm, or a preset for it, nobody says that the target is gone: it expires.
Unarmed(c, busy, bad) ==
  [ReleaseForced(RestoreMovement(RestoreWeapon(Unpublished(c), bad), bad), busy, bad) EXCEPT
     !.frame = "idle"]

Paused(c, busy, bad) ==
  LET released == ReleaseForced(Cleared(Unpublished(c), bad), busy, bad)
  IN  NoSecond([RestoreWeapon(RestoreMovement(released, bad), bad) EXCEPT !.frame = "settled"])

-----------------------------------------------------------------------------
(* A frame with a firearm.                                                 *)

\* PrepareRageFireTarget says the target, and queues its preparation if none is under way.
Requested(c, bad) ==
  LET said == [c EXCEPT !.requested = [who |-> player, automatic |-> "automatic" \in c.options,
                                       fresh |-> TRUE]]
      polled == Polled(said, "prepare", bad)
  IN  IF bad = "helper" THEN c
      ELSE IF polled.calls["prepare"] = "none" THEN Queued(polled, "prepare", bad) ELSE polled

\* InitializeRageBallisticsHook tries once, when the library of the game is there.
Hooked(c, bad) ==
  [c EXCEPT !.hooks = IF @ # "none" \/ bad = "library" THEN @
                      ELSE IF bad = "hooks" THEN "failed" ELSE "ready"]

\* AimAtTarget, if ShouldAdjustRageAim: a target for the hooks, or none.
Aimed(c, near, bad) ==
  IF c.options \cap {"automatic", "silent"} = {} THEN c
  ELSE IF "silent" \notin c.options THEN Unpublished(c)
  ELSE IF ~near THEN c
  ELSE [Hooked(c, bad) EXCEPT !.published = @ \/ Hooked(c, bad).hooks = "ready"]

\* Faulty variant of Second: it may follow itself.
SecondAgain(c, bad) ==
  [Queued(c, "attack", bad) EXCEPT !.extra = @ \/ ~c.followed, !.followed = FALSE]

\* The second shot is not due any more once it was queued.
Second(c, bad) ==
  LET queued == Queued(c, "attack", bad) IN
  IF bad = "queue" THEN queued
  ELSE [queued EXCEPT !.pending = FALSE, !.extra = @ \/ ~c.followed, !.followed = FALSE]

First(c, two, bad) ==
  LET queued == Queued(c, "attack", bad)
      double == "double" \in c.options /\ two
  IN  IF bad = "queue" THEN queued ELSE [queued EXCEPT !.pending = double, !.followed = double]

\* The shot that is made, if any: none while an earlier one is under way.
Fired(c, due, bad) ==
  IF c.calls["attack"] # "none" \/ due = "none" THEN c
  ELSE IF c.pending THEN Second(c, bad)
  ELSE First(c, due = "two", bad)

\* With a target: it is aimed at once the game says that the player aims.
Targeted(c, s, bad) ==
  LET moved == IF "stop" \in c.options THEN Stopped(c, bad) ELSE RestoreMovement(c, bad)
      entered == IF "automatic" \in c.options THEN [moved EXCEPT !.forced = @ \/ s.view = "aimed"]
                 ELSE ReleaseForced(moved, s.busy, bad)
      aimed == IF s.view = "aimed" THEN Aimed(entered, s.near, bad) ELSE Unpublished(entered)
  IN  IF "automatic" \in c.options /\ bad = "penalty"
      THEN [RestoreMovement(moved, bad) EXCEPT !.frame = "idle"]
      ELSE [(IF s.view = "aimed" THEN Fired(aimed, s.due, bad) ELSE aimed)
              EXCEPT !.frame = "aiming"]

Untargeted(c, s, bad) ==
  LET released == ReleaseForced(RestoreMovement(c, bad), s.busy, bad)
  IN  NoSecond([Cleared(Unpublished(released), bad) EXCEPT !.frame = "idle"])

\* The weapon is changed whether there is a target or not.
Armed(c, s, bad) ==
  LET due == IF "double" \notin c.options \/ s.expired THEN NoSecond(c) ELSE c
      sees == s.view # "nothing" \/ due.pending
      stopped == IF sees /\ "stop" \in c.options THEN Stopped(due, bad) ELSE due
      asked == IF sees THEN Requested(stopped, bad) ELSE stopped
      applied == Applied(asked, c.hand, bad)
  IN  IF sees /\ (~Ready(asked) \/ bad = "helper")
      THEN [Unpublished(asked) EXCEPT !.frame = "aiming"]
      ELSE IF bad \in {"capture", "apply"} THEN Reset(applied, s.busy, bad)
      ELSE IF bad = "state"
      THEN [RestoreMovement(Unpublished(applied), bad) EXCEPT !.frame = "idle"]
      ELSE IF s.view \in {"shown", "aimed"} THEN Targeted(applied, s, bad)
      ELSE Untargeted(applied, s, bad)

\* UpdateRageAim, with the step that fails, and what the frame finds: a three-dimensional
\* view that is not ready, no preset for the firearm, the menu, or a target, in the picture
\* or not, and the player aiming; whether the target is near, an attack is busy, a shot is
\* due (and another may follow), and the second shot expired.
Updated(c, s, bad) ==
  LET polled == Polled(c, "attack", bad)
      armed == c.hand # NoWeapon
  IN
  IF "rage" \notin c.options \/ player = NoPlayer \/ s.view = "blocked" \/ (armed /\ bad = "read")
  THEN Reset(polled, s.busy, bad)
  ELSE IF ~armed \/ s.view = "unset" THEN Unarmed(polled, s.busy, bad)
  ELSE IF s.view = "menu" THEN Paused(polled, s.busy, bad)
  ELSE Armed(polled, s, bad)

\* What can differ only where it is looked at.
Sights ==
  {s \in [view : {"blocked", "unset", "menu", "nothing", "outside", "shown", "aimed"},
          near : BOOLEAN, busy : BOOLEAN, due : {"none", "one", "two"}, expired : BOOLEAN] :
     /\ s.near => s.view = "aimed" /\ "silent" \in aim.options
     /\ s.due # "none" => s.view = "aimed"
     /\ s.due = "two" => "double" \in aim.options
     /\ s.busy => aim.forced
     /\ s.expired => aim.pending}

Failures ==
  {"late", "queue", "restore", "capture", "apply", "stop", "state", "penalty", "read", "hooks",
   "library", "helper"}

Frame ==
  /\ \E s \in Sights :
       \E bad \in Failures \cup {"none"} :
         /\ IF bad = "none" THEN NoFault ELSE Fault
         /\ LET updated == Updated(aim, s, bad)
            IN  aim' = [updated EXCEPT
                          !.caught = aim.making # NoRequest /\ updated.frame = "settled"]
  /\ UNCHANGED <<game, requests>>

Next == Live \/ Take \/ Set \/ Expire \/ GameThread \/ Frame

Spec == Init /\ [][Next]_vars

-----------------------------------------------------------------------------
(* Properties.                                                             *)

\* Only the weapon and the player that are remembered are not as the game has them, but
\* for those that once could not be read or written.
ChangedIsRemembered ==
  /\ \A w \in Weapons \ aim.spoiltWeapons : aim.values[w] = "own" \/ aim.weapon = w
  /\ \A p \in Players \ aim.spoiltPlayers : aim.moves[p] = "own" \/ aim.walker = p

\* What is remembered of them is what the game had.
RememberedIsTheGames ==
  /\ aim.weapon \in Weapons \ aim.spoiltWeapons => aim.weaponHad = "own"
  /\ aim.walker \in Players \ aim.spoiltPlayers => aim.walkerHad = "own"

\* A frame without a target, or without a firearm, leaves nobody stopped.
StoppedForATarget ==
  aim.frame \in {"settled", "idle"} =>
    \A p \in Players \ aim.spoiltPlayers : aim.moves[p] = "own"

\* After a frame that turned it off or found the menu open, nothing is in force: the aim
\* is not forced, whatever call runs late, unless its release is under way, could not be
\* queued, or the game's thread was preparing while the frame was made.
OffIsOff ==
  aim.frame = "settled" =>
    /\ aim.weapon = NoWeapon /\ ~aim.published /\ ~aim.pending
    /\ \/ aim.actor = NoPlayer \/ aim.calls["release"] = "queued" \/ "release" \in aim.strays
       \/ aim.unsent \/ aim.caught

\* A second shot follows a first one, and only once.
OneSecondShot == ~aim.extra
=============================================================================
