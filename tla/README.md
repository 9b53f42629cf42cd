# PzTrainer in TLA+

PzTrainer is a single-player companion for *Project Zomboid*: a DLL that draws a menu over
the game and drives the game through JNI, and a small Windows launcher that loads it. These
modules specify the parts of both where state, threads, files and a game that changes under
them make it hard to be right, check them with TLC on small instances, and prove the main
properties of the core with TLAPS for every instance.

    tlc -workers 2 -config MCMainThreadCall.cfg MainThreadCall.tla
    tlc -workers 2 -config MCBridges.cfg MCBridges.tla
    tlapm MCBridges.tla

## 1. The system

### Threads

| thread | runs | touches |
|---|---|---|
| render thread | `HookedSwapBuffers` (`runtime/overlay_runtime.cpp`), once per frame: every bridge's update, the menu, Lua controls | nearly all state of the trainer |
| game thread | the JVM's main thread: queued `MainThreadQueueItem`s, Lua chunks and callbacks, the native `Dispatch` of the Lua API | the Lua registry, the menu controls, the game's objects |
| dispatch threads | one detached thread per asynchronous call, which hands the item to the game | nothing else |
| bootstrap thread | `BootstrapThread`, once: claims the process, extracts the JAR, waits for `gdi32` and hooks `SwapBuffers` | the instance marker, the JAR cache, the hook |
| the launcher's threads | the window, and one worker for each attempt (`launcher/`); in the game, the thread that completes the loading | the window's state, memory of the game |
| window procedure | `WindowProcedure`, on the thread that owns the game's window | input state of the menu |

A second process (another game with the trainer) shares the configuration directory, the
preferences and the extracted JARs.

### Inventory

| component | source (`trainer/src/`) | state | operations | what is hard | what makes it correct |
|---|---|---|---|---|---|
| Game-thread calls | `bridge/main_thread_invoker` | one call record per bridge: expression, queue item, start time | queue, poll, reset | the item runs late, never, or after the caller gave up; reordering of dispatch threads | a verdict is true of the caller's own item; a call takes effect at most once; a slot is always freed |
| Configuration store | `settings/configuration_store`, `settings/ui_preferences` | `.pzcfg` files, `.vN.bak` backups, `preferences.ini`, the designation and directory in memory | save, load (with upgrade), delete, designate, change directory, load the default once | failure and crash between any two file operations; several processes; upgrades | nothing half written, damaged files kept, originals backed up, reports true, memory and preferences agree |
| Lua feature registry | `bridge/lua_feature_registry` | settings, snapshot, queue of writes | describe, find, queue a write, apply, refresh | game thread against render thread; sessions that change; coupled bounds | no acknowledged write lost, no write where not allowed, bounds ordered |
| Lua scripts | `bridge/lua_script_bridge` | script records, one operation, one pending configuration | load, reload, unload, auto reload, apply a configuration, scan | three calls per operation, each failing or timing out; files vanishing; user and configuration competing | no script locked or lost, cleanups held until run, the configuration ends as written |
| Lua menu controls | `bridge/lua_ui_bridge` | categories with owners, controls, icons, selection, registration owner; the references to the game's Lua runtime | native dispatch, edit, select, capture, restore, remove; install and renew the namespace | two threads, ownership by a global, tables that outlive what they name; a runtime that is replaced while it is read | controls go with their script and keep their own values; the namespace is where scripts look for it |
| Overlay and startup | `runtime/overlay_runtime`, `bridge/game_startup_gate` | instance marker, hooks, gate, frame flags | bootstrap, frame, window messages | failure paths, hook installation order | one instance; hooks only when ready; the marker released on failure |
| JAR cache | `runtime/lua_bridge_resource` | extracted JARs on disk | extract, verify | several processes, partial files | a loaded JAR is complete |
| Teleport | `bridge/player_teleport_bridge` | click in flight, cooldown | click, jump, message | a click that spans frames, the cooldown of a server | one jump per press and cooldown; the server knows the place |
| Item delivery | `bridge/item_bridge`, `bridge/*_item_bridge`, `bridge/*_payload_bridge` | the request, its phase, what is counted | request, steps on the game thread, report | a dozen calls of which any fails or runs late; carriers of the game that must not stay | what is reported has arrived, whole and once; nothing is left behind |
| Farming mode | `bridge/farming_mode_bridge` | the flag's original, the phase of a round of calls | switch, update, poll | a switch, a new world, a failure or a late write in the middle of a round | the original comes back, off means off |
| Switches and values of the player: timed actions, health, movement, resources, weight, weapons | `bridge/player_*`, `bridge/timed_action_bridge`, `bridge/endurance_compensation_bridge` | originals and whose they are, declarations to the server, throttles | update per frame, switch, repair, refill | death, a new world, another weapon or a failed call while an original is held; the server must be told, in order | originals come back to whom they belong; the server agrees |
| Options of the world: multi-hit, free building, world map, world visuals | `bridge/multi_hit_bridge`, `bridge/free_build_bridge`, `bridge/world_*` | originals, remembered objects of the JVM, a Lua patch | update per frame | the world, its objects and its Lua environment are replaced | off means restored, what is believed to be in force is |
| Experience, stats, medication | `bridge/experience_bridge`, `bridge/player_effect_bridge`, `bridge/server_player_effect_bridge`, ... | catalogs with their session, a training, a request with a deadline | refresh, set, train, medicate | values read in one session and used in another; answers that may not come | gains and stats are known to the server; one action per request |
| Aim and ballistics | `features/aim`, `bridge/rage_fire_bridge`, `RageFireOverrides.java` | overridden weapon and movement, the forced aim, the hooks' target, a pending shot | a frame; prepare, release and attack on the game thread | early returns between changing and restoring; queued calls that run late and in any order | off means off; what is changed is remembered |
| Model capture and painting | `features/visual`, `bridge/viewpoint_bridge`, `NativeModelCapture.java`, `ModelMaterial.java`, `ViewpointModelChams.java` | slots of captured models, recorded draws, rebuilt programs, targets, the state of OpenGL | publish, submit, record, replay | three threads with a snapshot each; identities and numbers that are used again; failures inside a pass | what is painted was seen; the game's state of OpenGL comes back |
| Vehicle physics | `features/vehicle`, `VehiclePhysics.java` | two hooks, originals of vehicles | install, step of the engine | partial changes, refused restores | hooks stand together, vehicles are given back |
| Java extensions | `bridge/extension_bridge`, `java/pztrainer/extensions` | the command with its session, what each tool changed | submit, run, maintain, undo | the session changes between submitting and running; other clients take objects over | a command stays in its session; tools undo themselves |
| Launcher | `launcher/` | window, attempt, allocations in the game | click, load, map, wait, paint | a wait that times out, a worker that outlives the window, partial allocations | nothing in use is freed, nothing is loaded twice, what is shown is of this attempt |
| Menu, localization | `ui`, `settings/localization` | widgets, texts | drawing | none that outlives a frame | not modelled |

How they interact: the frame calls the bridges in a fixed order (startup gate, snapshot,
aim, `ApplyPendingLuaFeatureWrites`, `RefreshLuaFeatureRegistry`,
`LoadDefaultConfigurationOnce`, `UpdateLuaScriptBridge`, the other bridges, the menu).
Loading a configuration sets the trainer's settings and hands the list of scripts to
`ApplyLuaScriptConfiguration`; saving one asks the script bridge and the controls for
theirs. Script operations are game-thread calls; chunks register controls through the native
dispatcher, and read and write settings through the feature registry.

## 2. The modules

| module | what it is |
|---|---|
| `GameThreadContract` | abstract: what a bridge may count on when it calls the game thread |
| `MainThreadCall` | the protocol of queue, dispatch, poll and timeout; implements the contract; with its proofs |
| `ConfigurationStore` | configurations, upgrades, backups, preferences, processes and crashes; with its proofs |
| `FeatureRegistry` | writes and reads of settings by Lua scripts; with its proofs |
| `LuaScripts` | script operations, configurations of scripts, ownership of controls |
| `Startup` | injection into several games, the instance marker, the shared cache of JARs; with its proofs |
| `LuaControls` | the part of the menu that scripts make: categories, icons, controls and their values |
| `LuaNamespace` | the functions of that part in a Lua runtime that the game replaces |
| `FarmingMode` | a flag of the game that is forced and put back over rounds of game-thread calls |
| `GameSession` | external: the local player, the world, the connection, and calls that fail; what the modules below extend |
| `TimedAction`, `PlayerHealth`, `PlayerMovement`, `PlayerResource`, `PlayerCarry`, `PlayerWeapon` | switches and values of the player and his weapon |
| `MultiHit`, `FreeBuild`, `MapOverrides`, `WorldVisuals` | options, patches and looks of the world |
| `Experience`, `PlayerStats`, `Medication` | skills, stats and treatments, here and on a server |
| `Teleport` | the click on the map, the jump, the cooldown |
| `ItemDelivery`, `CarrierTransfer`, `CorpseDelivery`, `PlacedCarrier`, `WeaponUnload` | the ways in which items come to the player |
| `ExtensionCommands`, `HandTools`, `ZombieTools`, `ContainerJobs`, `CreationSkills` | the Java extensions: the command and its session, and what the tools change and undo |
| `VehicleGhost` | the vehicle that nothing collides with, and the hooks it takes |
| `ModelCapture`, `ModelMaterials`, `ModelScreens` | which models are painted over the picture, with which programs, and into what |
| `AimOverrides` | what aiming changes in the game, and how it is given back |
| `Launcher` | the window, the worker, and the loading of the library |
| `BridgeStates` | what the sum of the modules over `GameSession` is built on: the constants and what is assumed of them, the two variables, and instances of ten components with the invariants that more than one proof module needs |
| `BridgeInvariants` | instances of the twenty-one components that keep an original or owe the server a message, and for each the inductive invariants with their proofs |
| `BridgeBooks` | for the seventeen components of `BooksAreRight`, what their books say, with the proofs |
| `MCBridges` | the sum of the modules that extend `GameSession`: a behaviour exercises one of them; with the invariants of those that leave the game as it was or deliver something, and the theorems about the sum |
| `MCLuaBridges` | the sum of `FeatureRegistry` and `FarmingMode`: a behaviour exercises one, with its fairness, and the other rests |
| `LuaProofs` | the theorems about `LuaScripts` and `FarmingMode`, which both work on the game's Lua from the render thread |
| `MC*.cfg` | the constants of the runs; sets and functions they need are defined in the module of the run (`MCPaths` and the like) |

Operators commented *Faulty variant of ...* are plausible bugs in the operator they name;
each violates a property under the run that checks it, which shows that the run can tell.

### MainThreadCall and GameThreadContract

A bridge (`Callers`) has one slot, its `AsyncObjectMethodCall`; an item is one
`MainThreadQueueItem` with its expression. `Queue`, `Poll*`, `Reset` are the functions of
`main_thread_invoker.cpp`; `Dispatch` and `LoseDispatch` are the lambda of the detached
thread; `Run`, `Finish` and `Elapse` are the game and the clock. The contract knows only
which item a caller has open, whether an item took effect and what its caller was told. The
refinement is `open <- slot` and `effect <- effectOf`: queueing is opening, running to the
end is taking effect, every verdict is concluding, and all else stutters. That an effect may
come after the conclusion is part of the contract: it is what a timeout means here.

### ConfigurationStore

A file has a format (absent, torn, damaged, current or one of the old ones) and a value.
Each operation of `configuration_store.cpp` is cut into the system calls it makes: read,
look for the backup, begin and end its copy, open, write and move the temporary file, apply,
undesignate. Any of them may fail, a process may die between any two, and several processes
interleave at this grain. The preferences are written to a file named after the process and
moved; only a starting process reads them, so saving them is one step. The reader's 21
formats are one or two old ones: what differs between them is where fields lie.
A file is the set of the names that open it (`Files`, and `FileOf` for a name): more than one, as
on Windows names in different letter case do. `DeleteConfiguration` compares the designated name
letter for letter (line 1339): deleting "A" removes the designated "a" and keeps the designation,
which `docs/VISIBILITY_DEFAULT_CONFIG.md:10` says a delete clears (`configuration_spelling`). What
does hold of two spellings is in `OutcomesAreTrue`: the next start does not look under the name
that was given. A task keeps the file as it was when the operation began (`before`) and the backups
that it met then (`former`), for the two properties that compare with them. The code takes any
backup of a format for that of the file at hand (line 1292), so `UpgradesAreBackedUp` says what an
upgrade leaves in each case: the backup that was met, as it was met, whole or half made, and where
there was none the original.

### FeatureRegistry

`QueueWrite` and `Find` run on the game thread under the lock; `TakeWrites`, one `ServeWrite`
per write and `RefreshSnapshot` are the two calls of the frame. The menu and the session
change settings and availability while the render thread is not inside them. Three kinds of
features stand for the table: an ordinary or gated one and the two coupled damage bounds.
`owed` and `latest` are history: acknowledged writes not yet served or replaced.

### LuaScripts

The frame is cut at the functions it calls (`pc`): scan, poll, pending configuration, auto
reload, menu. `Begin` is `BeginOperation` with what its caller does with the answer; the
three phases are `QueueCleanup`, `QueueCompile` and `PollCompile`'s queueing of the chunk. A
call is queued, overdue or done, which is what `MainThreadCall` grants: `Run` may never come,
`PollFailed` may come at any time (an exception, a JNI fault or the timeout). A chunk that
was given up, and every callback, may still register controls, under whatever owner is set
then (`Register`). The indices into the two lists of a pending configuration are the sets of
what is left, in any order. Captured control values are those of `LuaControls`; left out is the state of the
game that chunks change. Deleting a script from the menu is an unload request, `Edit` and
`RefreshDirectory`, in any order. The history variables number the cleanup functions that
chunks return: `latest` is the one of a script's last chunk, `undone` holds those that ran to
their end, `abandoned` those whose call was given up and may still run (`RunAbandoned`). A cleanup
whose call timed out keeps its reference (`lua_script_bridge.cpp:418`); it may run late, and the
next stop calls it again: nothing in the code prevents that, so no property says that a cleanup
runs once. What the code does ensure is the other half, `StoppedScriptsAreUndone`: what the menu
shows as stopped has been undone.

### Startup

A copy of the library (`Copies`) is injected into a process (`Home`); copies in one process
share the named mutex, which `marker` stands for, and the name of the temporary file, which
has the process number in it. `at` is the next step of the copy's bootstrap thread and, once
`SwapBuffers` is hooked, of the render thread, which extracts again whenever a bridge needs
the JAR; before the hook there is no render thread of the trainer, so a copy extracts in one
place at a time. `EnsureBridgeJar` is cut at its file operations. A temporary file is absent,
torn or whole; the cached JAR may be damaged from the start. Every step of the extraction may
fail, an error while the file is closed goes unnoticed (the stream's destructor drops it), and
`MoveFileExW` fails when another game has the JAR loaded. `Exit` ends a game at any moment:
its files stay, its number may be given to the next game. The cache directory is named after
the hash of the JAR, so only copies that carry the same JAR meet there; nobody else is assumed
to write into it. The trainer extracts two JARs, alike and independently: one stands for both.

### LuaControls and LuaNamespace

An action of `LuaControls` is a critical section of `g_mutex`: a call of `Dispatch` (a category
takes two, between which its icon's table has been read), an edit or a selection by the user, and
what a script operation does to the menu when it begins, compiles, executes and ends. A script
holds a category only by the number in its table, and may use the table for ever (`tables`,
`pens`), from a callback or from a chunk that was given up. Controls are of three types: texts
behave like toggles, the channels of a colour like sliders from 0 to 1. The history fields `of`
and `from` say through which table a control was added and from which script its value comes.
`std::clamp` with bounds in the wrong order, which a script can ask for, is undefined and answers
with one of the two here. A window's slider takes any number that is typed into it, a page's does
not, so that `ValuesAreInRange` is about pages. The operation itself, with its cleanup, its
timeouts and its records, is that of `LuaScripts`.

`LuaNamespace` cuts `EnsureLuaUiApi` at the two fields of the game it reads, since the game
replaces them on another thread. Where the first call comes as far as `RegisterNatives` and
fails afterwards, the next one loads another class from another loader, whose native method is
never registered, since `native_registered` stays true (`lua_ui_bridge.cpp:1116`): the functions
of `PZSA` then throw. `FunctionsReachDispatch` excepts exactly this (`retried`). `Dispatch` also
reads the bindings while they are renewed; that race is not in the model.

### FarmingMode

`BeginLookup` starts a round of game-thread calls (it is `BeginOperation` of the code); `PollLookup`,
`PollRead`, `PollWrite` and `PollVerify` are the phases of `PollOperation`, each with the call it
queues next, and `CallFailed` and `PollTimedOut` its early end. A table of the game (`Menus`) stands for one Lua
environment, of which there is a new one with every world; `Own` is the flag as that world's
scripts set it. The calls are as `MainThreadCall` grants them: one that was given up may still
run. `late` keeps the writes among these, and `strayed` records that one ran when the bridge
did not hold the original or had read the flag already: this is the one way in which the bridge
cannot know what it has done, and the properties except it. Nobody else is assumed to change
the flag of a table. The wait of a second between two rounds is left out: a round may start at
any later frame.

### The modules over GameSession, and MCBridges

Each of these modules has one record variable, whose fields are the static variables of the
file it is about together with the part of the game that file changes, and shares with the
others only the session: the player, the world, the connection. `Live` is a step of the game,
after which players are never the same object again; requests of the user and calls that fail
are counted (`Request`, `Fault`), the bounds of the run. A frame is one action where the code
runs it without letting the game go on, and is cut where a call of the game thread, another
thread or another client comes in between: `GameThread` in `AimOverrides` begins and ends a
preparation in two steps because the frame may withdraw the request in between; `PlayerCarry`
cuts `update()` at each read of the volatile request; `ModelCapture` has the publishing frame,
the game's own frame and the replaying one.

Operators take the record and return it changed, so that a handler reads as the sequence of
the calls it makes. A failing call is a parameter (`bad`) or the disjunct with `Fault`.

`MCBridges` instantiates each of them under a name (most of them by way of `BridgeStates`,
`BridgeInvariants` and `BridgeBooks`) and chooses one in the initial state. That
is enough because they share nothing else: no step of one reads or writes a variable of another,
so every behaviour of all of them together is, for each of them, a behaviour of it alone with
stuttering steps, and an invariant of one cannot be broken by another. Its invariants are
conjunctions by theme, with one conjunct for each component that has such a promise:

* `OriginalsAreTheGames`: what is remembered, to be put back, is what the game had set, for the
  player, weapon, world, vehicle, program or environment it is remembered for;
* `OffMeansRestored`: where a feature is off, the game is as it was;
* `ServerIsTold`: the server knows what was changed here;
* `BooksAreRight`: what is believed to be in force or under way is, and nothing is done twice;
* `DeliveriesAreTrue`: what is reported has arrived, whole and once, and nothing is left over;
* `BridgesTypeOK`: the types of all.

The code does not promise these without exceptions: a call that puts something back may fail,
and the code then forgets the original. Where it does, a history variable records exactly that
event (`spoilt...`, `unsent`, `dropped`, `late`), and the property names it as an exception in
its comment. So the properties say that these are the only ways in which the promise is broken.
Some of the exceptions are worth knowing:

* a weapon or player whose values can be read only in part when aiming begins is "restored" to
  zeros for what was not read (`features/aim/rage_aim.cpp:764`, `:822`), and a restoring write
  that fails is not tried again (`:718`);
* a preparation that has read its request forces the aim although it was withdrawn meanwhile;
  only the next frame that resets releases it (`AimOverrides`: `caught`);
* the carried weight that the server echoes is recognised only if it is the last one that was
  sent (`carried_weight`, below);
* a corpse payload that is asked for while a local delivery is under way begins the report anew
  before it looks at the session (`bridge/item_bridge.cpp:1297`). Refused, it has set the count of
  the delivery to zero, which then makes as many items more before it reports success:
  `SuccessIsWhole` says exactly how many (`ItemDelivery`: `struck`). Accepted, in a session that has
  become one on a server, it takes the report (`overwritten`);
* a carrier request that waits for the action announces "the server has removed the carrier and
  registered the items" when the square under the player cannot be read
  (`bridge/pallet_item_bridge.cpp:442`): no square counts as a square without the carrier
  (`PlacedCarrier`: `blind`). While it prepares, the same answer places a second carrier;
* a weapon whose chance of a jam cannot be put back when the player takes another is forgotten all
  the same (`bridge/player_weapon_reliability_bridge.cpp:165`; `PlayerWeapon`: `lost`);
* a frame that cannot read the session takes it for a local one: walking through walls is withdrawn
  from the server and stays on (`bridge/player_movement_bridge.cpp:199`; `PlayerMovement`:
  `misread`), until a frame turns the switch again;
* a program that failed to be rebuilt is refused by its numbers without holding its shaders,
  so that a later program with the same numbers is refused too (`ModelMaterial.java:148`).

## 3. The runs

| run | instance | shows |
|---|---|---|
| `game_thread_calls` | 2 bridges, 3 calls, with fairness | types, slots, verdicts, the refinement, and that every call ends |
| `configurations` | 1 process, 2 directories, 1 file with 2 names, 2 settings, 1 death, 1 file brought in | true reports, memory = preferences, what an upgrade leaves as backup |
| `configurations_shared` | 2 processes, 1 death, 1 file brought in | nothing torn, damaged files kept, finished backups kept |
| `lua_bridges` | one of: 3 features and 3 writes; 3 worlds, 3 switches and 2 failures; with fairness | writes kept and served, bounds, freshness, availability; the farming mode's original is not mixed up, off means off, switches take effect |
| `lua_configuration` | 2 scripts, 2 requests, 3 edits | configurations end as written, stopped scripts undone, records kept |
| `lua_scripts` | 2 scripts (one external), 2 requests, 1 outage, with fairness | no locked script, no left-over control, operations and configurations end |
| `startup` | 2 copies in one game, 1 in another, 2 games that end, with fairness | one active copy per game, whole JARs, markers given back |
| `bridges` | up to 2 players, 2 of everything else; see `MCBridges.cfg`, whose `Places`, `Things`, `Medicines`, `Shaders`, `Windows` name what a module calls by its own name, and the substitutions at each instance | the five themes above, for 32 components |
| `configuration_upgrade_again`, `configuration_spelling`, `lua_cleanup_dropped`, `carried_weight` | as small as the case allows | the code departs from its documentation, see below |

Bounds. Three items let one bridge time out, call again and see the first item run beside
another bridge's. One file in two directories gives every pair of operations
on the same and on different files, and its two names every operation under the one that is
designated and under the other; one file brought in is an old, damaged or future one, also where
an earlier one was upgraded or a crash left half a backup; two processes are enough for every interleaving of two
writers; one death puts the crash at every step. Three writes over three features give a
replaced write, a write during serving and one after it. Two scripts give a script under
operation and another to compete; two requests are, for instance, a configuration and a second
one replacing it half-way, or a configuration and a load meanwhile; the edits are
changed, deleted and new files at any point, three of them in `lua_configuration`: they also begin
reloads, so that a cleanup can time out, run late and be called again. Two copies in one game and
one in another give every meeting at the marker, at the temporary file and at the cached JAR;
two ends of a game give a crash during the extraction and one more after it, with the number
used again. Three worlds are two as
the game starts them and one whose flag is set already; three switches are on, off and on again
at any point of a round, two failures a lost write and a failing round after it. `MaxDeliveries`, `MaxCrashes`, `MaxExits`, `MaxWrites`,
`MaxRequests`, `MaxEdits`, `MaxOutages`, `MaxToggles`, `MaxFailures` and `MaxFaults` are bounds of the runs only: no
theorem needs them. In `bridges`, two players give a death or a new world after everything that
was remembered of the first; two weapons, vehicles, zombies or environments give a change of each;
two to four requests turn a feature on, off and on again, or on and one option of it; one or two
failures put a failing call at every place and a second one behind it, where the handler has
several. Painting and aiming have one player in the run, since the object, the size of the
window, the weapon and the world change there instead. Symmetry (`Interchangeable`) is used in `lua_configuration` alone, which checks no
liveness. Deadlock is not checked where items or processes may
be used up.

Fairness. `MainThreadCall`: frames are drawn, so a bridge with an open call polls it, and
time passes; nothing is assumed of dispatch threads or of the game thread, and no poll is
counted on to fail. `FeatureRegistry`: frames are drawn. `LuaScripts`: frames are drawn and
time passes; the Lua runtime must stay from some point on, stated in the property
(`<>[]api`), because without it `UpdateLuaScriptBridge` returns before it polls. `Startup`: a thread that
was started goes on, and `gdi32` gets loaded (every game with OpenGL loads it); nobody has to
inject or to ask for the JAR. `FarmingMode`: frames are drawn, and the game loads the scripts of
a world and serves its queue; without the last a switch would never take effect, which is the
case `MainThreadCall` covers. The modules over `GameSession` have safety properties only and
assume no fairness.

### What the violation runs show

* `configuration_upgrade_again`: an existing `.vN.bak` is taken for the backup of the file at
  hand, though it may be that of another file that had the same name; the original is then
  replaced without a backup, against `docs/VISIBILITY_DEFAULT_CONFIG.md:22`.
* `configuration_spelling`: a delete under another spelling of the designated name removes the file
  and keeps the designation, against `docs/VISIBILITY_DEFAULT_CONFIG.md:10`: the next start looks
  for a default configuration that is gone.
* `lua_cleanup_dropped`: loading a script that still holds a cleanup function replaces the
  function without calling it, against the text at `ui/lua_page.cpp:291`.
* `carried_weight`: after the multiplier changes while the server still echoes the weight of the
  old one, the echo is taken for the game's own and multiplied again, against the comment at
  `java/pztrainer/player/CarryOverrides.java:26`.

## 4. The proofs

TLAPS proves, for all values of the constants and from the assumptions named in the modules:

* `MainThreadCall`: types; slots and verdicts; the refinement of the contract. The
  inductive invariant is `TypeOK /\ SlotHoldsTheOpenCall /\ VerdictsAreTrue`: that a slot holds
  an item without verdict is what makes the verdict of a step the first one, and that
  finished items stay as they are keeps the old verdicts true.
* `ConfigurationStore`:
  * types, and no torn configuration, by adding that the temporary file of a process about to
    replace is the whole of its payload and that payloads are never torn (`IInv`);
  * damaged files are changed only by the save or delete that names them, by adding what is
    under way at each step of an operation (`OpInv`: a load that has come to its upgrade has read a
    file, and nobody damages it meanwhile);
  * a backup that was copied to its end is never made anew, for any number of processes, by adding
    that one process at most fills a backup, which is half until it is full (`CopyInv`);
  * memory and preferences agree, for one process (`OneProcess`): a second one would write the
    preferences from its own memory;
  * reports are true, for one process: until an operation replaces it the file is the one it began
    with (`Untouched`). Of two processes one may report what the other has replaced since, as a file
    system without locks allows;
  * what an upgrade leaves as backup, for one process: the backups it met stay as they were until
    it has copied its own (`Backed`).

  Nothing is assumed of the names of files, of crashes or of what is brought in.
* `FeatureRegistry`: types; that acknowledged writes are in flight, by adding that the
  queue and the taken writes hold no feature twice; that bounds are ordered; that settled
  reads are fresh; that no write reaches a feature its session does not allow.
* `LuaProofs`, about `LuaScripts`: types, who is operated on, which records exist, who owns controls, that what is
  stopped has been undone, and that a configuration ends as written. The strengthening has three
  parts. `OperationInv`: a script is busy exactly while the operation is about it, and the
  registration owner is that script and only while its chunk runs, so that what is registered
  late belongs to nobody who was stopped. `CleanupInv`: a record holds the cleanup of its script's
  last chunk until that has run to its end, early or late, and a script at rest holds none. `ConfigurationInv`: from the first to the
  last script of a configuration an operation is under way, so that no request, reload or scan
  undoes what was handled; what it has not unloaded yet, the user loaded meanwhile.
* `Startup`: types; one active copy per process; temporary files used by one at a time;
  answered JARs whole and whole JARs untouched. All rests on the marker: a copy that extracts
  or draws holds the marker of its process, so copies of one process exclude each other
  without any other lock, and what was verified is still there when it is moved.
* `LuaProofs`, about `FarmingMode`: types; the original that is remembered is the game's, and off means off.
  Both need the whole round of calls in the invariant: which table a call is about
  (`TablesInv`), that a table which was written to, or may still be, is the known one or one of
  the past (`TouchedInv`), that only the forced flag or a remembered original is written
  (`FlagInv`), and that what is reported to be off is at rest (`OffInv`).
* `BridgeInvariants` and `MCBridges`: `OriginalsAreTheGames` for the sum, from one inductive
  invariant per component. They differ in what makes the remembered value right, and each says
  just that:
  * the original is tied to the identity of its owner: `TimedAction` (player), `MultiHit` and
    `WorldVisuals` (world), `MapOverrides` (settings), `Medication` (patient), `ZombieTools`
    (zombie), `VehicleGhost` (the body and the vehicle it belongs to), `FreeBuild` (Lua runtime);
    a step that changes the owner restores or forgets first;
  * what differs from the game's is the one thing that is held: `PlayerWeapon`, `HandTools`,
    `AimOverrides`, where a frame goes through early returns between changing and restoring, and
    the invariant must hold at each cut of a frame;
  * what is built is of what it was built from: `ModelMaterials`, where numbers are used again;
  * `PlayerCarry`: while the settings stay, the weight is the game's own or an echo of what was
    sent last. The proof attempt found that this was too much: the settings may also change while
    an update is between reading them and sending, which a run with two changes does not reach.
    `disturbed`, which records the exception, is therefore also set by a change in that window.
  The assumptions are about names: that the players of an instance are players
  (`PersonAssumption`), that "nothing" is not a weapon or place, that numbers are numbers and that
  there is a medicine.

* and `ServerIsTold` for the sum, from another invariant for each of the eleven components that
  change what the server also keeps. The property of the component is an exception list: the two
  sides agree but for what is known to be unsent, too soon, or of a connection that is gone. The
  invariant adds what keeps that list complete:
  * that only a server is told: `PlayerHealth`, `PlayerResource`, `PlayerWeapon` (jams) and the
    infection of `PlayerStats` owe nothing in a local world, so that nothing is owed when the
    next world is on a server;
  * that what was believed when the step began is still so: in `PlayerStats` the rights that the
    last frame saw were those of this player, so that a stat which is set without them is
    excused; in `PlayerMovement` what is ready was declared by bindings that are there;
  * that both sides move together: in `WeaponUnload` nothing is loaded there that is not loaded
    here, in `ContainerJobs` a container is emptied there first, in `ZombieTools` what is given
    back, held or struck is pending in the same step, and what is dropped from the pending ones is
    sent, of another client, or counted as missed. The zombies of the first world need the
    invariant that goes with `OriginalsAreTheGames`: there are none without a player, and
    nothing was done to them before.

* and `OffMeansRestored` for the sum, for the eleven components that promise it. `TimedAction`,
  `MultiHit` and `MapOverrides` have it from the first invariant; the others need one of their own:
  * what the property says at rest is said of each cut of a frame: `AimOverrides` (`OffInv`: while a
    release is under way, could not be queued, or is not called for, which of the three it is),
    `ModelScreens` (`ScreenInv`: what a pass set is given back before the next pass, and the mod's
    own frame gives back all or has not begun), `WorldVisuals` (`ObeyedInv`: which variables a
    frame has gone through, and that none of them failed);
  * who an effect belongs to: `PlayerHealth` (`GuardInv`: a player whose flags are not his own is
    the one whose are remembered, or is lost), `ExtensionCommands` (`ToolsInv`: the character the
    tools are kept up for), `ZombieTools` (`MarkedInv`: marks, zombies and the known ones);
  * what must still come: `PlayerResource` (`PlainInv`). This proof attempt, too, found a state that
    the run does not reach, for which three players are needed: a state that eases the endurance
    is on its way when its player leaves the server, a local world in between resets what the bridge
    knows of it, and in the next world on a server nothing takes it back. The code does that, so
    `undone`, which records the exceptions, now counts a world that is entered with a submission
    under way;
  * the order of things: `CreationSkills` (`CreationInv`). The property used to count the functions
    of mods; now they are numbered, and it says that each is there.

* and `DeliveriesAreTrue` for the sum, for the six components that report a delivery. A request
  is a sequence of calls that time out and may still run later, and the report comes frames
  afterwards; the invariants say at each step of it what has happened so far:
  * counters that move one after the other: `ItemDelivery` (`ItemInv`: what was given is what was
    created or struck off, or one more from the call that gives it until it is counted), `WeaponUnload`
    (`CountedInv`: the server has made as many rounds as were counted, and one more when the
    weapon is empty here), `CarrierTransfer` (`TransferInv`: what was counted and what the player
    held before the request never exceed what came; and of a request that nothing interferes
    with, the item is in the carrier, asked for, or here);
  * what was done before what: `CorpseDelivery` (`CorpseInv`: each kind before the index is in
    the container, which is marked before it is placed);
  * what a step found out earlier still holds: `PlacedCarrier` (`PalletInv`: the square that was
    read is the one the player stands on, the carrier found there is of this request, and no
    other is beside it), as long as the player has not moved, his square could be read and no abandoned call strayed;
  * several attempts at once: `Launcher` (`LauncherInv`: what an attempt has in the game follows
    from the state of its thread there, and only the latest attempt of this run is unfinished,
    which is the one the window waits for).

  The proof attempt for `PlacedCarrier` found the property false beyond the run's bounds. It said
  that two carriers stand on one square only if the player moved during the current request;
  but the square may have had them since an earlier request, during which he did. TLC shows it
  with five requests instead of three. `crowded` now records the squares that had two when the
  request began, and `LeftoversAreUsed` says that the request adds none.

* and `BooksAreRight` for the sum, for the seventeen components of the theme, in `BridgeBooks`. The
  invariants of `BridgeInvariants` serve again where a book is about what is remembered; what each
  component needs besides is:
  * that a step which is begun is ended by its own actor: `PlayerCarry` (the property itself, given
    the states of an update), `Teleport` (`TeleportCounts`: a jump belongs to a press that still
    lasts, a packet to a cooldown that does), `AimOverrides` (`AimShots`: a pending second shot is
    one that was followed), `Medication` (`MedicationCounts`: an answer is due for what was sent,
    and until it comes the patient is kept, which excludes a second request);
  * that what a frame found out is still so: `FreeBuild` (`BuildBelieves`: an environment that was
    never entered has no flag set, and the known one has the flag that is believed, but for the
    write that is done and not read), `CreationSkills` (`CreationFit`: what is set is of the
    descriptor and environment that were seen), `Experience`, `PlayerWeapon`, `LuaNamespace`
    (`NamespaceGood`: the namespace is of the environment and platform read last);
  * that numbers are given once: `ExtensionCommands` (`ExtensionHistory`: commands are numbered below
    the next number, and the pending one is not among those that are done), `LuaControls`
    (`MenuGood`: categories, icons and the tables of the scripts by number; a number that
    is not used any more is never given again, so that a table from before a reload reaches nothing);
  * that what is held is counted: `ModelCapture` (`CaptureGood`: the references of a model are
    as many as its places in the queue, the one recorded command is of the window that is
    drawn, and a fresh list is the last one that was asked for), `ContainerJobs` (`JobFine`: the line of containers has no repeats, what
    is in it is not filled yet, and done, skipped and waiting add up to the total), `WorldVisuals`
    (`VisualsLamp`: one lamp beside those a failed removal left);
  * that things stand or fall together: `VehicleGhost` (`GhostHooks`: all hooks or none), `ModelScreens`
    (`ScreenBooks`: a target is of the size of its window, and a fresh list has what was published
    last), `Launcher`
    (`LauncherBooked`: what a thread of the game or the worker still uses is not freed, by the
    state of each of them; `LauncherPaints`: what is painted is there, unless making it
    failed).

  Three assumptions come with it. `PlacesAssumption` and `CaptureAssumption` say that the containers
  of the job and the objects that are painted are finitely many, which what is loaded of a world is:
  the job counts what is left of its containers, and counting an infinite set means nothing; the
  second also keeps the marks for the player's own model and for "no window" apart from objects and
  windows. `ScriptAssumption` keeps "nothing" apart from the scripts of the menu.

  `ModelCapture` counted its references with folds over the queue and the records. What a fold
  computes is known by induction over data, which is out of the prover's reach, so these operators
  are now said by what they return (`Times`, `Without`, `Enqueued`, `Recorded`); TLC finds the
  same states with either.

Alternatives whose conditions overlap are written as `IF`, in the order of the code: TLC takes the
first alternative of a `CASE` that fits, and the language leaves it open, which these proofs would
not let pass.

Proofs by induction over the steps need no bound: `MaxRequests` and the like occur in the guards
and are not used in a proof, but for those of the sum that are given a value below.

The sum gives a few constants of its components a value, in the instances:
two Lua environments and one mod for `CreationSkills`, two sizes and the filling pass for
`ModelScreens`, containers of two items and two rounds for `ContainerJobs`, one recorded command at
a time for `ModelCapture`, two categories or icons and the values 0 and 1 for `LuaControls`, no
requests of the user for `ModelMaterials`. (The quantities, items and kinds of the deliveries, `MaxQuantity`, `MaxItems`
and `MaxKinds`, are constants of the sum, any numbers at all.) For these the theorems say no more than the instance does.

Every safety invariant and action property of a passing run is a theorem but one: the types of the
sum, `BridgesTypeOK`, which no proof needs as a whole (each invariant types the fields it reads).
Only model-checked are this one, liveness under fairness, which is out of the prover's
reach, and of course the violations.

## 5. Not modelled, and the plan

Not modelled:

* drawing and the layout of the menu, the launcher and what is painted (no state outlives a
  frame), localization, the shaders;
* arithmetic: the choice of a target and its prediction, the modifiers of a weapon, steering a
  vehicle, the projection of a point, the colours of the sky;
* the byte layout of configuration formats, and of the image that the launcher maps;
* the aiming without rage (`features/aim/legit_aim.cpp`) and the hit list of a shot;
* what scripts do with items, features and the world beyond the feature registry, and the records
  of scripts that were loaded in a Lua runtime that has been replaced since;
* the frame of the overlay itself: the gate, the set-up of ImGui, the window procedure, the
  synchronous calls and their block;
* the game itself beyond what the calls rely on: the modules take it to do what it is asked, or
  to fail.

Next, in this order:

1. The overlay's frame, composed with `Startup`: no bridge runs before the gate.
2. `LuaControls` and `ConfigurationStore` composed with `LuaScripts`: saving while a configuration
   is being applied.
3. The deliveries of `ItemDelivery` over `GameThreadContract` instead of steps that fail.
