---------------------------- MODULE LuaNamespace ----------------------------
(***************************************************************************)
(* trainer/src/bridge/lua_ui_bridge.cpp, EnsureLuaUiApi: the table PZSA    *)
(* that scripts find in the game's Lua environment.  Its functions are     *)
(* objects of a class of ours, which is loaded once and whose native       *)
(* method is Dispatch; other classes of ours come from the same loader.    *)
(*                                                                         *)
(* The game has no Lua until it has set it up, and sets it up again when a *)
(* world is entered: LuaManager.platform and LuaManager.env, which are not *)
(* in the repository, become other objects, one after the other, on        *)
(* another thread than the one that reads them one after the other here.   *)
(***************************************************************************)
EXTENDS GameSession

CONSTANT MaxObjects  \* bound: platforms, and environments, of a run

VARIABLE lua

vars == <<lua, game, bounds>>

Objects == 0 .. MaxObjects

\* env and platform are the game's, and zero where there is none.  The rest is ours:
\* environment, platform_instance, bridge_class and registered of g_bindings; linked is
\* the class whose native method is Dispatch (native_registered: there is one), loads
\* numbers the classes, each with its loader.  spaces says of what class the functions
\* in an environment are.  at, seen and read are those of the call that is under way or
\* was answered last.  retried: a class was loaded after one was linked.
NamespaceTypeOK ==
  /\ lua.env \in Objects /\ lua.platform \in Objects
  /\ lua.environment \in Objects /\ lua.instance \in Objects
  /\ lua.class \in 0 .. lua.loads /\ lua.linked \in 0 .. lua.loads
  /\ lua.spaces \in [Objects -> 0 .. lua.loads]
  /\ lua.at \in {"rest", "reading", "read"} /\ lua.seen \in Objects /\ lua.read \in Objects
  /\ lua.registered \in BOOLEAN /\ lua.answer \in BOOLEAN /\ lua.retried \in BOOLEAN

Init ==
  /\ GameInit
  /\ lua = [env |-> 0, platform |-> 0, environment |-> 0, instance |-> 0, class |-> 0, linked |-> 0,
            loads |-> 0, registered |-> FALSE, spaces |-> [e \in Objects |-> 0],
            at |-> "rest", seen |-> 0, read |-> 0, answer |-> FALSE, retried |-> FALSE, helpers |-> {}]

-----------------------------------------------------------------------------
(* The game.                                                               *)

NewPlatform ==
  /\ lua.platform < MaxObjects
  /\ lua' = [lua EXCEPT !.platform = @ + 1]
  /\ UNCHANGED <<game, bounds>>

NewEnvironment ==
  /\ lua.env < MaxObjects
  /\ lua' = [lua EXCEPT !.env = @ + 1]
  /\ UNCHANGED <<game, bounds>>

-----------------------------------------------------------------------------
(* EnsureLuaUiApi.                                                         *)

Answered(l, answer) == [l EXCEPT !.at = "rest", !.answer = answer]

\* A first call reads the platform before the environment, if the game's classes are there,
\* a later one the environment before the platform.
ReadOne ==
  /\ lua.at = "rest"
  /\ \/ /\ NoFault
        /\ lua' = IF lua.registered THEN [lua EXCEPT !.at = "reading", !.seen = lua.env]
                  ELSE [lua EXCEPT !.at = "reading", !.read = lua.platform]
     \/ Fault /\ ~lua.registered /\ lua' = Answered(lua, FALSE)
  /\ UNCHANGED <<game, requests>>

ReadOther ==
  /\ lua.at = "reading"
  /\ lua' = IF lua.registered THEN [lua EXCEPT !.at = "read", !.read = lua.platform]
            ELSE [lua EXCEPT !.at = "read", !.seen = lua.env]
  /\ UNCHANGED <<game, bounds>>

\* InstallNamespace, when it succeeds: PZSA is put into the environment when all of its
\* functions are in it.
Installed(l) == [l EXCEPT !.spaces[l.environment] = l.class]

\* Faulty variant of NotInstalled: the runtime that could not be used is kept.
NotInstalledHere(l, replaced) == Answered(replaced, FALSE)

\* Where it fails, the runtime that was in use before is kept.
NotInstalled(l, replaced) == Answered(l, FALSE)

\* A call after the first that succeeded: the runtime is gone, it is still the same, or it
\* is another one.
Renew ==
  LET replaced == [lua EXCEPT !.environment = lua.seen, !.instance = lua.read]
      gone == lua.seen = 0 \/ lua.read = 0
      same == lua.seen = lua.environment /\ lua.read = lua.instance
  IN /\ lua.at = "read" /\ lua.registered
     /\ \/ NoFault /\ gone /\ lua' = Answered(lua, FALSE)
        \/ NoFault /\ ~gone /\ same /\ lua' = Answered(lua, TRUE)
        \/ NoFault /\ ~gone /\ ~same /\ lua' = Answered(Installed(replaced), TRUE)
        \/ Fault /\ lua' = IF gone \/ same THEN Answered(lua, FALSE) ELSE NotInstalled(lua, replaced)
     /\ UNCHANGED <<game, requests>>

\* The runtime is kept as it is, a loader is made and the class loaded from it, whose
\* native method is registered unless one has been.
Loaded(l) ==
  [l EXCEPT !.environment = l.seen, !.instance = l.read, !.loads = @ + 1, !.class = l.loads + 1,
            !.linked = IF @ = 0 THEN l.loads + 1 ELSE @, !.retried = l.linked # 0]

\* The first call, and each until one succeeds: the file or the class cannot be had, the
\* method cannot be registered, or PZSA cannot be put there.  (That a table is asked of a
\* platform that is null, which JNI leaves undefined, counts as the last.)
Register ==
  LET l == Loaded(lua) IN
  /\ lua.at = "read" /\ ~lua.registered
  /\ \/ /\ NoFault
        /\ lua' = IF l.environment = 0 \/ l.instance = 0 THEN Answered(l, FALSE)
                  ELSE Answered([Installed(l) EXCEPT !.registered = TRUE], TRUE)
     \/ /\ Fault
        /\ lua' \in {Answered(l, FALSE), Answered([l EXCEPT !.linked = lua.linked], FALSE),
                     Answered([lua EXCEPT !.environment = lua.seen, !.instance = lua.read], FALSE),
                     Answered([lua EXCEPT !.environment = lua.seen, !.instance = lua.read, !.class = 0], FALSE)}
  /\ requests < MaxRequests /\ requests' = requests + 1
  /\ UNCHANGED game

\* Faulty variant of MayLoad: whether there is a class to ask is enough.
MayLoadEarly == lua.class # 0

\* Another class is only loaded when EnsureLuaUiApi has just answered.
MayLoad == lua.answer

\* LoadEmbeddedJavaClass
LoadEmbedded ==
  /\ lua.at = "rest" /\ MayLoad
  /\ lua' = [lua EXCEPT !.helpers = @ \cup {lua.class}]
  /\ lua' # lua
  /\ UNCHANGED <<game, bounds>>

Next ==
  \/ NewPlatform \/ NewEnvironment
  \/ ReadOne \/ ReadOther \/ Renew \/ Register \/ LoadEmbedded

Spec == Init /\ [][Next]_vars

-----------------------------------------------------------------------------
(* Properties.                                                             *)

\* Whenever the answer is that the API is there, it is: in the environment that the game
\* had when it was asked, also after a renewal that failed halfway.
NamespaceIsThere ==
  /\ lua.registered => lua.class # 0 /\ lua.spaces[lua.environment] = lua.class
  /\ lua.at = "rest" /\ lua.answer => lua.registered /\ lua.environment = lua.seen /\ lua.instance = lua.read

\* Its functions reach Dispatch in every environment, those that scripts of an earlier
\* world still hold as well; not where the first attempt came that far and failed, since a
\* later one has another class.
FunctionsReachDispatch ==
  ~lua.retried => \A e \in Objects : lua.spaces[e] # 0 => lua.spaces[e] = lua.linked

\* All classes of ours come from one loader, and share what they keep in static fields.
ClassesShareALoader == Cardinality(lua.helpers) <= 1
=============================================================================
