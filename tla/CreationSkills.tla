---------------------------- MODULE CreationSkills ----------------------------
(***************************************************************************)
(* trainer/src/java/pztrainer/extensions/CreationSkills.java and           *)
(* CharacterCreation.java with its Lua script: skills that a new character *)
(* is to begin with.  The function of the game that makes the player of a  *)
(* description is replaced by one that calls it and then adds the skills,  *)
(* until the screen, the description or the Lua environment is another one.*)
(* A mod may put a function of its own over either.                        *)
(***************************************************************************)
EXTENDS GameSession, Sequences, Functions

CONSTANTS Descriptions, NoDescription, MaxEnvironments, MaxMods

VARIABLE creation

vars == <<creation, game, bounds>>

Loads == 1 .. MaxEnvironments
Levels == 0 .. 2

\* What stands on the table of the screen: the functions that are called, outermost
\* first, those of mods, which are numbered, and ours, which know the description they are
\* for and its environment.  Beneath the last is the game's own.
Ours(d, e) == [by |-> "us", actor |-> d, env |-> e]
Mod(n) == [by |-> "mod", number |-> n]
NoFunction == Mod(0)

\* env is LuaManager.env, desc the description that is edited and open whether a screen
\* of the creation is visible; function is the table's, with mods functions of mods.
\* target is whether one is replaced, for whom, where, over which and by which.
\* compiled is the environment the script was compiled for; ran is the one it ran in
\* last, and the one there was.  asked is what the user asked for a description, and
\* effect the description and the environment that still has to have it.
CreationTypeOK ==
  /\ creation.env \in Loads /\ creation.compiled \in {0} \cup Loads
  /\ creation.ran \in ({0} \cup Loads) \X ({0} \cup Loads)
  /\ creation.desc \in Descriptions \cup {NoDescription} /\ creation.open \in BOOLEAN
  /\ creation.target \in BOOLEAN /\ creation.descriptor \in Descriptions \cup {NoDescription}
  /\ creation.environment \in {0} \cup Loads
  /\ creation.level \in Levels /\ creation.asked \in [Descriptions -> Levels]
  /\ creation.mods \in 0 .. MaxMods

NoEffect == <<NoDescription, 0>>

Init ==
  /\ GameInit
  /\ creation = [env |-> 1, desc |-> NoDescription, open |-> FALSE, function |-> <<>>, mods |-> 0,
                 target |-> FALSE, descriptor |-> NoDescription, environment |-> 0,
                 under |-> <<>>, callback |-> NoFunction, level |-> 0, compiled |-> 0, ran |-> <<0, 0>>,
                 asked |-> [d \in Descriptions |-> 0], effect |-> NoEffect]

-----------------------------------------------------------------------------
(* The game.                                                               *)

\* A world is entered or left: all Lua is loaded anew, and no screen is open.
Live ==
  /\ Play
  /\ creation' = [creation EXCEPT !.open = FALSE, !.desc = NoDescription, !.effect = NoEffect]

Reload ==
  /\ player = NoPlayer /\ creation.env < MaxEnvironments
  /\ creation' = [creation EXCEPT !.env = @ + 1, !.function = <<>>, !.mods = 0,
                                  !.desc = NoDescription, !.open = FALSE, !.effect = NoEffect]
  /\ UNCHANGED <<game, bounds>>

\* The creation of a character is opened, or begun anew.
Open(d) ==
  /\ player = NoPlayer /\ creation.desc # d
  /\ creation' = [creation EXCEPT !.open = TRUE, !.desc = d, !.effect = NoEffect]
  /\ UNCHANGED <<game, bounds>>

Close ==
  /\ creation.open
  /\ creation' = [creation EXCEPT !.open = FALSE]
  /\ UNCHANGED <<game, bounds>>

Wrap ==
  /\ creation.open /\ creation.mods < MaxMods
  /\ creation' = [creation EXCEPT !.function = <<Mod(creation.mods + 1)>> \o @, !.mods = @ + 1]
  /\ UNCHANGED <<game, bounds>>

\* Faulty variant of Adds: a function of ours adds whatever is asked for at the time.
AddsAlways(c, f) == f.by = "us"

\* The callback, when the game makes the player of a description: it adds the skills if they are still those of its description.
Adds(c, f) == f.by = "us" /\ c.descriptor = f.actor /\ c.environment = c.env

-----------------------------------------------------------------------------
(* The game thread.                                                        *)

\* Faulty variant of Cleared: what stands there is taken down, whoever put it there.
ClearedAll(c) ==
  [c EXCEPT !.function = IF c.target THEN c.under ELSE @, !.target = FALSE,
            !.descriptor = NoDescription, !.environment = 0, !.under = <<>>, !.callback = NoFunction, !.level = 0]

\* clear: what was there is put back if ours is still the outermost.
Cleared(c) ==
  [c EXCEPT !.function = IF c.target /\ c.env = c.environment /\ @ # <<>> /\ Head(@) = c.callback
                         THEN c.under ELSE @,
            !.target = FALSE, !.descriptor = NoDescription, !.environment = 0,
            !.under = <<>>, !.callback = NoFunction, !.level = 0]

\* maintain, with every run.
Maintained(c) ==
  IF c.target /\ (player # NoPlayer \/ c.environment # c.env \/ c.desc # c.descriptor)
  THEN Cleared(c) ELSE c

Run ==
  /\ creation' = Maintained(creation)
  /\ creation' # creation
  /\ UNCHANGED <<game, bounds>>

\* The script, compiled for the environment of the moment; it refuses to run unless a
\* screen of the creation is visible.
Compiled(c) == [c EXCEPT !.compiled = c.env, !.ran = <<c.env, c.env>>]

\* set.
Set(c, level) ==
  LET own == IF c.target /\ c.descriptor # c.desc THEN Cleared(c) ELSE c
      put == IF own.target THEN own
             ELSE [own EXCEPT !.target = TRUE, !.descriptor = c.desc, !.environment = c.env,
                              !.under = own.function, !.callback = Ours(c.desc, c.env),
                              !.function = <<Ours(c.desc, c.env)>> \o @]
  IN  [put EXCEPT !.level = level, !.asked = [@ EXCEPT ![c.desc] = level], !.effect = <<c.desc, c.env>>]

Skill(level) ==
  /\ LET c == Maintained(creation) IN
     \/ NoFault /\ creation.open /\ creation' = Set(Compiled(c), level)
     \/ NoFault /\ ~creation.open /\ creation' = Compiled(c)
     \/ Fault /\ creation' \in {c, [c EXCEPT !.compiled = creation.env]}
  /\ requests < MaxRequests /\ requests' = requests + 1
  /\ UNCHANGED game

Clear ==
  /\ creation.open
  /\ creation' = [Cleared(Compiled(Maintained(creation))) EXCEPT !.asked = [@ EXCEPT ![creation.desc] = 0],
                                                        !.effect = NoEffect]
  /\ Request
  /\ UNCHANGED game

Next ==
  \/ Live \/ Reload \/ Close \/ Wrap \/ Run \/ Clear
  \/ \E d \in Descriptions : Open(d)
  \/ \E level \in 1 .. 2 : Skill(level)

Spec == Init /\ [][Next]_vars

-----------------------------------------------------------------------------
(* Properties.                                                             *)

\* Whenever the game makes a player, it begins with nothing but what was asked for its
\* description, even where a function of ours for another one is still called by that of
\* a mod; and what was asked last is given to it.
SkillsAreTheCharacters ==
  LET adding == {f \in Range(creation.function) : Adds(creation, f)} IN
  /\ \A f \in adding : creation.level # 0 => creation.level = creation.asked[f.actor]
  /\ creation.effect = <<creation.desc, creation.env>> /\ creation.effect # NoEffect =>
       \E f \in adding : f.actor = creation.desc

\* What mods put there stays, and nothing of ours is left on top when it is over.
ModsStay ==
  /\ \A n \in 1 .. creation.mods : \E i \in DOMAIN creation.function : creation.function[i] = Mod(n)
  /\ ~creation.target /\ creation.function # <<>> => Head(creation.function).by = "mod"

\* The script runs in the environment of the moment, also after all Lua was reloaded.
ScriptIsOfTheEnvironment == creation.ran[1] = creation.ran[2]
=============================================================================
