-------------------------- MODULE ExtensionCommands --------------------------
(***************************************************************************)
(* trainer/src/bridge/extension_bridge.cpp on the render thread and        *)
(* trainer/src/java/pztrainer/extensions/ExtensionRuntime.java on the game *)
(* thread: the menu tells which tools it wants, ten times a second, and    *)
(* submits single commands; a run on the game thread takes the command,    *)
(* looks whether it is still in the session it was given in, and keeps the *)
(* tools up.  What is allowed is decided there (ExtensionAccess.java), and *)
(* the menu sees a copy of that decision.                                  *)
(***************************************************************************)
EXTENDS GameSession, Sequences

VARIABLE extension

vars == <<extension, game, bounds>>

\* One command of each kind of ExtensionAccess: one of the character creation, one that
\* needs a living character, one the server has to permit.
Keys == {"creator_name", "buckets", "flag:256"}
Commands == {"creator_name", "buckets"}

Links == 0 .. 2        \* GameClient.connection, 0 is null
Worlds == 0 .. 2 * Cardinality(Players)   \* LuaManager.env

NoCommand == [action |-> "none"]

\* world and link are the Lua environment and the connection, links those there have
\* been.  seen is the menu's copy of access, fresh says that it is at most two seconds
\* old.  inQueue are the runs that wait for the game thread; previous is the player the
\* tools are kept up for, held the players for whom they are.  done are the commands that
\* were carried out, each with the session and the access it was carried out in.
ExtensionTypeOK ==
  /\ extension.bound \in BOOLEAN /\ extension.fresh \in BOOLEAN /\ extension.queued \in BOOLEAN
  /\ extension.flag \in BOOLEAN /\ extension.told \in BOOLEAN /\ extension.permitted \in BOOLEAN
  /\ extension.world \in Worlds /\ extension.link \in Links /\ extension.links \in Links
  /\ extension.access \subseteq Keys /\ extension.seen \subseteq Keys
  /\ extension.inQueue \in 0 .. 1
  /\ extension.previous \in Players \cup {NoPlayer} /\ extension.previousLink \in Links
  /\ extension.held \subseteq Players
  /\ extension.pending.action \in Commands \cup {"none"}
  /\ \A i \in 1 .. Len(extension.done) : extension.done[i].command.action \in Commands

Init ==
  /\ GameInit
  /\ extension = [bound |-> FALSE, fresh |-> FALSE, queued |-> FALSE, flag |-> FALSE, told |-> FALSE,
                  permitted |-> FALSE, world |-> 0, link |-> 0, links |-> 0, access |-> {}, seen |-> {},
                  inQueue |-> 0, previous |-> NoPlayer, previousLink |-> 0, held |-> {},
                  pending |-> NoCommand, done |-> <<>>]

Session == <<player, extension.world, extension.link>>

-----------------------------------------------------------------------------
(* The game.                                                               *)

Linked(e) == [e EXCEPT !.link = e.links + 1, !.links = @ + 1]

Live ==
  /\ Play
  /\ LET e == IF player = NoPlayer \/ player' = NoPlayer
              THEN [extension EXCEPT !.world = @ + 1] ELSE extension
     IN  IF player = NoPlayer /\ session' = "multiplayer"
         THEN e.links < 2 /\ extension' = Linked(e)
         ELSE extension' = IF player' = NoPlayer THEN [e EXCEPT !.link = 0] ELSE e

\* The connection is lost, made anew, or the server changes the role.
Connection ==
  /\ player # NoPlayer /\ Online
  /\ \/ extension.link # 0 /\ extension' = [extension EXCEPT !.link = 0]
     \/ extension.link = 0 /\ extension.links < 2 /\ extension' = Linked(extension)
     \/ extension' = [extension EXCEPT !.permitted = ~@]
  /\ Request
  /\ UNCHANGED game

Connected == ~Online \/ extension.link # 0
Ready == Connected /\ player # NoPlayer

\* ExtensionAccess.State.reason: the keys without a reason against them.
Allowed ==
  {key \in Keys : \/ key = "creator_name"
                  \/ Ready /\ (key = "flag:256" /\ Online => extension.permitted)}

-----------------------------------------------------------------------------
(* The render thread.                                                      *)

SetFlag(on) ==
  /\ extension' = [extension EXCEPT !.flag = on]
  /\ Request
  /\ UNCHANGED game

Bind ==
  /\ ~extension.bound
  /\ extension' = [extension EXCEPT !.bound = TRUE]
  /\ UNCHANGED <<game, bounds>>

\* Faulty variant of Submitted: the mark stays when the game thread takes nothing.
SubmittedMarked(e, accepted) ==
  IF e.queued THEN e
  ELSE [e EXCEPT !.queued = TRUE, !.inQueue = IF accepted THEN @ + 1 ELSE @]

\* ExtensionRuntime.update: one run at a time; the game may refuse to take it.
Submitted(e, accepted) ==
  IF e.queued \/ ~accepted THEN e
  ELSE [e EXCEPT !.queued = TRUE, !.inQueue = @ + 1]

\* UpdateExtensionBridge: the flags are passed on and the decision is read back.
UpdateExtensionBridge ==
  /\ extension.bound
  /\ \E accepted \in BOOLEAN :
       /\ IF accepted THEN NoFault ELSE Fault
       /\ LET e == Submitted([extension EXCEPT !.told = extension.flag], accepted) IN
          extension' = [e EXCEPT !.seen = e.access, !.fresh = TRUE]
  /\ UNCHANGED <<game, requests>>

\* Two seconds without an update.
Ages ==
  /\ extension.fresh
  /\ extension' = [extension EXCEPT !.fresh = FALSE]
  /\ UNCHANGED <<game, bounds>>

\* ExtensionDisabledReason and ExtensionRuntime.command: there is room for one.
QueueExtensionCommand(action) ==
  /\ extension.bound /\ extension.fresh /\ action \in extension.seen
  /\ extension.pending = NoCommand
  /\ extension' = [extension EXCEPT !.pending = [action |-> action, id |-> requests, given |-> Session]]
  /\ Request
  /\ UNCHANGED game

-----------------------------------------------------------------------------
(* The game thread.                                                        *)

\* The tools are taken down when the character or the connection is another one.
MovedOn ==
  ~Ready \/ extension.previous # player \/ extension.previousLink # extension.link

\* Faulty variant of Settled: the tools of the character before stay up.
SettledOnly(e) ==
  [e EXCEPT !.previous = IF Ready THEN player ELSE NoPlayer, !.previousLink = extension.link]

Settled(e) ==
  IF MovedOn
  THEN [e EXCEPT !.held = {}, !.previous = IF Ready THEN player ELSE NoPlayer,
                 !.previousLink = extension.link]
  ELSE e

\* Faulty variant of Admits: only the character is compared.
AdmitsPlayer(command) == command.action \in Allowed /\ command.given[1] = player

Admits(command) == command.action \in Allowed /\ command.given = Session

Executed(e, command) ==
  [e EXCEPT !.done = Append(@, [command |-> command, ran |-> Session, allowed |-> Allowed])]

Maintained(e) ==
  IF ~Ready THEN e
  ELSE [e EXCEPT !.held = IF e.told /\ "flag:256" \in Allowed THEN {player} ELSE {}]

\* ExtensionRuntime.run: an error ends it early, and the mark is always taken back.
Run ==
  /\ extension.inQueue > 0
  /\ LET command == extension.pending
         begun == [extension EXCEPT !.inQueue = @ - 1, !.access = Allowed, !.pending = NoCommand]
         settled == Settled(begun)
         refused == command # NoCommand /\ ~Admits(command)
         after == IF command = NoCommand THEN settled ELSE Executed(settled, command)
         over(e) == [e EXCEPT !.queued = FALSE]
     IN  \/ NoFault /\ refused /\ extension' = over(settled)
         \/ NoFault /\ ~refused /\ extension' = over(Maintained(after))
         \/ Fault /\ MovedOn /\ extension' = over(begun)
         \/ Fault /\ ~refused /\ extension' \in {over(settled), over(after)}
  /\ UNCHANGED <<game, requests>>

Next ==
  \/ Live \/ Connection \/ Bind \/ UpdateExtensionBridge \/ Ages \/ Run
  \/ \E on \in BOOLEAN : SetFlag(on)
  \/ \E action \in Commands : QueueExtensionCommand(action)

Spec == Init /\ [][Next]_vars

-----------------------------------------------------------------------------
(* Properties.                                                             *)

\* A command is carried out once, in the session it was given in, and allowed there:
\* the character, the Lua environment and the connection may all have changed while it
\* waited.
CommandsKeepTheirSession ==
  \A i, j \in 1 .. Len(extension.done) :
    LET d == extension.done[i] IN
    /\ d.command.given = d.ran /\ d.command.action \in d.allowed
    /\ d.command.id = extension.done[j].command.id => i = j

\* The mark that keeps a second run out stands only while one is under way: otherwise
\* no tool would ever be taken down again.
MarkedRunsAreUnderWay == extension.queued <=> extension.inQueue = 1

\* The tools are up for the character they are kept up for, and for no one before.
ToolsHaveTheirPlayer == extension.held \subseteq {extension.previous}
=============================================================================
