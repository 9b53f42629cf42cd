------------------------------- MODULE Startup -------------------------------
(***************************************************************************)
(* trainer/src/runtime: how copies of the trainer that are injected into   *)
(* games become active (overlay_runtime.cpp), and how all of them share    *)
(* the cache of the embedded JARs (lua_bridge_resource.cpp).               *)
(*                                                                         *)
(* Every copy has its globals; the copies in one process share its marker, *)
(* and its number in the name of the temporary file.  A copy extracts the  *)
(* JAR on its bootstrap thread and, once hooked, on the render thread      *)
(* whenever a bridge needs it.  A process may end at any moment.           *)
(***************************************************************************)
EXTENDS Integers, FiniteSets, TLAPS

CONSTANTS
  Processes,  \* process numbers; Windows uses them again
  Copies,     \* injected copies of the library
  Home,       \* Home[c]: the process c is injected into
  NoCopy,     \* nobody holds the marker
  MaxExits    \* bound: processes that end

\* An assignment for model checking: every process is the home of some copy.
Spread == CHOOSE home \in [Copies -> Processes] : {home[c] : c \in Copies} = Processes

ASSUME HomeAssumption == Home \in [Copies -> Processes] /\ NoCopy \notin Copies

VARIABLES
  marker,  \* marker[p]: the copy that holds p's named mutex, g_instance_mutex
  at,      \* at[c]: the step of c's bootstrap or render thread that comes next
  hooked,  \* the copies whose hook of SwapBuffers is enabled
  jar,     \* the copies whose last extraction answered a path
  temp,    \* temp[p]: p's temporary file
  target,  \* the JAR in the cache
  exits    \* counter for the bound

vars == <<marker, at, hooked, jar, temp, target, exits>>

Extracting == {"check", "open", "write", "verify", "move"}
Stages == {"outside", "marker", "hook", "frame", "ended"} \cup Extracting

TypeOK ==
  /\ marker \in [Processes -> Copies \cup {NoCopy}]
  /\ at \in [Copies -> Stages]
  /\ hooked \in SUBSET Copies
  /\ jar \in SUBSET Copies
  /\ temp \in [Processes -> {"absent", "torn", "whole"}]
  /\ target \in {"absent", "damaged", "whole"}
  /\ exits \in Nat

Init ==
  /\ marker = [p \in Processes |-> NoCopy]
  /\ at = [c \in Copies |-> "outside"]
  /\ hooked = {}
  /\ jar = {}
  /\ temp = [p \in Processes |-> "absent"]
  /\ target \in {"absent", "damaged", "whole"}
  /\ exits = 0

GoTo(c, stage) == at' = [at EXCEPT ![c] = stage]

-----------------------------------------------------------------------------
(* BootstrapThread.                                                        *)

\* DllMain calls Start, which creates the thread.
Start(c) ==
  /\ at[c] = "outside"
  /\ GoTo(c, "marker")
  /\ UNCHANGED <<marker, hooked, jar, temp, target, exits>>

\* Faulty variant of AcquireInstanceMarker: a mutex that exists is as good as a new one.
AcquireAnyMarker(c) ==
  /\ at[c] = "marker"
  /\ marker' = [marker EXCEPT ![Home[c]] = c]
  /\ GoTo(c, "check")
  /\ UNCHANGED <<hooked, jar, temp, target, exits>>

\* The thread ends here when the mutex exists already or cannot be created.
AcquireInstanceMarker(c) ==
  /\ at[c] = "marker"
  /\ \/ /\ marker[Home[c]] = NoCopy
        /\ marker' = [marker EXCEPT ![Home[c]] = c]
        /\ GoTo(c, "check")
     \/ UNCHANGED marker /\ GoTo(c, "ended")
  /\ UNCHANGED <<hooked, jar, temp, target, exits>>

\* Faulty variant of InstallHook: the marker is released whenever the thread ends.
InstallHookAndRelease(c) ==
  /\ at[c] = "hook"
  /\ marker' = [marker EXCEPT ![Home[c]] = NoCopy]
  /\ \/ hooked' = hooked \cup {c} /\ GoTo(c, "frame")
     \/ UNCHANGED hooked /\ GoTo(c, "ended")
  /\ UNCHANGED <<jar, temp, target, exits>>

\* Faulty variant of InstallHook: the marker is not released when the hook fails.
InstallHookOrKeepMarker(c) ==
  /\ at[c] = "hook"
  /\ \/ hooked' = hooked \cup {c} /\ GoTo(c, "frame")
     \/ UNCHANGED hooked /\ GoTo(c, "ended")
  /\ UNCHANGED <<marker, jar, temp, target, exits>>

\* SwapBuffers is resolved, the hook is created and enabled; whichever of these
\* fails, ReleaseInstanceMarker follows.
InstallHook(c) ==
  /\ at[c] = "hook"
  /\ \/ hooked' = hooked \cup {c} /\ GoTo(c, "frame") /\ UNCHANGED marker
     \/ /\ marker' = [marker EXCEPT ![Home[c]] = NoCopy]
        /\ GoTo(c, "ended")
        /\ UNCHANGED hooked
  /\ UNCHANGED <<jar, temp, target, exits>>

-----------------------------------------------------------------------------
(* EnsureBridgeJar.                                                        *)

\* The answer, a path or nothing.  No JAR is no reason not to install the hook.
Answer(c, found) ==
  /\ jar' = IF found THEN jar \cup {c} ELSE jar \ {c}
  /\ GoTo(c, IF c \in hooked THEN "frame" ELSE "hook")

\* A bridge asks for the JAR during a frame.
EnsureAgain(c) ==
  /\ at[c] = "frame"
  /\ GoTo(c, "check")
  /\ UNCHANGED <<marker, hooked, jar, temp, target, exits>>

\* Resource, directory and hash can fail; a cached JAR with the right hash will do,
\* and one that is different or cannot be read is written anew.
Check(c) ==
  /\ at[c] = "check"
  /\ \/ Answer(c, FALSE)
     \/ target = "whole" /\ Answer(c, TRUE)
     \/ GoTo(c, "open") /\ UNCHANGED jar
  /\ UNCHANGED <<marker, hooked, temp, target, exits>>

\* Opening truncates the file.
OpenTemporary(c) ==
  /\ at[c] = "open"
  /\ \/ Answer(c, FALSE) /\ UNCHANGED temp
     \/ /\ temp' = [temp EXCEPT ![Home[c]] = "torn"]
        /\ GoTo(c, "write")
        /\ UNCHANGED jar
  /\ UNCHANGED <<marker, hooked, target, exits>>

\* The file is written and closed.  What fails while it is closed is not noticed.
WriteTemporary(c) ==
  /\ at[c] = "write"
  /\ \/ /\ temp' = [temp EXCEPT ![Home[c]] = "absent"]
        /\ Answer(c, FALSE)
     \/ /\ \E content \in {"torn", "whole"} :
             temp' = [temp EXCEPT ![Home[c]] = content]
        /\ GoTo(c, "verify")
        /\ UNCHANGED jar
  /\ UNCHANGED <<marker, hooked, target, exits>>

\* Faulty variant of Verify: the file that was written is taken on trust.
VerifyNothing(c) ==
  /\ at[c] = "verify"
  /\ GoTo(c, "move")
  /\ UNCHANGED <<marker, hooked, jar, temp, target, exits>>

\* The hash of what was written; a file that does not match is removed.
Verify(c) ==
  /\ at[c] = "verify"
  /\ \/ /\ temp[Home[c]] = "whole"
        /\ GoTo(c, "move")
        /\ UNCHANGED <<jar, temp>>
     \/ /\ Answer(c, FALSE)
        /\ temp' = [temp EXCEPT ![Home[c]] = "absent"]
  /\ UNCHANGED <<marker, hooked, target, exits>>

\* Faulty variant of Move: a JAR that cannot be replaced is deleted first.
DeleteAndMove(c) ==
  /\ at[c] = "move"
  /\ \/ target' = "absent" /\ GoTo(c, "move") /\ UNCHANGED <<jar, temp>>
     \/ /\ target' = "whole" /\ Answer(c, TRUE)
        /\ temp' = [temp EXCEPT ![Home[c]] = "absent"]
  /\ UNCHANGED <<marker, hooked, exits>>

\* MoveFileExW replaces the JAR.  It fails, for instance, while another game has the
\* JAR loaded; then that JAR will do if its hash is right.
Move(c) ==
  /\ at[c] = "move"
  /\ \/ target' = (IF temp[Home[c]] = "whole" THEN "whole" ELSE "damaged")
        /\ Answer(c, TRUE)
     \/ UNCHANGED target /\ Answer(c, FALSE)
     \/ UNCHANGED target /\ target = "whole" /\ Answer(c, TRUE)
  /\ temp' = [temp EXCEPT ![Home[c]] = "absent"]
  /\ UNCHANGED <<marker, hooked, exits>>

-----------------------------------------------------------------------------
\* The game ends or crashes: its handles are closed, its files stay.  The next game
\* may get the same number.
Exit(p) ==
  /\ exits < MaxExits
  /\ exits' = exits + 1
  /\ marker' = [marker EXCEPT ![p] = NoCopy]
  /\ at' = [c \in Copies |-> IF Home[c] = p THEN "outside" ELSE at[c]]
  /\ hooked' = {c \in hooked : Home[c] # p}
  /\ jar' = {c \in jar : Home[c] # p}
  /\ UNCHANGED <<temp, target>>

Bootstrap(c) ==
  \/ AcquireInstanceMarker(c) \/ InstallHook(c)
  \/ Check(c) \/ OpenTemporary(c) \/ WriteTemporary(c) \/ Verify(c) \/ Move(c)

Next ==
  \/ \E c \in Copies : Start(c) \/ Bootstrap(c) \/ EnsureAgain(c)
  \/ \E p \in Processes : Exit(p)

Spec == Init /\ [][Next]_vars

\* A thread that runs goes on; nobody has to inject or to ask for the JAR.
FairSpec == Spec /\ \A c \in Copies : WF_vars(Bootstrap(c))

-----------------------------------------------------------------------------
(* Properties.                                                             *)

\* Of the copies in one process at most one is active, whatever is injected when and
\* whichever bootstrap fails: two hooks would run two menus and two sets of bridges.
OneInstancePerProcess ==
  \A c, d \in hooked : Home[c] = Home[d] => c = d

\* A path that was answered is that of a whole JAR, although writes fail unnoticed,
\* several games write at once and a crash leaves half a temporary file.
AnsweredJarsAreWhole == jar # {} => target = "whole"

\* No two copies use one temporary file at a time.
TemporaryFilesAreExclusive ==
  \A c, d \in Copies :
    at[c] \in Extracting /\ at[d] \in Extracting /\ Home[c] = Home[d] => c = d

\* A whole JAR stays whole: other games may have it loaded.
WholeJarStays == [][target = "whole" => target' = "whole"]_vars

\* A bootstrap ends with an active copy or gives the marker back, so that the trainer
\* can be injected again.
MarkersAreUsedOrReturned ==
  \A c \in Copies :
    (marker[Home[c]] = c /\ c \notin hooked) ~> (c \in hooked \/ marker[Home[c]] # c)

-----------------------------------------------------------------------------
(***************************************************************************)
(* Startup for any number of games and injected copies.  All rests on the  *)
(* marker: a copy holds it from its extraction on for as long as it runs,  *)
(* so that what the copies of one process share has one user at a time.    *)
(***************************************************************************)

Active == {"hook", "frame"} \cup Extracting

\* Copies that run hold the marker, hooked ones are drawing or extracting, and a
\* temporary file about to be moved is whole.
IInv ==
  /\ TypeOK
  /\ \A c \in Copies : at[c] \in Active => marker[Home[c]] = c
  /\ \A c \in hooked : at[c] \in {"frame"} \cup Extracting
  /\ \A c \in Copies : at[c] = "move" => temp[Home[c]] = "whole"
  /\ AnsweredJarsAreWhole

LEMMA Initially == Init => IInv
  BY HomeAssumption
  DEF Init, IInv, TypeOK, Stages, Extracting, Active, AnsweredJarsAreWhole

\* One step of one copy keeps what is said of the others: the marker that the step
\* changes is nobody else's, and so is the temporary file.
LEMMA CopyStep ==
  ASSUME IInv, NEW c \in Copies,
         at' \in [Copies -> Stages],
         \A d \in Copies \ {c} : at'[d] = at[d],
         marker' \in [Processes -> Copies \cup {NoCopy}],
         \A p \in Processes \ {Home[c]} : marker'[p] = marker[p],
         marker[Home[c]] \in {c, NoCopy} \/ marker' = marker,
         at'[c] \in Active => marker'[Home[c]] = c,
         hooked' \in SUBSET Copies, hooked' \subseteq hooked \cup {c},
         c \in hooked' => at'[c] \in {"frame"} \cup Extracting,
         temp' \in [Processes -> {"absent", "torn", "whole"}],
         \A p \in Processes \ {Home[c]} : temp'[p] = temp[p],
         marker[Home[c]] = c \/ temp' = temp,
         at'[c] = "move" => temp'[Home[c]] = "whole",
         target' \in {"absent", "damaged", "whole"},
         target = "whole" => target' = "whole",
         jar' \subseteq jar \cup {c},
         c \in jar' \ jar => target' = "whole",
         exits' \in Nat
  PROVE  IInv'
  <1>1. TypeOK'
    BY DEF IInv, TypeOK
  <1>2. ASSUME NEW d \in Copies, d # c, at'[d] \in Active
        PROVE  marker'[Home[d]] = d /\ (Home[d] = Home[c] => marker' = marker /\ temp' = temp)
    <2>1. marker[Home[d]] = d /\ Home[d] \in Processes /\ NoCopy \notin Copies
      BY <1>2, HomeAssumption DEF IInv
    <2> QED
      BY <1>2, <2>1
  <1>3. \A d \in Copies : at'[d] \in Active => marker'[Home[d]] = d
    BY <1>2
  <1>4. \A d \in hooked' : at'[d] \in {"frame"} \cup Extracting
    BY DEF IInv
  <1>5. \A d \in Copies : at'[d] = "move" => temp'[Home[d]] = "whole"
    BY <1>2, HomeAssumption DEF IInv, Active, Extracting
  <1>6. AnsweredJarsAreWhole'
    BY DEF IInv, AnsweredJarsAreWhole
  <1> QED
    BY <1>1, <1>3, <1>4, <1>5, <1>6 DEF IInv

LEMMA Inductive == IInv /\ [Next]_vars => IInv'
  <1> SUFFICES ASSUME IInv, [Next]_vars PROVE IInv'
    OBVIOUS
  <1> USE DEF Stages, Extracting, Active
  <1>0. TypeOK /\ AnsweredJarsAreWhole
    BY DEF IInv
  <1>1. ASSUME NEW c \in Copies, Start(c) PROVE IInv'
    <2>1. c \notin hooked
      BY <1>1 DEF Start, IInv
    <2> QED
      BY <1>0, <1>1, <2>1, CopyStep DEF Start, GoTo, TypeOK
  <1>2. ASSUME NEW c \in Copies, AcquireInstanceMarker(c) PROVE IInv'
    <2>1. c \notin hooked /\ Home[c] \in Processes
      BY <1>2, HomeAssumption DEF AcquireInstanceMarker, IInv
    <2> QED
      BY <1>0, <1>2, <2>1, CopyStep DEF AcquireInstanceMarker, GoTo, TypeOK
  <1>3. ASSUME NEW c \in Copies, InstallHook(c) PROVE IInv'
    <2>1. c \notin hooked /\ Home[c] \in Processes /\ marker[Home[c]] = c
      BY <1>3, HomeAssumption DEF InstallHook, IInv
    <2> QED
      BY <1>0, <1>3, <2>1, CopyStep DEF InstallHook, GoTo, TypeOK
  <1>4. ASSUME NEW c \in Copies, EnsureAgain(c) PROVE IInv'
    <2>1. marker[Home[c]] = c
      BY <1>4 DEF EnsureAgain, IInv
    <2> QED
      BY <1>0, <1>4, <2>1, CopyStep DEF EnsureAgain, GoTo, TypeOK
  <1>5. ASSUME NEW c \in Copies,
               Check(c) \/ OpenTemporary(c) \/ WriteTemporary(c) \/ Verify(c) \/ Move(c)
        PROVE  IInv'
    <2>1. /\ marker[Home[c]] = c /\ Home[c] \in Processes
          /\ at[c] = "move" => temp[Home[c]] = "whole"
          /\ UNCHANGED <<marker, hooked, exits>>
      BY <1>5, HomeAssumption
      DEF Check, OpenTemporary, WriteTemporary, Verify, Move, IInv
    <2>2. ASSUME NEW found \in BOOLEAN, Answer(c, found)
          PROVE  /\ at' \in [Copies -> Stages] /\ at'[c] \in {"frame", "hook"}
                 /\ c \in hooked => at'[c] = "frame"
                 /\ \A d \in Copies \ {c} : at'[d] = at[d]
                 /\ jar' \subseteq jar \cup {c} /\ (c \in jar' => found)
      BY <1>0, <2>2 DEF Answer, GoTo, TypeOK
    <2>3. ASSUME NEW stage \in Extracting, GoTo(c, stage)
          PROVE  /\ at' \in [Copies -> Stages] /\ at'[c] = stage
                 /\ \A d \in Copies \ {c} : at'[d] = at[d]
      BY <1>0, <2>3 DEF GoTo, TypeOK
    <2>4. CASE Check(c)
      BY <1>0, <2>1, <2>2, <2>3, <2>4, CopyStep DEF Check, TypeOK
    <2>5. CASE OpenTemporary(c)
      BY <1>0, <2>1, <2>2, <2>3, <2>5, CopyStep DEF OpenTemporary, TypeOK
    <2>6. CASE WriteTemporary(c)
      <3>1. /\ temp' \in [Processes -> {"absent", "torn", "whole"}] /\ UNCHANGED target
            /\ \A p \in Processes \ {Home[c]} : temp'[p] = temp[p]
        BY <1>0, <2>1, <2>6 DEF WriteTemporary, TypeOK
      <3>2. CASE Answer(c, FALSE)
        BY <1>0, <2>1, <2>2, <3>1, <3>2, CopyStep DEF TypeOK
      <3>3. CASE GoTo(c, "verify") /\ UNCHANGED jar
        BY <1>0, <2>1, <2>3, <3>1, <3>3, CopyStep DEF TypeOK
      <3> QED
        BY <2>6, <3>2, <3>3 DEF WriteTemporary
    <2>7. CASE Verify(c)
      <3>1. /\ temp' \in [Processes -> {"absent", "torn", "whole"}] /\ UNCHANGED target
            /\ \A p \in Processes \ {Home[c]} : temp'[p] = temp[p]
        BY <1>0, <2>1, <2>7 DEF Verify, TypeOK
      <3>2. CASE Answer(c, FALSE)
        BY <1>0, <2>1, <2>2, <3>1, <3>2, CopyStep DEF TypeOK
      <3>3. CASE temp[Home[c]] = "whole" /\ GoTo(c, "move") /\ UNCHANGED <<jar, temp>>
        BY <1>0, <2>1, <2>3, <3>1, <3>3, CopyStep DEF TypeOK
      <3> QED
        BY <2>7, <3>2, <3>3 DEF Verify
    <2>8. CASE Move(c)
      BY <1>0, <2>1, <2>2, <2>3, <2>8, CopyStep DEF Move, TypeOK
    <2> QED
      BY <1>5, <2>4, <2>5, <2>6, <2>7, <2>8
  <1>6. ASSUME NEW p \in Processes, Exit(p) PROVE IInv'
    <2>1. TypeOK'
      BY <1>0, <1>6 DEF Exit, TypeOK
    <2>2. \A c \in Copies : at'[c] # "outside" => Home[c] # p /\ at'[c] = at[c]
      BY <1>6 DEF Exit
    <2> QED
      BY <1>0, <1>6, <2>1, <2>2, HomeAssumption
      DEF Exit, IInv, TypeOK, AnsweredJarsAreWhole
  <1>7. CASE UNCHANGED vars
    BY <1>7 DEF vars, IInv, TypeOK, AnsweredJarsAreWhole
  <1> QED
    BY <1>1, <1>2, <1>3, <1>4, <1>5, <1>6, <1>7 DEF Next, Bootstrap

LEMMA Invariance == Spec => []IInv
  BY Initially, Inductive, PTL DEF Spec

-----------------------------------------------------------------------------
(* The theorems.                                                           *)

\* Every reachable state has the types of the markers, threads and files.
THEOREM TypeCorrect == Spec => []TypeOK
  <1>1. IInv => TypeOK
    BY DEF IInv
  <1> QED
    BY <1>1, Invariance, PTL

\* AcquireInstanceMarker and the error paths of BootstrapThread keep all copies of a
\* process but one from hooking SwapBuffers.
THEOREM OneInstance == Spec => []OneInstancePerProcess
  <1>1. IInv => OneInstancePerProcess
    BY DEF IInv, TypeOK, OneInstancePerProcess, Active, Extracting
  <1> QED
    BY <1>1, Invariance, PTL

\* No two extractions use the temporary file of one process, which is named after the
\* process only.
THEOREM ExclusiveTemporaryFiles == Spec => []TemporaryFilesAreExclusive
  <1>1. IInv => TemporaryFilesAreExclusive
    BY DEF IInv, TemporaryFilesAreExclusive, Active, Extracting
  <1> QED
    BY <1>1, Invariance, PTL

\* Whatever writes fail unnoticed and whichever games crash, EnsureBridgeJar answers
\* the path of a whole JAR.
THEOREM WholeJars == Spec => []AnsweredJarsAreWhole
  <1>1. IInv => AnsweredJarsAreWhole
    BY DEF IInv
  <1> QED
    BY <1>1, Invariance, PTL

\* And no copy of any process damages a whole JAR, which a game may have loaded.
THEOREM JarsStayWhole == Spec => WholeJarStays
  <1>1. ASSUME IInv, [Next]_vars, target = "whole" PROVE target' = "whole"
    <2>1. \A c \in Copies : at[c] = "move" => temp[Home[c]] = "whole"
      BY <1>1 DEF IInv
    <2> QED
      BY <1>1, <2>1
      DEF Next, Bootstrap, Start, EnsureAgain, AcquireInstanceMarker, InstallHook, Check,
          OpenTemporary, WriteTemporary, Verify, Move, Exit, vars
  <1>2. IInv /\ [Next]_vars => [target = "whole" => target' = "whole"]_vars
    BY <1>1
  <1> QED
    BY <1>2, Invariance, PTL DEF Spec, WholeJarStays
=============================================================================
