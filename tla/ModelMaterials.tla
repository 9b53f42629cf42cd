--------------------------- MODULE ModelMaterials ---------------------------
(***************************************************************************)
(* trainer/src/features/visual/native_model_material.hpp and               *)
(* trainer/src/java/pztrainer/player/visual/ModelMaterial.java: programs   *)
(* of the game are rebuilt with another colour and kept, for each context, *)
(* under the number of the original.                                       *)
(*                                                                         *)
(* OpenGL gives the number of what is deleted to something new.  A shader  *)
(* keeps its number as long as a program it is attached to exists; the     *)
(* rebuilt program is kept with another one that does nothing but hold the *)
(* shaders of the original.                                                *)
(***************************************************************************)
EXTENDS GameSession

CONSTANTS
  Programs, Shaders,  \* numbers
  Windows,            \* contexts
  MaxTexts            \* bound: shaders that are made

VARIABLE material

vars == <<material, game, bounds>>

NoShader == "none"

\* A program that was rebuilt, or could not be: the shader it was made of, the text of the
\* shader at that time, and whether the shader is held.
Absent == [shader |-> NoShader, text |-> 0, built |-> FALSE, held |-> FALSE]

\* program is the shader of each program of the game in each window, text what each shader
\* was made of there, last the number of texts so far.  kept is programs and failures, and
\* ready that the functions of OpenGL were found.  For the properties: used is the text of
\* the program that was used last and of its original.
MaterialTypeOK ==
  /\ material.program \in [Windows -> [Programs -> Shaders \cup {NoShader}]]
  /\ material.text \in [Windows -> [Shaders -> 0 .. MaxTexts]]
  /\ material.last \in 0 .. MaxTexts /\ material.ready \in BOOLEAN
  /\ \A w \in Windows, p \in Programs :
       material.kept[w][p] = Absent \/ material.kept[w][p].shader \in Shaders

Init ==
  /\ GameInit
  /\ material = [program |-> [w \in Windows |-> [p \in Programs |-> NoShader]],
                 text |-> [w \in Windows |-> [s \in Shaders |-> 0]], last |-> 0,
                 kept |-> [w \in Windows |-> [p \in Programs |-> Absent]], ready |-> FALSE,
                 used |-> <<0, 0>>]

-----------------------------------------------------------------------------
(* The game makes and deletes its programs, each with a shader of its own. *)

Make(w, p, s) ==
  /\ material.program[w][p] = NoShader /\ material.text[w][s] = 0 /\ material.last < MaxTexts
  /\ material' = [material EXCEPT !.program[w][p] = s, !.text[w][s] = material.last + 1,
                                  !.last = @ + 1]
  /\ UNCHANGED <<game, bounds>>

Held(c, w, s) == \E p \in Programs : c.kept[w][p].held /\ c.kept[w][p].shader = s

\* The shaders of a window that no program has any more lose their number.
Freed(c, w) ==
  [c EXCEPT !.text[w] = [s \in Shaders |->
     IF Held(c, w, s) \/ \E p \in Programs : c.program[w][p] = s THEN @[s] ELSE 0]]

Delete(w, p) ==
  /\ material.program[w][p] # NoShader
  /\ material' = Freed([material EXCEPT !.program[w][p] = NoShader], w)
  /\ UNCHANGED <<game, bounds>>

-----------------------------------------------------------------------------
(* A frame paints with a material.                                         *)

Original(c, w, p) == c.program[w][p]

\* Faulty variant of Cached: a program is kept by its number alone.
CachedByNumber(c, w, p) == c.kept[w][p] # Absent

\* What is kept is of this program if it has the very shaders.
Cached(c, w, p) == c.kept[w][p] # Absent /\ c.kept[w][p].shader = Original(c, w, p)

\* What is kept of another program with the number is deleted, with what it held.
Discarded(c, w, p) == IF Cached(c, w, p) THEN c ELSE Freed([c EXCEPT !.kept[w][p] = Absent], w)

\* Faulty variant of Built: the shaders of the original are not held.
BuiltLoose(c, w, p) ==
  LET s == Original(c, w, p)
  IN  [c EXCEPT !.kept[w][p] = [shader |-> s, text |-> c.text[w][s], built |-> TRUE, held |-> FALSE]]

\* The shaders of the original are held as soon as the new program is linked.
Built(c, w, p) ==
  LET s == Original(c, w, p)
  IN  [c EXCEPT !.kept[w][p] = [shader |-> s, text |-> c.text[w][s], built |-> TRUE, held |-> TRUE]]

\* Where that fails, the failure is kept, and nothing is held: it may refuse a later program
\* that gets the numbers of this one and of its shaders.
Failed(c, w, p) ==
  LET s == Original(c, w, p)
  IN  [c EXCEPT !.kept[w][p] = [shader |-> s, text |-> c.text[w][s], built |-> FALSE, held |-> FALSE]]

Used(c, w, p) ==
  IF c.kept[w][p].built
  THEN [c EXCEPT !.used = <<c.kept[w][p].text, c.text[w][Original(c, w, p)]>>]
  ELSE c

\* Get, and use.
Get(w, p) ==
  /\ Original(material, w, p) # NoShader
  /\ LET own == Discarded([material EXCEPT !.ready = TRUE], w, p) IN
     \/ Cached(own, w, p) /\ NoFault /\ material' = Used(own, w, p)
     \/ ~Cached(own, w, p) /\ NoFault /\ material' = Used(Built(own, w, p), w, p)
     \/ ~Cached(own, w, p) /\ Fault /\ material' = Failed(own, w, p)
     \/ ~material.ready /\ Fault /\ material' = material
  /\ UNCHANGED <<game, requests>>

Next ==
  \E w \in Windows, p \in Programs :
    \/ Delete(w, p) \/ Get(w, p)
    \/ \E s \in Shaders : Make(w, p, s)

Spec == Init /\ [][Next]_vars

-----------------------------------------------------------------------------
(* Properties.                                                             *)

\* What is drawn with is always rebuilt from the program that the game draws with, however
\* often the numbers of programs and shaders were given to others meanwhile.
MaterialIsOfItsProgram == material.used[1] = material.used[2]
=============================================================================
