------------------------------ MODULE HandTools ------------------------------
(***************************************************************************)
(* trainer/src/java/pztrainer/extensions/InventoryTools.java: the weapon in*)
(* the hand hits harder and closer while a tool is wanted, what the        *)
(* player wears is mended, and both are undone when the weapon leaves the  *)
(* hand, the character or the connection changes, or the tool is put down. *)
(***************************************************************************)
EXTENDS GameSession

CONSTANTS Weapons, NoWeapon, Clothes

VARIABLE hand

vars == <<hand, game, bounds>>

\* The two groups of values of a weapon: critical hits, and its minimum range.
Groups == {"critical", "minimum"}
\* The value a weapon was made with, which stands for it here, the one it has since the
\* user altered it, and ours.
Values == Weapons \cup {"altered", "ours"}
NoValue == "none"

\* held is the weapon in the hand, value what each weapon has.  weapon is the one that is
\* looked after, applied what was changed of it and original what it had before.  told are
\* the clothes the server knows as mended, lost those the telling failed for; altered
\* what the user has altered while it was not ours.
HandTypeOK ==
  /\ hand.flags \subseteq Groups \cup {"clothes"}
  /\ hand.held \in Weapons \cup {NoWeapon} /\ hand.weapon \in Weapons \cup {NoWeapon}
  /\ hand.value \in [Weapons -> [Groups -> Values]]
  /\ hand.applied \subseteq Groups /\ hand.original \in [Groups -> Values \cup {NoValue}]
  /\ hand.mended \subseteq Clothes /\ hand.told \subseteq Clothes /\ hand.lost \subseteq Clothes
  /\ hand.altered \subseteq Weapons \X Groups /\ hand.previous \in Players \cup {NoPlayer}

Init ==
  /\ GameInit
  /\ hand = [flags |-> {}, held |-> NoWeapon, weapon |-> NoWeapon,
             value |-> [w \in Weapons |-> [g \in Groups |-> w]],
             applied |-> {}, original |-> [g \in Groups |-> NoValue],
             mended |-> {}, told |-> {}, lost |-> {}, altered |-> {}, previous |-> NoPlayer]

-----------------------------------------------------------------------------
(* The game and the user.                                                  *)

Live ==
  /\ Play
  /\ hand' = [hand EXCEPT !.held = NoWeapon]

Take(w) ==
  /\ player # NoPlayer /\ hand.held # w
  /\ hand' = [hand EXCEPT !.held = w]
  /\ UNCHANGED <<game, bounds>>

\* A part is put on the weapon: the game writes the value of its own.
Alter(w, g) ==
  /\ hand.held = w /\ hand.value[w][g] # "altered"
  /\ hand' = [hand EXCEPT !.value[w][g] = "altered",
                          !.altered = IF hand.value[w][g] = "ours" THEN @ ELSE @ \cup {<<w, g>>}]
  /\ UNCHANGED <<game, bounds>>

Tear(c) ==
  /\ player # NoPlayer /\ c \in hand.mended
  /\ hand' = [hand EXCEPT !.mended = @ \ {c}, !.told = @ \ {c}, !.lost = @ \ {c}]
  /\ UNCHANGED <<game, bounds>>

Switch(f) ==
  /\ hand' = [hand EXCEPT !.flags = IF f \in @ THEN @ \ {f} ELSE @ \cup {f}]
  /\ Request
  /\ UNCHANGED game

-----------------------------------------------------------------------------
(* The game thread.                                                        *)

\* The values of the weapons once what was changed is taken back.
Given(h) ==
  [w \in Weapons |-> [g \in Groups |->
     IF w = h.weapon /\ g \in h.applied THEN h.original[g] ELSE h.value[w][g]]]

\* Faulty variant of Restored: what was changed of the weapon before is not forgotten.
RestoredOnly(h) == [h EXCEPT !.value = Given(h), !.weapon = NoWeapon]

\* restore.
Restored(h) == [h EXCEPT !.value = Given(h), !.weapon = NoWeapon, !.applied = {}]

\* One group in update: remembered once, written every time, and written back once.
Apply(h, g) ==
  IF g \in h.flags
  THEN [h EXCEPT !.original[g] = IF g \in h.applied THEN @ ELSE h.value[h.weapon][g],
                 !.value[h.weapon][g] = "ours", !.applied = @ \cup {g}]
  ELSE IF g \in h.applied
  THEN [h EXCEPT !.value[h.weapon][g] = h.original[g], !.applied = @ \ {g}] ELSE h

Armed(h) ==
  LET changed == IF h.weapon # h.held THEN [Restored(h) EXCEPT !.weapon = h.held] ELSE h
  IN  IF changed.weapon = NoWeapon THEN changed ELSE Apply(Apply(changed, "critical"), "minimum")

\* repairClothes: one after another, and what is whole is not looked at again.
Mend(h, upTo, told) ==
  [h EXCEPT !.mended = @ \cup upTo,
            !.told = @ \cup told,
            !.lost = @ \cup ((upTo \ told) \ h.mended)]

Moved == player = NoPlayer \/ hand.previous # player

\* ExtensionRuntime.run, as far as it is about these tools.
Run ==
  /\ LET begun == IF Moved THEN [Restored(hand) EXCEPT !.previous = player] ELSE hand
         armed == IF player = NoPlayer THEN begun ELSE Armed(begun)
         torn == IF player # NoPlayer /\ "clothes" \in hand.flags THEN Clothes \ hand.mended ELSE {}
     IN  \/ NoFault /\ hand' = Mend(armed, torn, torn)
         \/ /\ Fault /\ Online
            /\ \E upTo \in SUBSET torn : \E c \in upTo : hand' = Mend(armed, upTo, upTo \ {c})
  /\ UNCHANGED <<game, requests>>

Next ==
  \/ Live \/ Run
  \/ \E w \in Weapons \cup {NoWeapon} : Take(w)
  \/ \E w \in Weapons, g \in Groups : Alter(w, g)
  \/ \E c \in Clothes : Tear(c)
  \/ \E f \in Groups \cup {"clothes"} : Switch(f)

Spec == Init /\ [][Next]_vars

-----------------------------------------------------------------------------
(* Properties.                                                             *)

\* Only the weapon that is looked after has values of ours, in the groups that count as
\* changed, and what is remembered of it is a value the game gave to it.
WeaponsAreGivenBack ==
  /\ \A w \in Weapons, g \in Groups :
       hand.value[w][g] = "ours" => w = hand.weapon /\ g \in hand.applied
  /\ \A g \in hand.applied : hand.original[g] \in {hand.weapon, "altered"}

\* What the user altered is still there, or is what will be written back.
AlterationsStay ==
  \A w \in Weapons, g \in Groups :
    <<w, g>> \in hand.altered =>
      \/ hand.value[w][g] = "altered"
      \/ w = hand.weapon /\ g \in hand.applied /\ hand.original[g] = "altered"

\* What is mended here is known to the server, except where the telling itself failed:
\* it is not looked at again.
ServerKnowsTheClothes == hand.mended \subseteq hand.told \cup hand.lost
=============================================================================
