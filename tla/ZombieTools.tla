----------------------------- MODULE ZombieTools -----------------------------
(***************************************************************************)
(* trainer/src/java/pztrainer/extensions/ZombieTools.java: zombies stand   *)
(* still or die, none attacks, and the player is not seen.  Online a client*)
(* decides over the zombies it simulates only; they are passed on to and   *)
(* taken over from other clients at any time, and what is done to them has *)
(* to be published.                                                        *)
(***************************************************************************)
EXTENDS GameSession

CONSTANT Zombies

VARIABLE zombie

vars == <<zombie, game, bounds>>

Flags == {"useless", "kill", "passive", "invisible"}
Links == 0 .. 2

\* useless, struck, passive and invisible are how the game stands, the values with own
\* are its own; present are the zombies of the cell and local those this client
\* simulates.  known are those whose value before is in original.  told is what the
\* server has been told of each; strayed are the zombies that were passed on while they
\* were held still, missed those whose publication was given up with the connection.
ZombieTypeOK ==
  /\ zombie.flags \subseteq Flags
  /\ zombie.link \in Links /\ zombie.retained \in Links /\ zombie.previousLink \in Links
  /\ zombie.previous \in Players \cup {NoPlayer} /\ zombie.seenOff \in Players \cup {NoPlayer}
  /\ \A set \in {zombie.present, zombie.local, zombie.struck, zombie.known, zombie.pending,
                 zombie.strayed, zombie.missed} : set \subseteq Zombies
  /\ zombie.own \in [Zombies -> BOOLEAN] /\ zombie.useless \in [Zombies -> BOOLEAN]
  /\ zombie.original \in [Zombies -> BOOLEAN]
  /\ zombie.told \in [Zombies -> [useless : BOOLEAN, struck : BOOLEAN]]
  /\ \A b \in {zombie.passive, zombie.passiveOwn, zombie.passiveApplied, zombie.passiveOriginal,
               zombie.invisibleOriginal} : b \in BOOLEAN
  /\ zombie.invisible \subseteq Players

Here == \* how a zombie is here
  [z \in Zombies |-> [useless |-> zombie.useless[z], struck |-> z \in zombie.struck]]

Init ==
  /\ GameInit
  /\ \E own \in [Zombies -> BOOLEAN], passive \in BOOLEAN :
       zombie = [flags |-> {}, link |-> 0, retained |-> 0, previousLink |-> 0,
                 previous |-> NoPlayer, seenOff |-> NoPlayer, invisibleOriginal |-> FALSE,
                 present |-> {}, local |-> {}, struck |-> {}, known |-> {}, pending |-> {},
                 strayed |-> {}, missed |-> {}, own |-> own, useless |-> own,
                 original |-> [z \in Zombies |-> FALSE],
                 told |-> [z \in Zombies |-> [useless |-> own[z], struck |-> FALSE]],
                 passive |-> passive, passiveOwn |-> passive, passiveApplied |-> FALSE,
                 passiveOriginal |-> FALSE, invisible |-> {}]

-----------------------------------------------------------------------------
(* The game.                                                               *)

\* The zombies of a run are those of the first world.
Live ==
  /\ Play
  /\ zombie' =
       IF player' = NoPlayer THEN [zombie EXCEPT !.link = 0, !.present = {}, !.local = {}]
       ELSE IF met = {}
       THEN [zombie EXCEPT !.link = IF session' = "multiplayer" THEN 1 ELSE 0,
                           !.present = Zombies, !.local = Zombies]
       ELSE [zombie EXCEPT !.link = IF player = NoPlayer /\ session' = "multiplayer" THEN 2 ELSE @]

Owned(z) == ~Online \/ z \in zombie.local

Disconnect ==
  /\ zombie.link # 0
  /\ zombie' = [zombie EXCEPT !.link = 0]
  /\ UNCHANGED <<game, bounds>>

\* A zombie is passed on to another client, or taken over.
PassOn(z) ==
  /\ Online /\ z \in zombie.present \cap zombie.local
  /\ zombie' = [zombie EXCEPT !.local = @ \ {z},
                              !.strayed = IF zombie.useless[z] # zombie.own[z] THEN @ \cup {z} ELSE @]
  /\ UNCHANGED <<game, bounds>>

TakeOver(z) ==
  /\ Online /\ z \in zombie.present \ zombie.local
  /\ zombie' = [zombie EXCEPT !.local = @ \cup {z}, !.told[z] = Here[z]]
  /\ UNCHANGED <<game, bounds>>

Unload(z) ==
  /\ z \in zombie.present
  /\ zombie' = [zombie EXCEPT !.present = @ \ {z}]
  /\ UNCHANGED <<game, bounds>>

Switch(f) ==
  /\ zombie' = [zombie EXCEPT !.flags = IF f \in @ THEN @ \ {f} ELSE @ \cup {f}]
  /\ Request
  /\ UNCHANGED game

Ready == player # NoPlayer /\ (Online => zombie.link # 0)

-----------------------------------------------------------------------------
(* The tools.                                                              *)

\* Faulty variant of Passive: what the game had set is not asked for.
PassiveOnly(z) ==
  [z EXCEPT !.passive = "passive" \in z.flags /\ ~Online, !.passiveOriginal = z.passiveOwn,
            !.passiveApplied = "passive" \in z.flags /\ ~Online]

\* ExtensionAccess keeps this flag from an online game.
Passive(z) ==
  IF "passive" \in z.flags /\ ~Online
  THEN [z EXCEPT !.passiveOriginal = IF z.passiveApplied THEN @ ELSE z.passive, !.passiveApplied = TRUE,
                 !.passive = TRUE]
  ELSE IF z.passiveApplied THEN [z EXCEPT !.passive = z.passiveOriginal, !.passiveApplied = FALSE]
  ELSE z

Seen(z) ==
  IF z.seenOff = NoPlayer THEN z
  ELSE [z EXCEPT !.invisible = IF z.invisibleOriginal THEN @ \cup {z.seenOff} ELSE @ \ {z.seenOff},
                 !.seenOff = NoPlayer]

Invisible(z) ==
  LET seen == IF "invisible" \notin z.flags \/ z.seenOff # player THEN Seen(z) ELSE z
  IN  IF "invisible" \notin z.flags THEN seen
      ELSE [seen EXCEPT !.invisibleOriginal = IF seen.seenOff = NoPlayer THEN player \in seen.invisible ELSE @,
                        !.seenOff = player, !.invisible = @ \cup {player}]

\* The zombies of a set get back what they had, and are to be published.
GivenBack(z, set) ==
  [z EXCEPT !.useless = [x \in Zombies |-> IF x \in set THEN z.original[x] ELSE @[x]],
            !.pending = @ \cup set]

\* Those that are no longer wanted, here, or this client's.
Released(z) ==
  LET gone == {x \in z.known : "useless" \notin z.flags \/ x \notin z.present \/ ~Owned(x)}
  IN  [GivenBack(z, {x \in gone : Owned(x)}) EXCEPT !.known = @ \ gone]

\* Faulty variant of Held: the values before are read when they are already ours.
HeldAgain(z) ==
  LET mine == {x \in z.present \ z.struck : Owned(x) /\ "useless" \in z.flags}
  IN  [z EXCEPT !.known = @ \cup mine,
                !.original = [x \in Zombies |-> IF x \in mine THEN z.useless[x] ELSE @[x]],
                !.useless = [x \in Zombies |-> x \in mine \/ @[x]],
                !.pending = @ \cup {x \in mine : ~z.useless[x]}]

Held(z) ==
  LET mine == {x \in z.present \ z.struck : Owned(x) /\ "useless" \in z.flags}
  IN  [z EXCEPT !.known = @ \cup mine,
                !.original = [x \in Zombies |-> IF x \in mine \ z.known THEN z.useless[x] ELSE @[x]],
                !.useless = [x \in Zombies |-> x \in mine \/ @[x]],
                !.pending = @ \cup {x \in mine : ~z.useless[x]}]

\* Within the range that was asked for; dead at once in a local game.
Struck(z, near) ==
  LET mine == {x \in near \cap z.present : Owned(x) /\ "kill" \in z.flags}
  IN  [z EXCEPT !.struck = @ \cup mine, !.pending = IF Online THEN @ \cup mine ELSE @]

\* Faulty variant of Published: what did not fit is not published later.
PublishedOnce(z, sent) ==
  [z EXCEPT !.pending = {},
            !.told = [x \in Zombies |-> IF x \in sent
                                        THEN [useless |-> z.useless[x], struck |-> x \in z.struck] ELSE @[x]]]

\* publish: to the connection of the moment, as many as a packet takes, or none when
\* the limit of the connection is exceeded.
Published(z, sent) ==
  [z EXCEPT !.pending = {x \in @ : Owned(x)} \ sent,
            !.told = [x \in Zombies |-> IF x \in sent
                                        THEN [useless |-> z.useless[x], struck |-> x \in z.struck] ELSE @[x]]]

Publish(z) ==
  IF ~Online THEN {[z EXCEPT !.pending = {}]}
  ELSE IF z.link = 0 THEN {z}
  ELSE {Published(z, sent) : sent \in SUBSET {x \in z.pending : Owned(x)}}

\* restore, up to the publication.
Forgotten(z) == [GivenBack(z, {x \in z.known : Owned(x)}) EXCEPT !.known = {}]

Restored(z) ==
  LET back(x) == [Seen(x) EXCEPT !.passive = IF x.passiveApplied THEN x.passiveOriginal ELSE @,
                                 !.passiveApplied = FALSE]
  IN  IF z.link # 0 /\ z.link = z.retained
      THEN {back(x) : x \in Publish(Forgotten(z))}
      ELSE {back([Forgotten(z) EXCEPT !.missed = @ \cup Forgotten(z).pending, !.pending = {}])}

\* The player was another one, or the connection.
Moved == ~Ready \/ zombie.previous # player \/ zombie.previousLink # zombie.link

Begun ==
  IF Moved
  THEN {[z EXCEPT !.previous = IF Ready THEN player ELSE NoPlayer, !.previousLink = z.link] :
         z \in Restored(zombie)}
  ELSE {zombie}

Worked(z, near) == Struck(Held(Released(Invisible(Passive([z EXCEPT !.retained = z.link])))), near)

\* ExtensionRuntime.run: what the publication throws ends it.
Run ==
  /\ \/ NoFault /\ ~Ready /\ zombie' \in Begun
     \/ /\ NoFault /\ Ready
        /\ \E z \in Begun, near \in SUBSET zombie.present : zombie' \in Publish(Worked(z, near))
     \/ Fault /\ Online /\ Moved /\ zombie.link # 0 /\ zombie.link = zombie.retained /\ zombie' = Forgotten(zombie)
     \/ Fault /\ Online /\ Ready /\ \E z \in Begun : zombie' = Worked(z, zombie.present)
  /\ UNCHANGED <<game, requests>>

Next ==
  \/ Live \/ Disconnect \/ Run
  \/ \E z \in Zombies : PassOn(z) \/ TakeOver(z) \/ Unload(z)
  \/ \E f \in Flags : Switch(f)

Spec == Init /\ [][Next]_vars

-----------------------------------------------------------------------------
(* Properties.                                                             *)

\* A zombie that is not as the game made it is one whose own value is remembered, except
\* for those that were passed on while they were held still: taken over again they pass
\* for zombies that were so before.
HeldZombiesAreRemembered ==
  \A z \in zombie.present \ zombie.strayed :
    zombie.useless[z] # zombie.own[z] => z \in zombie.known /\ zombie.original[z] = zombie.own[z]

\* Whoever is not seen, and zombies that do not attack, are undone in the end: what is
\* changed is marked as such, and what is remembered is the game's.
ChangesAreMarked ==
  /\ zombie.invisible \subseteq {zombie.seenOff}
  /\ zombie.seenOff # NoPlayer => ~zombie.invisibleOriginal
  /\ zombie.passive # zombie.passiveOwn => zombie.passiveApplied
  /\ zombie.passiveApplied => zombie.passiveOriginal = zombie.passiveOwn

\* What was done to a zombie of this client is known to the server or on its way, unless
\* the connection it was to go by is gone.
ServerKnowsTheZombies ==
  Online =>
    \A z \in (zombie.local \cap zombie.present) \ (zombie.strayed \cup zombie.missed) :
      zombie.told[z] # Here[z] => z \in zombie.pending
=============================================================================
