---------------------------- MODULE PlayerWeapon ----------------------------
(***************************************************************************)
(* trainer/src/bridge/player_ammo_bridge.cpp and                           *)
(* player_weapon_reliability_bridge.cpp, which look at the firearm in the  *)
(* player's hand in every frame: a magazine that runs out is filled again, *)
(* and the chance of a jam is zero while the feature is on, with the       *)
(* original remembered and put back when the weapon changes or the         *)
(* feature is turned off.                                                  *)
(***************************************************************************)
EXTENDS GameSession

CONSTANTS
  Weapons,   \* firearms
  NoWeapon,
  Capacity   \* Capacity[w]: rounds that fit into weapon w

VARIABLE weapon

vars == <<weapon, game, bounds>>

Chances == 0 .. 2

\* held is in the hand; base[w] is the chance the game gives weapon w, chance[w] the one
\* it has; lost are weapons whose original was not put back or is not the game's any
\* more; shots and refills count the rounds fired since a refill and the refills.
WeaponTypeOK ==
  weapon \in [held : Weapons \cup {NoWeapon}, reliable : BOOLEAN,
              tracked : Weapons \cup {NoWeapon}, original : Chances,
              base : [Weapons -> Chances \ {0}], chance : [Weapons -> Chances],
              jammed : BOOLEAN, jammedOnServer : BOOLEAN, unsent : BOOLEAN,
              lost : SUBSET Weapons, infinite : BOOLEAN, clip : BOOLEAN, rounds : Nat,
              fired : BOOLEAN, refilled : BOOLEAN]

Init ==
  /\ GameInit
  /\ weapon = [held |-> NoWeapon, reliable |-> FALSE, tracked |-> NoWeapon, original |-> 0,
               base |-> [w \in Weapons |-> 1], chance |-> [w \in Weapons |-> 1],
               jammed |-> FALSE, jammedOnServer |-> FALSE, unsent |-> FALSE, lost |-> {},
               infinite |-> FALSE, clip |-> TRUE, rounds |-> 0, fired |-> TRUE,
               refilled |-> FALSE]

-----------------------------------------------------------------------------
(* The game.                                                               *)

Holding(w, rounds) ==
  [weapon EXCEPT !.held = w, !.jammed = FALSE, !.jammedOnServer = FALSE, !.unsent = FALSE,
     !.rounds = rounds, !.fired = TRUE, !.refilled = FALSE]

Live == Play /\ weapon' = Holding(NoWeapon, 0)

Hold(w) ==
  /\ player # NoPlayer /\ w # weapon.held
  /\ \E rounds \in 0 .. (IF w = NoWeapon THEN 0 ELSE Capacity[w]) :
       weapon' = Holding(w, rounds)
  /\ Request
  /\ UNCHANGED game

\* A shot, which may jam the weapon, or the magazine taken out or put in.
Shoot ==
  /\ weapon.held # NoWeapon /\ weapon.clip /\ ~weapon.jammed /\ weapon.rounds > 0
  /\ \E jam \in IF weapon.chance[weapon.held] = 0 THEN {FALSE} ELSE BOOLEAN :
       weapon' = [weapon EXCEPT !.rounds = @ - 1, !.fired = TRUE, !.jammed = jam,
                    !.jammedOnServer = (@ \/ jam) /\ Online]
  /\ UNCHANGED <<game, bounds>>

ChangeClip ==
  /\ weapon.held # NoWeapon
  /\ weapon' = [weapon EXCEPT !.clip = ~@]
  /\ Request
  /\ UNCHANGED game

\* A part is fitted: the game computes the chance of a jam anew.
Modify ==
  /\ weapon.held # NoWeapon
  /\ LET chance == 3 - weapon.base[weapon.held] IN
     weapon' = [weapon EXCEPT !.base[weapon.held] = chance, !.chance[weapon.held] = chance,
                  !.lost = @ \ {weapon.held}]
  /\ Request
  /\ UNCHANGED game

SetNoWeaponJamEnabled(on) ==
  /\ weapon' = [weapon EXCEPT !.reliable = on]
  /\ Request
  /\ UNCHANGED game

SetInfiniteAmmoEnabled(on) ==
  /\ weapon' = [weapon EXCEPT !.infinite = on]
  /\ Request
  /\ UNCHANGED game

-----------------------------------------------------------------------------
(* Ammunition.                                                             *)

\* Faulty variant of Due: the magazine is filled whenever it is nearly empty.
DueAtOne(w) == weapon.rounds <= 1

\* A magazine with at most one round is filled up to one less than it holds.
Due(w) == Capacity[w] > 1 /\ weapon.rounds <= 1 /\ weapon.rounds < Capacity[w] - 1

\* UpdatePlayerAmmoBridge.
UpdateAmmo ==
  /\ weapon.infinite /\ weapon.held # NoWeapon /\ weapon.clip
  /\ Due(weapon.held)
  /\ weapon' = [weapon EXCEPT !.rounds = Capacity[weapon.held] - 1, !.fired = FALSE,
                  !.refilled = ~weapon.fired]
  /\ UNCHANGED <<game, bounds>>

-----------------------------------------------------------------------------
(* Jams.                                                                   *)

\* RestoreTrackedWeapon: the original is forgotten, written or not; a weapon the game has
\* changed since the last frame gets the old one.
Released(s, ok) ==
  LET w == s.tracked IN
  IF w = NoWeapon THEN s
  ELSE [s EXCEPT !.tracked = NoWeapon, !.original = 0,
          !.chance[w] = IF ok THEN s.original ELSE @,
          !.lost = IF ok /\ s.original = s.base[w] THEN @ ELSE @ \cup {w}]

\* Faulty variant of Tracked: the weapon in the hand is tracked from now on.
TrackedOnly(s, ok) ==
  IF s.tracked = s.held THEN s
  ELSE [s EXCEPT !.tracked = s.held, !.original = s.chance[s.held]]

\* The weapon before this one is released first, put back or not.
Unhanded(s, ok) == IF s.tracked = s.held THEN s ELSE Released(s, ok)

\* TrackWeapon, and a chance that is not zero is a new original.
Tracked(s, ok) ==
  LET t == IF s.tracked = s.held THEN s
           ELSE [Unhanded(s, ok) EXCEPT !.tracked = s.held, !.original = s.chance[s.held]]
  IN  IF s.chance[s.held] = 0 THEN t ELSE [t EXCEPT !.original = s.chance[s.held]]

\* Faulty variant of Unjammed: the server is not told.
UnjammedLocally(s, sent) == [s EXCEPT !.jammed = FALSE]

Unjammed(s, sent) ==
  IF ~s.jammed THEN s
  ELSE [s EXCEPT !.jammed = FALSE, !.jammedOnServer = @ /\ ~sent, !.unsent = Online /\ ~sent]

\* The chance of the weapon in the hand is zero, once it is tracked.
Reliable(s, ok) == [Tracked(s, ok) EXCEPT !.chance[s.held] = 0]

\* UpdatePlayerWeaponReliabilityBridge.  What cannot be tracked or written is left as it
\* is, but the weapon before this one that cannot be put back does not stop the frame.
UpdateReliability ==
  LET off == player = NoPlayer \/ weapon.held = NoWeapon \/ ~weapon.reliable
  IN  /\ \/ off /\ NoFault /\ weapon' = Released(weapon, TRUE)
         \/ off /\ weapon.tracked # NoWeapon /\ Fault /\ weapon' = Released(weapon, FALSE)
         \/ ~off /\ NoFault /\ weapon' = Unjammed(Reliable(weapon, TRUE), Online)
         \/ /\ ~off /\ Fault
            /\ \E ok, sent \in BOOLEAN :
                 weapon' \in {Unhanded(weapon, ok), Tracked(weapon, ok), Reliable(weapon, ok),
                             Unjammed(Reliable(weapon, ok), Online /\ sent)}
      /\ UNCHANGED <<game, requests>>

Next ==
  \/ Live \/ Shoot \/ ChangeClip \/ Modify
  \/ \E w \in Weapons \cup {NoWeapon} : Hold(w)
  \/ \E on \in BOOLEAN : SetNoWeaponJamEnabled(on) \/ SetInfiniteAmmoEnabled(on)
  \/ UpdateAmmo \/ UpdateReliability

Spec == Init /\ [][Next]_vars

-----------------------------------------------------------------------------
(* Properties.                                                             *)

\* A weapon that is not tracked has the chance the game gave it, and of the tracked one
\* the original is known, or is still there to be read.  Weapons that could not be
\* written, and those the game changed just before they were released, are the exception.
OtherWeaponsAreUntouched ==
  \A w \in Weapons \ weapon.lost :
    weapon.chance[w] = weapon.base[w] \/ (weapon.tracked = w /\ weapon.original = weapon.base[w])

\* A jam that is cleared here is cleared on the server, unless that message failed.
ServerKnowsTheJam == weapon.jammedOnServer => weapon.jammed \/ weapon.unsent

\* Between two refills a shot was fired: a magazine is not filled, and the server not
\* told, in every frame.
RefillsAreEarned == ~weapon.refilled
=============================================================================
