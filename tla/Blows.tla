-------------------------------- MODULE Blows --------------------------------
(***************************************************************************)
(* The blows that fall on one enemy of a floor (combat.js,                 *)
(* placeable-attacks.js), what they leave on it (buffs.js,                 *)
(* combat-effects.js), its death, and what the heroes are credited with.   *)
(*                                                                         *)
(* A party shares the floor's actors, every member has a session of his    *)
(* own, and a hit is dealt with in steps: priced, then its buff granted,   *)
(* then the life taken, and the credit given once the game data is there.  *)
(***************************************************************************)
EXTENDS Integers, FiniteSets, Functions

CONSTANTS Fighters,
          Life,       \* the enemy's hit points
          Stacks,     \* MaxStacks of the buff a blow leaves
          PoisonBites,      \* how many times its poison bites
          CastBudget, \* hits one cast may claim
          FullBuster, \* the hero's maximum of Buster points, at one a kill
          MaxBuffs,   \* bound: buffs granted
          MaxCasts,   \* bound: casts of one hero
          MaxSteals   \* bound: life the enemy steals back

ASSUME BlowsAssumption ==
  {Life, Stacks, PoisonBites, CastBudget, FullBuster, MaxBuffs, MaxCasts} \subseteq Nat \ {0} /\ MaxSteals \in Nat

VARIABLES
  castsChecked,  \* whether castMode enforces
  onFloor,   \* whether the heroes still stand on the floor
  stolen,    \* life the enemy has stolen back
  lingers,   \* whether its death has an effect to play before it is taken away
  foe,       \* hit points, dead, and whether it is among the actors
  casts,     \* by hero: the hits left of his casts
  castsMade,    \* by hero: casts made
  blow,      \* by hero: the hit being dealt with
  buffs,     \* the buffs on it: who left it, what its poison has left to bite, whether it will expire
  granted,   \* buffs made
  credit,    \* by hero: kills, damage and Buster points
  elsewhere, \* life taken by nobody's hero
  goneCalls,      \* how often onGone was called
  crossed    \* whether it died by another while a blow that had landed waited for its credit

blowVars == <<castsChecked, onFloor, stolen, lingers, foe, casts, castsMade, blow, buffs, granted, credit, elsewhere, goneCalls, crossed>>
restOfBlow == <<castsChecked, onFloor, stolen, lingers, casts, castsMade, granted>>

NoBlow == [at |-> "none", damage |-> 0, lost |-> 0, buff |-> 0]

BlowInit ==
  /\ castsChecked \in BOOLEAN /\ lingers \in BOOLEAN /\ onFloor = TRUE /\ stolen = 0
  /\ foe = [hp |-> Life, dead |-> FALSE, here |-> TRUE]
  /\ casts = [h \in Fighters |-> 0] /\ castsMade = [h \in Fighters |-> 0]
  /\ blow = [h \in Fighters |-> NoBlow]
  /\ buffs = {} /\ granted = 0
  /\ credit = [h \in Fighters |-> [kills |-> 0, damage |-> 0, buster |-> 0]]
  /\ elsewhere = 0 /\ goneCalls = 0 /\ crossed = FALSE

-----------------------------------------------------------------------------
(* The life of the enemy.                                                  *)

Least(a, b) == IF a < b THEN a ELSE b
\* applyDamage takes from what is there and not dead
Struck(damage) == [foe EXCEPT !.hp = Least(@, @ - Least(@, damage)), !.dead = foe.hp <= damage]
Hurts(damage) == foe.here /\ ~foe.dead /\ damage > 0

\* removeActor, with the buffs it carried and their clocks, once there is no effect left to play
Retired(f) == IF f.dead /\ ~lingers THEN [f EXCEPT !.here = FALSE] ELSE f
Carried(f) == IF f.here THEN buffs ELSE {}

Crosses(f) == f.dead /\ \E h \in Fighters : blow[h].at = "landed"
\* Mutant of Lost: the whole blow counts
WholeBlow(damage) == damage
Lost(damage) == Least(foe.hp, damage)
\* The life is taken; dying, the enemy is taken away at once or goes on to play its effect
Takes(damage) ==
  LET f == Retired(Struck(damage)) IN
  /\ foe' = f /\ buffs' = Carried(f) /\ goneCalls' = goneCalls + (IF f.here THEN 0 ELSE 1)
  /\ crossed' = (crossed \/ Crosses(f))

\* retire: the effect is over
TakenAway ==
  /\ lingers /\ foe.dead /\ foe.here
  /\ foe' = [foe EXCEPT !.here = FALSE] /\ buffs' = {} /\ goneCalls' = goneCalls + 1
  /\ UNCHANGED <<restOfBlow, blow, credit, elsewhere, crossed>>

\* A trap, or a command that kills every enemy
TrapStrikes(damage) ==
  /\ Hurts(damage) /\ Takes(damage) /\ elsewhere' = elsewhere + Lost(damage)
  /\ UNCHANGED <<restOfBlow, blow, credit>>
\* expireActor: its time is up
BuffExpires ==
  /\ foe.here /\ ~foe.dead /\ elsewhere' = elsewhere + foe.hp
  /\ foe' = [hp |-> 0, dead |-> TRUE, here |-> FALSE] /\ buffs' = {} /\ goneCalls' = goneCalls + 1
  /\ crossed' = (crossed \/ Crosses(foe'))
  /\ UNCHANGED <<restOfBlow, blow, credit>>

\* stealLife: a tough one heals a share of what it dealt a hero
StealsLife ==
  /\ onFloor /\ foe.here /\ ~foe.dead /\ foe.hp < Life /\ stolen < MaxSteals
  /\ foe' = [foe EXCEPT !.hp = @ + 1] /\ stolen' = stolen + 1
  /\ UNCHANGED <<castsChecked, onFloor, lingers, casts, castsMade, blow, buffs, granted, credit, elsewhere, goneCalls, crossed>>

-----------------------------------------------------------------------------
(* Credit.                                                                 *)

\* payBusterForKill
Buster(points) == Least(FullBuster, points + 1)
\* dungeonContribution and tellHit; the Buster is for a hero who can take it
Credited(h, lost, killed, paid) ==
  LET c == credit[h] IN
  credit' = [credit EXCEPT ![h] = [kills |-> c.kills + (IF killed THEN 1 ELSE 0), damage |-> c.damage + lost,
                                   buster |-> IF killed /\ paid THEN Buster(c.buster) ELSE c.buster]]

-----------------------------------------------------------------------------
(* A hero's hit: applyProposals.                                           *)

\* noteCast
Casts(h) ==
  /\ castsMade[h] < MaxCasts /\ castsMade' = [castsMade EXCEPT ![h] = @ + 1]
  /\ casts' = [casts EXCEPT ![h] = @ + CastBudget]
  /\ UNCHANGED <<castsChecked, onFloor, stolen, lingers, foe, blow, buffs, granted, credit, elsewhere, goneCalls, crossed>>

\* A proposal for what is there: it spends a hit of a cast (consumeAcceptedCast), and without one is
\* noted, or dropped; a blocked one does nothing to it
Proposes(h, damage) ==
  /\ blow[h] = NoBlow /\ foe.here /\ castsMade[h] > 0
  /\ castsChecked => casts[h] > 0
  /\ casts' = [casts EXCEPT ![h] = IF @ > 0 THEN @ - 1 ELSE @]
  /\ blow' = [blow EXCEPT ![h] = [NoBlow EXCEPT !.at = IF damage = 0 THEN "ready" ELSE "priced", !.damage = damage]]
  /\ UNCHANGED <<castsChecked, onFloor, stolen, lingers, foe, castsMade, buffs, granted, credit, elsewhere, goneCalls, crossed>>

\* grantBuffInstance, at its limit: a further grant is discarded
Stackable == Cardinality(buffs) < Stacks
\* grantBuffInstance: the buff is on it, whether it is still there or not
BuffLands(h) ==
  /\ blow[h].at = "priced"
  /\ IF Stackable /\ granted < MaxBuffs
     THEN /\ granted' = granted + 1
          /\ buffs' = buffs \cup {[id |-> granted + 1, by |-> h, bites |-> 0, timed |-> FALSE]}
          /\ blow' = [blow EXCEPT ![h].at = "granted", ![h].buff = granted + 1]
     ELSE /\ blow' = [blow EXCEPT ![h].at = "ready"]
          /\ UNCHANGED <<buffs, granted>>
  /\ UNCHANGED <<castsChecked, onFloor, stolen, lingers, foe, casts, castsMade, credit, elsewhere, goneCalls, crossed>>
\* its timer and its poison are started when its duration and its colour are known; of a buff that
\* went meanwhile they find nothing to end and nobody to bite
ClockStarts(h) ==
  /\ blow[h].at = "granted" /\ blow' = [blow EXCEPT ![h].at = "ready", ![h].buff = 0]
  /\ buffs' = {IF b.id = blow[h].buff THEN [b EXCEPT !.timed = TRUE, !.bites = PoisonBites] ELSE b : b \in buffs}
  /\ UNCHANGED <<restOfBlow, foe, credit, elsewhere, goneCalls, crossed>>

\* applyDamage, and what is remembered of it
BlowLands(h) ==
  /\ blow[h].at = "ready"
  /\ IF Hurts(blow[h].damage)
     THEN /\ Takes(blow[h].damage) /\ blow' = [blow EXCEPT ![h].at = "landed", ![h].lost = Lost(blow[h].damage)]
     ELSE blow' = [blow EXCEPT ![h] = NoBlow] /\ UNCHANGED <<foe, buffs, goneCalls, crossed>>
  /\ UNCHANGED <<restOfBlow, credit, elsewhere>>
\* the enemy was not dead before the blow and is dead now that the game data is there
Finished(h) == foe.dead
CreditComes(h) ==
  /\ blow[h].at = "landed" /\ Credited(h, blow[h].lost, Finished(h), TRUE)
  /\ blow' = [blow EXCEPT ![h] = NoBlow]
  /\ UNCHANGED <<restOfBlow, foe, buffs, elsewhere, goneCalls, crossed>>

\* removeHeroFromFloor: the party walks out, and the floor goes on until the report; what is under
\* way, laid or burning goes on with it
HeroesLeave ==
  /\ onFloor /\ onFloor' = FALSE
  /\ UNCHANGED <<castsChecked, stolen, lingers, foe, casts, castsMade, blow, buffs, granted, credit, elsewhere, goneCalls, crossed>>

-----------------------------------------------------------------------------
(* What strikes by itself.                                                 *)

\* performPlaceableAttack: what a hero has laid strikes, and its credit is given with the blow
PlaceableStrikes(h, damage) ==
  /\ castsMade[h] > 0 /\ Hurts(damage)
  /\ Takes(damage) /\ Credited(h, Lost(damage), foe'.dead, onFloor)
  /\ UNCHANGED <<restOfBlow, blow, elsewhere>>

\* A second of the poison, which does not end with the cast
Bites(b) ==
  /\ b.bites > 0 /\ Hurts(1)
  /\ LET f == Retired(Struck(1))
         left == (buffs \ {b}) \cup {[b EXCEPT !.bites = IF f.dead THEN 0 ELSE @ - 1]}
     IN foe' = f /\ buffs' = (IF f.here THEN left ELSE {}) /\ goneCalls' = goneCalls + (IF f.here THEN 0 ELSE 1)
                       /\ crossed' = (crossed \/ Crosses(f))
  /\ Credited(b.by, 1, foe'.dead, onFloor)
  /\ UNCHANGED <<restOfBlow, blow, elsewhere>>
\* it stops by itself on the dead
BiteStops(b) ==
  /\ b.bites > 0 /\ (foe.dead \/ ~foe.here)
  /\ buffs' = (buffs \ {b}) \cup {[b EXCEPT !.bites = 0]}
  /\ UNCHANGED <<restOfBlow, foe, blow, credit, elsewhere, goneCalls, crossed>>
\* expireBuff: with its poison
BuffEnds(b) ==
  /\ b.timed /\ buffs' = buffs \ {b}
  /\ UNCHANGED <<restOfBlow, foe, blow, credit, elsewhere, goneCalls, crossed>>

BlowNext ==
  \/ \E h \in Fighters :
       \/ Casts(h) \/ BuffLands(h) \/ ClockStarts(h) \/ BlowLands(h) \/ CreditComes(h)
       \/ \E damage \in 0..2 : Proposes(h, damage)
       \/ PlaceableStrikes(h, 1)
  \/ \E b \in buffs : Bites(b) \/ BiteStops(b) \/ BuffEnds(b)
  \/ TrapStrikes(2) \/ BuffExpires \/ TakenAway \/ StealsLife \/ HeroesLeave
BlowSpec == BlowInit /\ [][BlowNext]_blowVars

-----------------------------------------------------------------------------
(* Properties.                                                             *)

BlowTypeOK ==
  /\ foe.hp \in 0..Life /\ (foe.dead <=> foe.hp = 0) /\ (foe.here \/ foe.dead)
  /\ granted \in 0..MaxBuffs /\ goneCalls \in 0..1 /\ stolen \in 0..MaxSteals
  /\ \A h \in Fighters : blow[h].at \in {"none", "priced", "granted", "ready", "landed"}
  /\ \A h \in Fighters : credit[h].buster \in 0..FullBuster

Kills == SumFunction([h \in Fighters |-> credit[h].kills])

\* The heroes are credited with the life their blows took, no more and no less, whoever else struck
\* and whatever the enemy stole back; the Buster is paid for every kill up to its full, and only once
\* the heroes have walked out may one stay unpaid; and who hit it last has the kill, even of an
\* enemy another effect has finished: unless a blow still waited for its credit when another killed
\* it, which counts the kill again.
CreditIsWhatWasTaken ==
  /\ SumFunction([h \in Fighters |-> credit[h].damage + blow[h].lost]) + elsewhere = Life + stolen - foe.hp
  /\ \A h \in Fighters : LET due == Least(FullBuster, credit[h].kills)
                         IN credit[h].buster <= due /\ (onFloor => credit[h].buster = due)
  /\ Kills > 1 => crossed
  /\ foe.dead /\ Kills = 0 => elsewhere > 0 \/ \E h \in Fighters : blow[h].at = "landed"

\* "Everything a body was carrying, taken off with it" (buffs.js): the code leaves the buff of a blow
\* that was under way on nobody, so no run checks it.
BuffsGoWithTheirHost == ~foe.here => buffs = {}

\* "`killed` ... the player's hit finished it", the "same moments, said once each"
\* (combat-events.js): the code may say it twice.
KillsAreSaidOnce == Kills <= 1
=============================================================================
