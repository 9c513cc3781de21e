------------------------------ MODULE HeroCasts ------------------------------
(***************************************************************************)
(* What a hero may cast and what its casts may claim (buster.js,           *)
(* cooldowns.js, cast-audit.js, hero-healing.js, regen.js).                *)
(*                                                                         *)
(* The client proposes a cast and, for half a minute, the hits it made of  *)
(* it.  The server takes the cost, starts the cooldown of the slot it came *)
(* from, notes the cast with the power its charge allows, and honours a    *)
(* hit only against a cast that has one left.  All of it is forgotten with *)
(* the floor.  A proposal is dealt with in one turn of the loop: what it   *)
(* awaits is game data that is there already.                              *)
(***************************************************************************)
EXTENDS Integers, Sequences, FiniteSets, SequencesExt

CONSTANTS Caster, Mate,  \* the hero who casts, and one of its party
          Window,        \* CAST_WINDOW_MS, in ticks of the model's clock
          HitBudget,     \* CAST_HIT_BUDGET
          TargetBudget,  \* HITS_PER_TARGET
          LiveCasts,     \* MAX_LIVE_CASTS
          Wait,          \* the cooldown of a scroll
          FullCharge,    \* how long a weapon takes to charge; its bonus is one for each tick of that
          FullMana, FullBuster, FullHealth,
          MaxCasts, MaxHits, MaxNow, MaxFloors, MaxRounds  \* bounds

ASSUME HeroCastsAssumption ==
  {Window, HitBudget, TargetBudget, LiveCasts, Wait, FullCharge, FullMana, FullBuster, FullHealth,
   MaxCasts, MaxHits, MaxNow, MaxFloors, MaxRounds} \subseteq Nat \ {0}

VARIABLES
  clock,    \* the clock
  storey,   \* the floor the party is on
  points,   \* by hero: mana, Buster points and life
  cooling,  \* by attack and slot: when it may be cast again
  charging, \* by slot: the hold that charges its weapon, or none
  liveCasts,     \* acceptedCasts, in order
  tally,    \* by attack and slot: since when the one target was hit, and how often
  round,    \* how often anything else gave or took points
  made,     \* every cast there was
  claimed   \* every hit that was honoured

castVars == <<clock, storey, points, cooling, charging, liveCasts, tally, round, made, claimed>>

CastMembers == {Caster, Mate}
Slots == {0, 1}
\* A scroll both slots hold, a weapon to hold and let go, a song that heals, and the hero's own Buster
Attacks == {"scroll", "hold", "burst", "song", "buster"}
Keys == Attacks \X Slots
NoHold == [at |-> 0, number |-> 0]
NoTally == [at |-> 0, hits |-> 0]

CastInit ==
  /\ clock = 1 /\ storey = 1
  /\ points = [h \in CastMembers |-> [mana |-> FullMana, buster |-> 0, life |-> FullHealth]]
  /\ cooling = [k \in Keys |-> 0] /\ charging = [s \in Slots |-> NoHold]
  /\ liveCasts = <<>> /\ tally = [k \in Keys |-> NoTally]
  /\ round = 0 /\ made = <<>> /\ claimed = <<>>

-----------------------------------------------------------------------------
(* What a cast needs and takes.                                            *)

\* slotGrantsAttack: a weapon grants its own attacks, and the Buster is cast from the first slot
SlotGrants(a, s) == CASE a = "scroll" -> TRUE
                      [] a \in {"hold", "burst"} -> s = 1
                      [] OTHER -> s = 0
ManaCost(a) == IF a \in {"scroll", "song"} THEN 1 ELSE 0
CrowdCost(a) == IF a = "buster" THEN FullBuster ELSE 0
CooldownOf(a) == IF a = "scroll" THEN Wait ELSE 0

OffCooldown(a, s) == clock >= cooling[<<a, s>>]
\* Mutant of CooledUntil: the wait is over a tick early
CooledEarly(a, s) == IF CooldownOf(a) = 0 THEN cooling[<<a, s>>] ELSE clock + CooldownOf(a) - 1
CooledUntil(a, s) == IF CooldownOf(a) = 0 THEN cooling[<<a, s>>] ELSE clock + CooldownOf(a)

\* chargedCastState: a hold begins a charge, any other attack of the slot ends it
\* Mutant of HoldAfter: a charge is kept when it is let go
KeptHold(a, s) == IF a = "hold" THEN [at |-> clock, number |-> Len(made) + 1]
                  ELSE IF a = "burst" THEN charging[s] ELSE NoHold
HoldAfter(a, s) == IF a = "hold" THEN [at |-> clock, number |-> Len(made) + 1] ELSE NoHold
PowerOf(a, s) ==
  IF a = "burst" /\ charging[s] # NoHold
  THEN 1 + (IF clock - charging[s].at < FullCharge THEN clock - charging[s].at ELSE FullCharge) ELSE 1

Healed(h) == [points[h] EXCEPT !.life = IF @ = 0 \/ @ = FullHealth THEN @ ELSE @ + 1]
\* The cost is taken, and healFriendlyTargets heals the caster and the others who are up
PointsAfter(a) ==
  LET healed == IF a = "song" THEN [h \in CastMembers |-> Healed(h)] ELSE points
  IN [healed EXCEPT ![Caster].mana = @ - ManaCost(a), ![Caster].buster = @ - CrowdCost(a)]

\* noteCast: what is past its window is dropped, and the oldest beyond the limit
Noted(cast) ==
  LET kept == Append(SelectSeq(liveCasts, LAMBDA c : clock - c.at <= Window), cast)
  IN SubSeq(kept, IF Len(kept) > LiveCasts THEN Len(kept) - LiveCasts + 1 ELSE 1, Len(kept))

\* handleProposeAttackChoreography, accepted; refused, it changes nothing
Proposes(a, s) ==
  /\ Len(made) < MaxCasts
  /\ SlotGrants(a, s) /\ OffCooldown(a, s)
  /\ points[Caster].mana >= ManaCost(a) /\ points[Caster].buster >= CrowdCost(a)
  /\ LET cast == [number |-> Len(made) + 1, attack |-> a, slot |-> s, at |-> clock, hits |-> 0, power |-> PowerOf(a, s)] IN
     /\ liveCasts' = Noted(cast)
     /\ made' = Append(made, [attack |-> a, slot |-> s, at |-> clock, power |-> cast.power, floor |-> storey])
  /\ points' = PointsAfter(a)
  /\ cooling' = [cooling EXCEPT ![<<a, s>>] = CooledUntil(a, s)]
  /\ charging' = [charging EXCEPT ![s] = HoldAfter(a, s)]
  /\ UNCHANGED <<clock, storey, tally, round, claimed>>

-----------------------------------------------------------------------------
(* What a cast authorises.                                                 *)

\* Mutant of Usable: a cast is good for as long as it is remembered
UsableForever(c, a, s) == c.attack = a /\ c.slot = s /\ c.hits < HitBudget
Usable(c, a, s) == c.attack = a /\ c.slot = s /\ clock - c.at <= Window /\ c.hits < HitBudget

\* The first cast whose power covers the claim, else the first there is
ChosenFor(a, s, power) ==
  LET able == {i \in DOMAIN liveCasts : Usable(liveCasts[i], a, s)}
      strong == {i \in able : liveCasts[i].power >= power}
  IN IF able = {} THEN 0 ELSE Min(IF strong = {} THEN able ELSE strong)

\* spendOnTarget
TallyAfter(a, s) ==
  LET t == tally[<<a, s>>]
  IN IF t.hits = 0 \/ clock - t.at > Window THEN [at |-> clock, hits |-> 1] ELSE [t EXCEPT !.hits = @ + 1]

\* consumeAcceptedCast, as castMode enforces it; a hit says how strong its cast was
Claims(a, s, power) ==
  /\ Len(claimed) < MaxHits /\ SlotGrants(a, s)
  /\ LET i == ChosenFor(a, s, power) IN
     /\ i # 0 /\ TallyAfter(a, s).hits <= TargetBudget
     /\ liveCasts' = [liveCasts EXCEPT ![i].hits = @ + 1]
     /\ claimed' = Append(claimed, [number |-> liveCasts[i].number, attack |-> a, slot |-> s, at |-> clock, floor |-> storey,
                                    power |-> IF power < liveCasts[i].power THEN power ELSE liveCasts[i].power])
  /\ tally' = [tally EXCEPT ![<<a, s>>] = TallyAfter(a, s)]
  /\ UNCHANGED <<clock, storey, points, cooling, charging, round, made>>

-----------------------------------------------------------------------------
(* What happens besides.                                                   *)

Ticks == clock < MaxNow /\ clock' = clock + 1 /\ UNCHANGED <<storey, points, cooling, charging, liveCasts, tally, round, made, claimed>>

Besides(after) ==
  /\ round < MaxRounds /\ round' = round + 1 /\ points' = after /\ points' # points
  /\ UNCHANGED <<clock, storey, cooling, charging, liveCasts, tally, made, claimed>>
\* startManaRegen's tick: who is down regains nothing
Regenerates(h) == points[h].life > 0 /\ Besides([points EXCEPT ![h].mana = IF @ < FullMana THEN @ + 1 ELSE @])
KillPays == Besides([points EXCEPT ![Caster].buster = IF @ < FullBuster THEN @ + 1 ELSE @])
IsHurt(h) == points[h].life > 0 /\ Besides([points EXCEPT ![h].life = @ - 1])

\* clearSecurityState, with the party's next floor: everything a client earned the right to do
\* Mutant of Forgotten: only the cooldowns are cleared
CooldownsForgotten(casts) == casts
Forgotten(casts) == <<>>
GoesDown ==
  /\ storey < MaxFloors /\ storey' = storey + 1
  /\ cooling' = [k \in Keys |-> 0] /\ charging' = [s \in Slots |-> NoHold]
  /\ liveCasts' = Forgotten(liveCasts) /\ tally' = [k \in Keys |-> NoTally]
  /\ UNCHANGED <<clock, points, round, made, claimed>>

CastNext ==
  \/ \E a \in Attacks, s \in Slots : Proposes(a, s) \/ \E p \in 1..(1 + FullCharge) : Claims(a, s, p)
  \/ Ticks \/ GoesDown \/ KillPays
  \/ \E h \in CastMembers : Regenerates(h) \/ IsHurt(h)
CastSpec == CastInit /\ [][CastNext]_castVars

-----------------------------------------------------------------------------
CastTypeOK ==
  /\ clock \in 1..MaxNow /\ storey \in 1..MaxFloors /\ round \in 0..MaxRounds
  /\ points \in [CastMembers -> [mana : 0..FullMana, buster : 0..FullBuster, life : 0..FullHealth]]
  /\ cooling \in [Keys -> 0..(MaxNow + Wait)]
  /\ charging \in [Slots -> [at : 0..MaxNow, number : 0..MaxCasts]]
  /\ Len(liveCasts) <= LiveCasts /\ Len(made) <= MaxCasts /\ Len(claimed) <= MaxHits
  /\ \A i \in DOMAIN liveCasts : liveCasts[i] \in [number : 1..MaxCasts, attack : Attacks, slot : Slots, at : 1..MaxNow,
                                         hits : 0..HitBudget, power : 1..(1 + FullCharge)]
  /\ tally \in [Keys -> [at : 0..MaxNow, hits : 0..TargetBudget]]

\* A hit is honoured only against a cast of the same attack from the same slot, made on the floor the
\* party is still on and no longer ago than the window, and no cast pays for more hits than its budget.
HitsAreEarned ==
  /\ \A i \in DOMAIN claimed : LET hit == claimed[i] cast == made[claimed[i].number] IN
       /\ <<cast.attack, cast.slot, cast.floor>> = <<hit.attack, hit.slot, hit.floor>>
       /\ hit.at - cast.at <= Window /\ hit.power <= cast.power
  /\ \A n \in DOMAIN made : Cardinality({i \in DOMAIN claimed : claimed[i].number = n}) <= HitBudget

\* A cast stronger than an ordinary one was charged: its weapon was held as long as that takes, on this
\* floor, with nothing cast from the slot between the hold and the cast.
ChargesAreHeld ==
  \A n \in DOMAIN made : made[n].power > 1 =>
    \E m \in 1..(n - 1) :
      /\ made[m].attack = "hold" /\ made[m].slot = made[n].slot /\ made[m].floor = made[n].floor
      /\ made[n].at - made[m].at >= made[n].power - 1
      /\ \A k \in (m + 1)..(n - 1) : made[k].slot # made[n].slot

\* On one floor the same attack is not cast from the same slot again before its wait is over.
CooldownsHold ==
  \A n \in DOMAIN made, m \in DOMAIN made :
    m < n /\ <<made[m].attack, made[m].slot, made[m].floor>> = <<made[n].attack, made[n].slot, made[n].floor>> =>
      made[n].at >= made[m].at + CooldownOf(made[n].attack)
=============================================================================
