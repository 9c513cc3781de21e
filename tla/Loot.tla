-------------------------------- MODULE Loot --------------------------------
(***************************************************************************)
(* What a run pays as it is played: what falls from the killed (drops.js), *)
(* what is cooked (powerups.js), who takes it (pickups.js), what it is     *)
(* worth (rewards.js, run-xp.js) and when it is written.                   *)
(*                                                                         *)
(* A coin is one piece of gold.  Experience is counted in halves of a      *)
(* point, as some heroes earn half as much again.  Which npc a floor holds *)
(* is given: what stands on it, what its generators make, what its secret  *)
(* rooms withhold, and what others call up.                                *)
(***************************************************************************)
EXTENDS Integers, FiniteSets, FiniteSetsExt, Functions

CONSTANTS Looters,     \* who plays the run
          Gifted,      \* of those, whose legendary raises experience by half
          Npcs,        \* what may stand on a floor
          NpcKind,        \* of an npc: stock, generated, sealed or called
          Weight,      \* of an npc: its XP
          Points,      \* of an npc: a star's points where the run has no price
          Falls,       \* of an npc: what else may fall
          Total,       \* TotalEnemyXP of the node
          Thirst,      \* how much is missing of a hero at the most
          Evenings         \* runs: their floors and what stands on each, and bounds on what is cooked and written

ASSUME LootAssumption ==
  /\ Gifted \subseteq Looters /\ IsFiniteSet(Npcs) /\ IsFiniteSet(Looters)
  /\ NpcKind \in [Npcs -> {"stock", "generated", "sealed", "called"}]
  /\ {Weight, Points} \subseteq [Npcs -> Nat] /\ Falls \in [Npcs -> SUBSET {"gold", "food"}]
  /\ {Total, Thirst} \subseteq Nat
  /\ \A r \in Evenings : r.npcs \subseteq Npcs /\ r.floors \in Nat \ {0} /\ {r.cooks, r.writes} \subseteq Nat

VARIABLES evening, landing, lootStage,      \* building, settled, moving (its scope has ended) or over
          party,
          foe,               \* each npc of the floor
          plan, unit,        \* runXp: the weight, and the weight a run was priced by (0: none yet)
          paidFor,           \* the weight that was paid for by the unit
          ground,            \* session.doobers
          expiring,          \* dooberTimers
          fed,               \* what was cooked so far
          pots, cooking,     \* floors of the timers of timelines, and of spawnPowerup under way
          missing,           \* of each hero: what food would fill
          account, changed,  \* the account in memory, and accountChanged
          carry,             \* xpCarry
          waiting, writing,  \* saves that are queued, and what the one under way writes
          stored, writes,
          dropped, lost      \* what fell so far, and what lay there when a floor was left

runVars  == <<evening, landing, lootStage, party, foe, plan, unit, paidFor>>
foodVars == <<expiring, fed, pots, cooking>>
heroVars == <<missing, account, changed, carry>>
saveVars == <<waiting, writing, stored, writes>>
lootVars == <<runVars, ground, foodVars, heroVars, saveVars, dropped, lost>>

Nothing == [gold |-> 0, xp |-> 0]
NoWrite == [gold |-> -1, xp |-> -1]
Sum(S, F(_)) == FoldSet(LAMBDA x, total : F(x) + total, 0, S)
WeightOf(ns) == Sum(ns, LAMBDA n : Weight[n])
OfKind(kind) == {n \in evening.npcs : NpcKind[n] = kind}

LootInit ==
  /\ evening \in Evenings /\ landing = 1 /\ lootStage = "building" /\ party = Looters /\ foe = [n \in Npcs |-> "out"]
  /\ plan = 0 /\ unit = 0 /\ paidFor = 0
  /\ ground = {} /\ expiring = {} /\ fed = 0 /\ pots = {} /\ cooking = {}
  /\ missing = [m \in Looters |-> Thirst] /\ account = [m \in Looters |-> Nothing] /\ carry = [m \in Looters |-> 0]
  /\ changed = [m \in Looters |-> FALSE] /\ waiting = [m \in Looters |-> 0]
  /\ writing = [m \in Looters |-> NoWrite] /\ stored = [m \in Looters |-> Nothing] /\ writes = 0
  /\ dropped = Nothing /\ lost = Nothing

-----------------------------------------------------------------------------
(* The price of a kill.                                                    *)

\* spawnNpc, countFloorXp: what a generator makes is counted when the floor is settled
Counted(n) == unit = 0 /\ lootStage = "building" /\ NpcKind[n] \in {"stock", "sealed"}
Spawns(n) ==
  /\ foe[n] = "out" /\ lootStage \in {"building", "settled"} /\ (NpcKind[n] = "stock" => lootStage = "building")
  /\ foe' = [foe EXCEPT ![n] = "up"] /\ plan' = IF Counted(n) THEN plan + Weight[n] ELSE plan
  /\ UNCHANGED <<evening, landing, lootStage, party, unit, paidFor, ground, foodVars, heroVars, saveVars, dropped, lost>>
\* Mutant of ToCome: what is withheld is not counted
OnlyGenerated == OfKind("generated")
\* generatorXpWeight and sealedXpWeight, of the floor as it is planned
ToCome == OfKind("generated") \cup OfKind("sealed")
\* settleFloorXp: this floor and what the others are expected to weigh, once in a run
Settles ==
  /\ lootStage = "building" /\ \A n \in OfKind("stock") : foe[n] # "out"
  /\ lootStage' = "settled"
  /\ LET weight == plan + WeightOf(ToCome) IN
     IF unit # 0 THEN UNCHANGED <<plan, unit>>
     ELSE IF weight > 0 /\ Total > 0 THEN plan' = weight /\ unit' = weight * (evening.floors - landing + 1)
     ELSE plan' = 0 /\ UNCHANGED unit
  /\ UNCHANGED <<evening, landing, party, foe, paidFor, ground, foodVars, heroVars, saveVars, dropped, lost>>

\* claimXpStar: rounded up or down by chance; a star of its own where there is no price
Stars(n) ==
  IF NpcKind[n] = "called" \/ Weight[n] = 0 THEN {0}
  ELSE IF unit = 0 THEN {Points[n]}
  ELSE LET worth == Weight[n] * Total IN {worth \div unit} \cup (IF worth % unit > 0 THEN {worth \div unit + 1} ELSE {})

-----------------------------------------------------------------------------
(* What falls.                                                             *)

\* Where it lies; and where it was cooked, if it was
Doober(kind, of, worth, cooked) == [kind |-> kind, of |-> of, worth |-> worth, landing |-> landing, cooked |-> cooked]
ShareFrom(kind, ds) == {d \in ds : d.kind = kind}
Worth(ds) == [gold |-> Cardinality(ShareFrom("gold", ds)), xp |-> Sum(ShareFrom("star", ds), LAMBDA d : d.worth)]
Plus(a, b) == [gold |-> a.gold + b.gold, xp |-> a.xp + b.xp]
\* rollNpcRewardDoobers: a star, unless it is worth nothing, and what else may fall
Rolls(n) ==
  {{Doober(kind, n, 0, 0) : kind \in also} \cup (IF star > 0 THEN {Doober("star", n, star, 0)} ELSE {}) : star \in Stars(n), also \in {{}, Falls[n]}}
\* spawnNpcRewards
Lands(falls) == ground' = ground \cup falls /\ dropped' = Plus(dropped, Worth(falls))
\* The actor's onDeath
Killed(n) ==
  /\ foe[n] = "up" /\ lootStage \in {"building", "settled"} /\ foe' = [foe EXCEPT ![n] = "down"]
  /\ \E falls \in Rolls(n) : Lands(falls)
  /\ paidFor' = IF unit > 0 /\ NpcKind[n] # "called" THEN paidFor + Weight[n] ELSE paidFor
  /\ UNCHANGED <<evening, landing, lootStage, party, plan, unit, foodVars, heroVars, saveVars, lost>>

\* scheduleTimelineDoobers: a timer of the floor
IsScheduled ==
  /\ lootStage = "settled" /\ fed + Cardinality(pots) + Cardinality(cooking) < evening.cooks /\ pots = {}
  /\ pots' = {landing} /\ UNCHANGED <<runVars, ground, expiring, fed, cooking, heroVars, saveVars, dropped, lost>>
\* It fires, and spawnPowerup begins to read
PotIsReady ==
  /\ \E at \in pots : pots' = pots \ {at} /\ cooking' = IF at = landing /\ lootStage # "over" THEN cooking \cup {at} ELSE cooking
  /\ UNCHANGED <<runVars, ground, expiring, fed, heroVars, saveVars, dropped, lost>>
\* cookOne: onto the floor there is when all is read
Cooks ==
  /\ \E at \in cooking :
       LET food == Doober("food", fed, 0, at) IN
       cooking' = cooking \ {at} /\ ground' = ground \cup {food} /\ expiring' = expiring \cup {food}
  /\ fed' = fed + 1
  /\ UNCHANGED <<runVars, pots, heroVars, saveVars, dropped, lost>>
\* expireDoober
Expires ==
  /\ \E d \in expiring : expiring' = expiring \ {d} /\ ground' = ground \ {d}
  /\ UNCHANGED <<runVars, fed, pots, cooking, heroVars, saveVars, dropped, lost>>

-----------------------------------------------------------------------------
(* What is taken.                                                          *)

\* worthTaking: no food for who misses nothing
WorthTaking(m, d) == d.kind = "food" => missing[m] > 0
\* What a pet picks up for its owner
Fetched(d) == d.kind \in {"gold", "star"}
\* Mutant of WholeExperience: every star is cut to whole points
NoCarry(m, halves) == [points |-> halves \div 2, carry |-> 0]
WholeExperience(m, halves) == [points |-> (halves + carry[m]) \div 2, carry |-> (halves + carry[m]) % 2]
Halves(m, points) == IF m \in Gifted THEN 3 * points ELSE 2 * points
\* Mutant of Remaining: what was taken goes on lying there
NothingIsTaken(taken) == ground
Remaining(taken) == ground \ taken
\* creditGoldAndExperience
Credited(m, gold, xp) == Plus(account[m], [gold |-> gold, xp |-> xp])
\* healHero and restoreMana of the one who walked over it
Fed(m, food) == [missing EXCEPT ![m] = IF @ > food THEN @ - food ELSE 0]
\* collectTracked, applyProgressReward: of what a hero takes everybody is paid his own
Takes(m, taken, eats) ==
  LET pay == Worth(taken)
      xp(p) == WholeExperience(p, Halves(p, pay.xp)) IN
  /\ ground' = Remaining(taken) /\ expiring' = expiring \ taken
  /\ account' = [p \in Looters |-> IF p \in party THEN Credited(p, pay.gold, xp(p).points) ELSE account[p]]
  /\ carry' = [p \in Looters |-> IF p \in party /\ pay.xp > 0 THEN xp(p).carry ELSE carry[p]]
  /\ changed' = [p \in Looters |-> changed[p] \/ (p \in party /\ (pay.gold > 0 \/ xp(p).points > 0))]
  /\ missing' = IF eats THEN Fed(m, Cardinality(ShareFrom("food", taken))) ELSE missing
  /\ UNCHANGED <<runVars, fed, pots, cooking, saveVars, dropped, lost>>
\* collectNearby: what is worth taking is told before any of it is taken
WalksOver(m) ==
  /\ m \in party /\ lootStage # "over"
  /\ \E taken \in SUBSET {d \in ground : WorthTaking(m, d)} \ {{}} : Takes(m, taken, TRUE)
\* collectNearbyForPet
PetPicksUp(m) ==
  /\ m \in party /\ lootStage # "over"
  /\ \E taken \in SUBSET {d \in ground : Fetched(d)} \ {{}} : Takes(m, taken, FALSE)
IsStruck(m) ==
  /\ m \in party /\ missing[m] < Thirst /\ missing' = [missing EXCEPT ![m] = @ + 1]
  /\ UNCHANGED <<runVars, ground, foodVars, account, changed, carry, saveVars, dropped, lost>>

-----------------------------------------------------------------------------
(* What is written.                                                        *)

\* queueAccountSave: what is queued writes what the account is when its turn comes
Queued(ms) ==
  /\ waiting' = [m \in Looters |-> IF m \in ms THEN 1 ELSE waiting[m]]
  /\ changed' = [m \in Looters |-> changed[m] /\ m \notin ms]
\* saveChangedAccounts
Changed == {m \in party : changed[m]}
\* startRunCheckpoints, until the run is over
Checkpoint ==
  /\ lootStage # "over" /\ Changed # {} /\ Queued(Changed)
  /\ UNCHANGED <<runVars, ground, foodVars, missing, account, carry, writing, stored, writes, dropped, lost>>
\* Mutant of Unflagged: written is written, whatever was earned meanwhile
IsClean(m) == [changed EXCEPT ![m] = FALSE]
\* The flag is lowered before the write, and what is earned during it raises it
Unflagged(m) == changed
WriteBegins(m) ==
  /\ waiting[m] > 0 /\ writing[m] = NoWrite /\ writes < evening.writes /\ writes' = writes + 1
  /\ writing' = [writing EXCEPT ![m] = account[m]] /\ waiting' = [waiting EXCEPT ![m] = 0]
  /\ UNCHANGED <<runVars, ground, foodVars, heroVars, stored, dropped, lost>>
WriteEnds(m) ==
  /\ writing[m] # NoWrite /\ stored' = [stored EXCEPT ![m] = writing[m]] /\ writing' = [writing EXCEPT ![m] = NoWrite]
  /\ changed' = Unflagged(m)
  /\ UNCHANGED <<runVars, ground, foodVars, missing, account, carry, waiting, writes, dropped, lost>>
\* followRunSave: a save that failed is asked for again
WriteFails(m) ==
  /\ writing[m] # NoWrite /\ writing' = [writing EXCEPT ![m] = NoWrite] /\ waiting' = [waiting EXCEPT ![m] = 1]
  /\ UNCHANGED <<runVars, ground, foodVars, heroVars, stored, writes, dropped, lost>>

-----------------------------------------------------------------------------
(* Floors come and go.                                                     *)

\* clearDungeonPowerups
TimersAreCleared == expiring' = {} /\ pots' = {}
\* advanceFloor: what the floor paid is written, and its timers are cleared
FloorEnds ==
  /\ lootStage = "settled" /\ landing < evening.floors /\ lootStage' = "moving"
  /\ Queued(Changed) /\ TimersAreCleared
  /\ UNCHANGED <<evening, landing, party, foe, plan, unit, paidFor, ground, fed, cooking, missing, account, carry, writing, stored, writes, dropped, lost>>
FloorBegins ==
  /\ lootStage = "moving" /\ lootStage' = "building" /\ landing' = landing + 1
  /\ foe' = [n \in Npcs |-> "out"] /\ ground' = {} /\ expiring' = expiring \ ground /\ lost' = Plus(lost, Worth(ground))
  /\ UNCHANGED <<evening, party, plan, unit, paidFor, fed, pots, cooking, heroVars, saveVars, dropped>>
\* leaveDungeon: the account is settled, which writes it
GoesHome(m) ==
  /\ m \in party /\ lootStage # "over" /\ Queued({m}) /\ party' = party \ {m}
  /\ IF party' = {} THEN lootStage' = "over" /\ ground' = {} /\ TimersAreCleared /\ lost' = Plus(lost, Worth(ground))
     ELSE UNCHANGED <<lootStage, ground, expiring, pots, lost>>
  /\ UNCHANGED <<evening, landing, foe, plan, unit, paidFor, fed, cooking, missing, account, carry, writing, stored, writes, dropped>>

LootNext ==
  \/ Settles \/ IsScheduled \/ PotIsReady \/ Cooks \/ Expires \/ Checkpoint \/ FloorEnds \/ FloorBegins
  \/ \E n \in evening.npcs : Spawns(n) \/ Killed(n)
  \/ \E m \in Looters : WalksOver(m) \/ PetPicksUp(m) \/ IsStruck(m) \/ WriteBegins(m) \/ WriteEnds(m) \/ WriteFails(m) \/ GoesHome(m)
LootSpec == LootInit /\ [][LootNext]_lootVars

-----------------------------------------------------------------------------

LootTypeOK ==
  /\ evening \in Evenings
  /\ landing \in 1..evening.floors /\ lootStage \in {"building", "settled", "moving", "over"} /\ party \subseteq Looters
  /\ foe \in [Npcs -> {"out", "up", "down"}] /\ {plan, unit, paidFor, fed} \subseteq Nat
  /\ \A d \in ground : d.kind \in {"gold", "star", "food"} /\ d.landing \in 1..evening.floors
  /\ pots \cup cooking \subseteq 1..evening.floors /\ missing \in [Looters -> 0..Thirst] /\ carry \in [Looters -> 0..1]
  /\ waiting \in [Looters -> 0..1]

\* Whatever falls lies there, is left behind, or was paid to each who plays, once and to the half of a
\* point (pickups.js collectTracked, rewards.js wholeExperience).
EverybodyIsPaidOnce ==
  \A m \in party :
    LET fell == Worth(ground) IN
    /\ dropped.gold = account[m].gold + fell.gold + lost.gold
    /\ Halves(m, dropped.xp) = 2 * account[m].xp + carry[m] + Halves(m, fell.xp) + Halves(m, lost.xp)

\* What is in the account and neither written nor being written is to be written: a save is queued, or
\* the account is marked for the next checkpoint (rewards.js saveChangedAccounts).
EarningsAreRemembered ==
  \A m \in Looters :
    account[m] # (IF writing[m] # NoWrite THEN writing[m] ELSE stored[m]) => waiting[m] > 0 \/ changed[m]

\* The first floor that is priced pays no more than its share of the node: what was paid by the price and
\* what may yet be, counted or not, weigh no more than what it was priced by (run-xp.js settleFloorXp).
FloorPaysItsShare ==
  landing = 1 /\ unit > 0 => paidFor + WeightOf({n \in evening.npcs : NpcKind[n] # "called" /\ foe[n] # "down"}) <= plan

\* What lies there is of the floor that is played, and food that does not keep goes (powerups.js).
LootIsInPlace ==
  /\ \A d \in ground : d.landing = landing
  /\ lootStage \in {"building", "settled"} => \A d \in ground : d.cooked > 0 => d \in expiring

\* Does not hold: food is made on the floor it was cooked on.  spawnPowerup reads the game's data after
\* the timer has looked at the floor, and cookOne puts what it makes onto session.floorDoid.
FoodStaysOnItsFloor == \A d \in ground : d.cooked > 0 => d.cooked = d.landing
=============================================================================
