----------------------------- MODULE FloorPeople -----------------------------
(***************************************************************************)
(* Who is on a floor besides the heroes: the enemies it is stocked with    *)
(* (population.js), what modifiers call up, the pets of the party          *)
(* (floor-population.js, combat.js, revive.js), how strong they are for    *)
(* the size of the party (match-runtime.js), and the treasures that are    *)
(* laid out (floor-collectables.js), which hang on the same builders.      *)
(*                                                                         *)
(* A pet and an npc are asked for, and are there after awaits.             *)
(***************************************************************************)
EXTENDS Integers, Sequences, FiniteSets, FiniteSetsExt

CONSTANTS PartyMembers, Inhabitants,
          Marks,        \* markers of minibosses on each floor of a dungeon
          Seeds,        \* what the generator of numbers may draw
          Quota,        \* how many minibosses a dungeon has
          MaxTreasure,  \* of its node
          Pots,        \* secret rooms of a floor with something in them
          Brood,        \* NPCDeathSpawnMaxGeneration of a modifier
          Awaited,      \* npcs with a DeathAttack, which is read after the party is counted
          Scenes,       \* who plays and joins, what the floor is about, and how often
          None

ASSUME PeopleAssumption ==
  /\ Marks \in Seq(Nat) /\ Marks # << >> /\ Seeds \in Nat \ {0} /\ {Quota, MaxTreasure, Brood} \subseteq Nat
  /\ Awaited \subseteq Inhabitants
  /\ \A s \in Scenes : s.roster \cup s.joins \cup s.pets \subseteq PartyMembers /\ s.npcs \subseteq Inhabitants /\ s.pots \subseteq Pots /\ {s.calls, s.floors} \subseteq Nat

VARIABLES scene, level, peopleStage,
          draws, read, stock,         \* of the seed; plan.minibossMarkers; minibosses on each floor so far
          owed, looking, putDown, crowded,  \* treasuresOwed, who found it above zero, how many were laid out
          roster, joiner,              \* who is live, and who was counted in but is not
          who, size, generation,      \* where each npc is, the party it is for, how it was called
          uneven,                     \* who came or went while an npc or a hero was on the way
          heroOf,
          pets, pet,                  \* actors with an owner, and owner.petDoid
          resting, coming, returns,   \* petRespawnTimer, spawnEquippedPet under way, respawnPet
          built,                      \* of whom the floor has his pet: not yet, asked, there
          calls                       \* pets that came so far

stockVars == <<draws, read, stock>>
roomVars  == <<owed, looking, putDown, crowded>>
partyVars == <<roster, joiner, who, size, generation, uneven>>
petVars   == <<heroOf, pets, pet, resting, coming, returns, built, calls>>
peopleVars == <<scene, level, peopleStage, stockVars, roomVars, partyVars, petVars>>

SumOf(S, F(_)) == FoldSet(LAMBDA x, total : F(x) + total, 0, S)
Floors == DOMAIN Marks
NoReading == [f \in Floors |-> 0]

PeopleInit ==
  /\ scene \in Scenes /\ level = 1 /\ peopleStage = "building"
  /\ draws \in [1..Quota -> 0..Seeds - 1] /\ read = None /\ stock = [f \in Floors |-> 0]
  /\ owed = MaxTreasure /\ looking = {} /\ putDown = 0 /\ crowded = FALSE
  /\ roster = scene.roster /\ joiner = None
  /\ who = [n \in Inhabitants |-> "out"] /\ size = [n \in Inhabitants |-> 0] /\ generation = [n \in Inhabitants |-> 0] /\ uneven = FALSE
  /\ heroOf = [m \in PartyMembers |-> "up"] /\ pets = {} /\ pet = [m \in PartyMembers |-> 0]
  /\ resting = {} /\ coming = [m \in PartyMembers |-> 0] /\ returns = {} /\ calls = 0
  /\ built = [m \in PartyMembers |-> "no"]

-----------------------------------------------------------------------------
(* The minibosses of a dungeon are dealt to the markers of its floors.     *)

\* minibossShareFor: read once in a run; a floor that cannot be read has no markers
ReadsMarkers ==
  /\ read = None /\ peopleStage = "building"
  /\ \E missed \in SUBSET Floors : read' = [f \in Floors |-> IF f \in missed THEN 0 ELSE Marks[f]]
  /\ UNCHANGED <<scene, level, peopleStage, draws, stock, roomVars, partyVars, petVars>>
Before(f) == SumOf({g \in Floors : g < f}, LAMBDA g : read[g])
\* Mutant of Dealt: the markers of the floors before are not counted
FromTheFirst(f) == LET all == SumOf(Floors, LAMBDA g : read[g]) IN Cardinality({q \in 1..Quota : (draws[q] * all) \div Seeds < read[f]})
\* minibossesForFloor: by the seed alone, each floor for itself
Dealt(f) ==
  LET all == SumOf(Floors, LAMBDA g : read[g]) IN
  Cardinality({q \in 1..Quota : LET at == (draws[q] * all) \div Seeds IN Before(f) <= at /\ at < Before(f) + read[f]})
\* stockFloor, placeAround: fewer, where there is no room for a body
IsStocked ==
  /\ peopleStage = "building" /\ read # None /\ scene.floors > 1
  /\ stock' = [stock EXCEPT ![level] = Dealt(level)] /\ peopleStage' = "stocked"
  /\ UNCHANGED <<scene, level, draws, read, roomVars, partyVars, petVars>>
HasNoStock ==
  /\ peopleStage = "building" /\ scene.floors = 1 /\ peopleStage' = "stocked"
  /\ UNCHANGED <<scene, level, stockVars, roomVars, partyVars, petVars>>

-----------------------------------------------------------------------------
(* Treasures: the placeholders of a floor and of its secret rooms.         *)

\* rewardForPlacement: is any owed, and then which is it
Looks(room) ==
  /\ room \in scene.pots /\ room \notin looking /\ peopleStage \in {"stocked", "settled"} /\ owed > 0 /\ putDown < MaxTreasure + 1
  /\ looking' = looking \cup {room} /\ crowded' = (crowded \/ looking # {})
  /\ UNCHANGED <<scene, level, peopleStage, stockVars, owed, putDown, partyVars, petVars>>
\* Mutant of Remains: the same treasures are owed at each placeholder
StillOwed == owed
Remains == owed - 1
IsPutDown(room) ==
  /\ room \in looking /\ looking' = looking \ {room} /\ owed' = Remains /\ putDown' = putDown + 1
  /\ UNCHANGED <<scene, level, peopleStage, stockVars, crowded, partyVars, petVars>>

-----------------------------------------------------------------------------
(* The size of the party.                                                  *)

Upright == Cardinality(roster)
Made == {n \in Inhabitants : who[n] = "up"}
OnTheWay == {n \in Inhabitants : who[n] = "sized"}
\* rescaleNpcHealthForParty: whoever is made
Rescaled(heroes) == [n \in Inhabitants |-> IF n \in Made THEN heroes ELSE size[n]]
\* spawnNpc: the party is counted, and the actor is set at once or after another await
IsAsked(n, gen) == who' = [who EXCEPT ![n] = IF n \in Awaited THEN "sized" ELSE "up"] /\ size' = [size EXCEPT ![n] = Upright]
                   /\ generation' = [generation EXCEPT ![n] = gen] /\ uneven' = (uneven \/ joiner # None)
Stands(n) ==
  /\ n \in scene.npcs /\ who[n] = "out" /\ peopleStage \in {"stocked", "settled"} /\ IsAsked(n, 0)
  /\ UNCHANGED <<scene, level, peopleStage, stockVars, roomVars, roster, joiner, petVars>>
IsMade(n) ==
  /\ who[n] = "sized" /\ who' = [who EXCEPT ![n] = "up"]
  /\ UNCHANGED <<scene, level, peopleStage, stockVars, roomVars, roster, joiner, size, generation, uneven, petVars>>
\* spawnInfiniteModifierActors: on a hit or a death, up to a generation
Calls(n) ==
  /\ who[n] = "up" /\ generation[n] < Brood
  /\ \E c \in scene.npcs : who[c] = "out" /\ IsAsked(c, generation[n] + 1)
  /\ UNCHANGED <<scene, level, peopleStage, stockVars, roomVars, roster, joiner, petVars>>
\* joinDungeonMatchLocked: for the size there will be, and the hero is waited for
IsCountedIn(m) ==
  /\ m \in scene.joins \ roster /\ joiner = None /\ peopleStage = "settled" /\ roster # {}
  /\ size' = Rescaled(Upright + 1) /\ joiner' = m /\ uneven' = (OnTheWay # {})
  /\ UNCHANGED <<scene, level, peopleStage, stockVars, roomVars, roster, who, generation, petVars>>
IsLive ==
  /\ joiner # None /\ roster' = roster \cup {joiner} /\ joiner' = None
  /\ UNCHANGED <<scene, level, peopleStage, stockVars, roomVars, who, size, generation, uneven, petVars>>
\* Mutant of LeftBehind: who stays fights what was made for all
AsBefore(m) == size
LeftBehind(m) == Rescaled(Cardinality(roster \ {m}))
\* leaveDungeonSession, of a member or of one who does not get in; his pet goes with him
StepsOut(m) ==
  /\ m \in roster \cup {joiner} /\ roster \ {m} # {} /\ peopleStage = "settled"
  /\ roster' = roster \ {m} /\ joiner' = IF joiner = m THEN None ELSE joiner
  /\ size' = LeftBehind(m) /\ uneven' = (OnTheWay # {} \/ joiner' # None)
  /\ resting' = resting \ {m} /\ pets' = {p \in pets : p.id # pet[m]} /\ pet' = [pet EXCEPT ![m] = 0]
  /\ UNCHANGED <<scene, level, peopleStage, stockVars, roomVars, who, generation, heroOf, coming, returns, built, calls>>

-----------------------------------------------------------------------------
(* Pets.                                                                   *)

HasPet(m) == m \in scene.pets
\* spawnEquippedPet, as far as its first await; a RespawnT is called off
Asked(m) == coming' = [coming EXCEPT ![m] = @ + 1] /\ resting' = resting \ {m}
\* buildFloorWorld
PetIsBuilt(m) ==
  /\ peopleStage = "stocked" /\ m \in roster /\ HasPet(m) /\ built[m] = "no" /\ calls + coming[m] < scene.calls
  /\ Asked(m) /\ built' = [built EXCEPT ![m] = "asked"]
  /\ UNCHANGED <<scene, level, peopleStage, stockVars, roomVars, partyVars, heroOf, pets, pet, returns, calls>>
\* The one the builder waits for, or another
PetArrives(m) ==
  /\ coming[m] > 0 /\ coming' = [coming EXCEPT ![m] = @ - 1]
  /\ \/ built[m] = "asked" /\ built' = [built EXCEPT ![m] = "there"]
     \/ (built[m] = "asked" => coming[m] > 1) /\ UNCHANGED built
  /\ calls' = calls + 1 /\ pets' = pets \cup {[id |-> calls + 1, of |-> m]} /\ pet' = [pet EXCEPT ![m] = calls + 1]
  /\ returns' = returns \cup {m}
  /\ UNCHANGED <<scene, level, peopleStage, stockVars, roomVars, partyVars, heroOf, resting>>
\* onDeath
PetDies(p) ==
  /\ p \in pets /\ pets' = pets \ {p} /\ resting' = resting \cup {p.of}
  /\ pet' = IF pet[p.of] = p.id THEN [pet EXCEPT ![p.of] = 0] ELSE pet
  /\ UNCHANGED <<scene, level, peopleStage, stockVars, roomVars, partyVars, heroOf, coming, returns, built, calls>>
PetHasRested(m) ==
  /\ m \in resting /\ calls + coming[m] < scene.calls /\ Asked(m)
  /\ UNCHANGED <<scene, level, peopleStage, stockVars, roomVars, partyVars, heroOf, pets, pet, returns, built, calls>>
\* petGoesDownWith
HeroFalls(m) ==
  /\ m \in roster /\ HasPet(m) /\ heroOf[m] = "up" /\ peopleStage \in {"stocked", "settled"} /\ heroOf' = [heroOf EXCEPT ![m] = "down"]
  /\ resting' = resting \ {m} /\ pets' = {p \in pets : p.id # pet[m]} /\ pet' = [pet EXCEPT ![m] = 0]
  /\ UNCHANGED <<scene, level, peopleStage, stockVars, roomVars, partyVars, coming, returns, built, calls>>
\* Mutant of ComesBack: a pet returns in its own time
InItsOwnTime(m) == FALSE
\* petComesBackWith
ComesBack(m) == pet[m] = 0 /\ m \in returns
GetsUp(m) ==
  /\ m \in roster /\ heroOf[m] = "down" /\ heroOf' = [heroOf EXCEPT ![m] = "up"] /\ calls + coming[m] < scene.calls
  /\ IF ComesBack(m) THEN Asked(m) ELSE UNCHANGED <<coming, resting>>
  /\ UNCHANGED <<scene, level, peopleStage, stockVars, roomVars, partyVars, pets, pet, returns, built, calls>>

-----------------------------------------------------------------------------
(* Floors.                                                                 *)

SettlesIn ==
  /\ peopleStage = "stocked" /\ \A m \in roster : HasPet(m) => built[m] = "there"
  /\ peopleStage' = "settled" /\ UNCHANGED <<scene, level, stockVars, roomVars, partyVars, petVars>>
\* clearFloorRuntime
PeopleGo ==
  /\ peopleStage = "settled" /\ level < scene.floors /\ peopleStage' = "moving"
  /\ resting' = {} /\ pet' = [m \in PartyMembers |-> IF m \in roster THEN 0 ELSE pet[m]]
  /\ UNCHANGED <<scene, level, stockVars, roomVars, partyVars, heroOf, pets, coming, returns, built, calls>>
\* advanceFloor, buildPartyHeroes: the actors are cleared, and every hero stands
Peoples ==
  /\ peopleStage = "moving" /\ peopleStage' = "building" /\ level' = level + 1
  /\ who' = [n \in Inhabitants |-> IF who[n] = "up" THEN "out" ELSE who[n]] /\ pets' = {} /\ heroOf' = [m \in PartyMembers |-> "up"]
  /\ built' = [m \in PartyMembers |-> "no"]
  /\ UNCHANGED <<scene, stockVars, roomVars, roster, joiner, size, generation, uneven, pet, resting, coming, returns, calls>>

PeopleNext ==
  \/ ReadsMarkers \/ IsStocked \/ HasNoStock \/ IsLive \/ SettlesIn \/ PeopleGo \/ Peoples
  \/ \E room \in Pots : Looks(room) \/ IsPutDown(room)
  \/ \E n \in Inhabitants : Stands(n) \/ IsMade(n) \/ Calls(n)
  \/ \E m \in PartyMembers : IsCountedIn(m) \/ StepsOut(m) \/ PetIsBuilt(m) \/ PetArrives(m) \/ PetHasRested(m) \/ HeroFalls(m) \/ GetsUp(m)
  \/ \E p \in pets : PetDies(p)
PeopleSpec == PeopleInit /\ [][PeopleNext]_peopleVars

-----------------------------------------------------------------------------

PeopleTypeOK ==
  /\ scene \in Scenes /\ level \in 1..scene.floors /\ peopleStage \in {"building", "stocked", "settled", "moving"}
  /\ stock \in [Floors -> 0..Quota] /\ looking \subseteq Pots /\ owed \in Int /\ putDown \in Nat
  /\ roster \subseteq PartyMembers /\ joiner \in PartyMembers \cup {None}
  /\ who \in [Inhabitants -> {"out", "sized", "up"}] /\ size \in [Inhabitants -> 0..Cardinality(PartyMembers)] /\ generation \in [Inhabitants -> 0..Brood]
  /\ \A p \in pets : p.id \in 1..calls /\ p.of \in PartyMembers
  /\ pet \in [PartyMembers -> 0..calls] /\ coming \in [PartyMembers -> Nat] /\ resting \subseteq PartyMembers

\* The floors of a dungeon share its minibosses: no more than its quota of them, and all once every floor
\* is stocked, whichever markers could be read (population.js minibossesForFloor).
QuotaIsShared ==
  LET all == SumOf(Floors, LAMBDA f : stock[f]) IN
  /\ all <= Quota
  /\ level = Len(Marks) /\ peopleStage = "stocked" /\ scene.floors = Len(Marks) /\ read # NoReading => all = Quota

\* No more treasures than the node owes, unless two builders looked at once (floor-collectables.js
\* rewardForPlacement); what was not laid out is still owed.
TreasuresAreOwed == (crowded \/ putDown <= MaxTreasure) /\ putDown + owed = MaxTreasure

\* An npc is as strong as the party wants it, whoever comes and goes, unless somebody did so while an npc
\* or another hero was on the way (floor-population.js rescaleNpcHealthForParty).
NpcsFitTheParty == ~uneven => \A n \in Made : size[n] = Upright + (IF joiner = None THEN 0 ELSE 1)

\* On a floor that is built, a hero who stands has his pet, or it is resting, or it is on its way
\* (floor-population.js petComesBackWith).
PetsAreNotForgotten ==
  peopleStage = "settled" =>
    \A m \in roster \cap scene.pets : heroOf[m] = "up" => (\E p \in pets : p.of = m /\ p.id = pet[m]) \/ m \in resting \/ coming[m] > 0

\* Does not hold: "so he never has two" (floor-population.js 143).  A hero who falls and rises while his
\* pet is on its way back has one more on its way, and the first is forgotten by him when the second comes.
HeNeverHasTwo == \A m \in PartyMembers : Cardinality({p \in pets : p.of = m}) <= 1

\* Does not hold: every live npc has the size of the party that there will be when a joiner is activated
\* (match-runtime.js 274).  Who leaves while the joiner's client builds the floor has everybody rescaled
\* to the party without him, and an npc that is made meanwhile does not count him either.
NpcsAlwaysFit == joiner = None => \A n \in Made : size[n] = Upright
=============================================================================
