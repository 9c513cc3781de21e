------------------------------- MODULE Hazards -------------------------------
(***************************************************************************)
(* The traps of a floor that bite who stands in them (hazards.js,          *)
(* trap-attacks.js): laid while the floor is built (floor-triggerables.js),*)
(* switched by their wires (triggers.js), watched by one clock, and found  *)
(* their victims by a grid of who stands where.  A bomb goes off once.     *)
(*                                                                         *)
(* The floor is a line, on which everybody and every trap has a spot.      *)
(***************************************************************************)
EXTENDS Integers, FiniteSets

CONSTANTS Bombs,     \* contact bombs
          Zones,     \* traps that bite as long as one stands in them
          Wired,     \* those with an input
          Bodies,
          Spots,     \* where bodies may stand
          TrapSpot, TrapReach, \* of a trap: where it is, how far it reaches
          Width,     \* of a body
          Cell,      \* HAZARD_ACTOR_CELL
          MaxChanges \* bound: moves, falls and signals

Traps == Bombs \cup Zones
ASSUME HazardsAssumption ==
  /\ Spots \subseteq Int /\ Cell \in Nat \ {0} /\ Width \in Nat /\ MaxChanges \in Nat
  /\ TrapSpot \in [Traps -> Int] /\ TrapReach \in [Traps -> Nat] /\ Bombs \cap Zones = {} /\ Wired \subseteq Traps

VARIABLES
  stage,    \* of the floor: building, settled, left
  lasts,    \* whether a blast has a timeline to show
  wire,     \* what the wires say
  laid,     \* by trap: no, being made, yes
  resting,  \* by trap: what its wires said as it was begun
  missed,   \* traps whose wires changed while they were made
  hazardBeats, contactZones, contactTimer,
  spent,    \* bombs gone off
  retiring, \* those whose blast is still shown
  gone,     \* those taken off the floor
  blasts,
  cooling,  \* who was bitten by which zone within its AttackTimer
  stands,   \* by body: its spot, whether it is up
  index,    \* hazardVictimIndex: whether it is of this moment, the list it was made from, its cells
  changes

hazardVars == <<stage, lasts, wire, laid, resting, missed, hazardBeats, contactZones, contactTimer, spent, retiring,
                gone, blasts, cooling, stands, index, changes>>
wireVars == <<wire, resting, missed>>
zoneVars == <<hazardBeats, contactZones, contactTimer>>
bombVars == <<spent, retiring, gone, blasts>>

-----------------------------------------------------------------------------
(* The grid.                                                               *)

CellsBetween(a, b) == (a \div Cell)..(b \div Cell)
AllCells == CellsBetween((CHOOSE s \in Spots : \A t \in Spots : s <= t) - Width,
                         (CHOOSE s \in Spots : \A t \in Spots : s >= t) + Width)
\* The walk admits who is not dead
ListOf(where) == [b \in {c \in Bodies : where[c].up} |-> where[b].at]
\* Mutant of GridOf: a body is in the cell of its middle
MiddlesOf(list) == [c \in AllCells |-> {b \in DOMAIN list : c = list[b] \div Cell}]
\* gridOf: a body is in every cell it reaches into
GridOf(list) == [c \in AllCells |-> {b \in DOMAIN list : c \in CellsBetween(list[b] - Width, list[b] + Width)}]

\* hazardVictimIndex: kept for the moment, and its cells for as long as the walk writes the same list
IndexNow ==
  IF index.fresh THEN index
  ELSE LET list == ListOf(stands) IN
       [fresh |-> TRUE, list |-> list, cells |-> IF index.list = list THEN index.cells ELSE GridOf(list)]
\* hazardCandidateDoids
Candidates(i, t) ==
  UNION {i.cells[c] : c \in CellsBetween(TrapSpot[t] - TrapReach[t], TrapSpot[t] + TrapReach[t]) \cap AllCells}
\* circleHitsCollider
Overlaps(t, spot) == spot - TrapSpot[t] \in -(TrapReach[t] + Width)..(TrapReach[t] + Width)
\* hazardVictims: of the candidates, who is up and in it where he is now
Standers(i, t) == {b \in Candidates(i, t) : stands[b].up /\ Overlaps(t, stands[b].at)}

HazardInit ==
  /\ stage = "building" /\ lasts \in BOOLEAN
  /\ wire \in {[t \in Traps |-> t \notin Wired \/ on] : on \in BOOLEAN}
  /\ laid = [t \in Traps |-> "no"] /\ resting = [t \in Traps |-> FALSE] /\ missed = {}
  /\ hazardBeats = {} /\ contactZones = {} /\ contactTimer = FALSE
  /\ spent = {} /\ retiring = {} /\ gone = {} /\ blasts = [b \in Bombs |-> 0] /\ cooling = {}
  /\ stands = [b \in Bodies |-> [at |-> CHOOSE s \in Spots : \A t \in Spots : s >= t, up |-> TRUE]]
  /\ index = [fresh |-> FALSE, list |-> <<>>, cells |-> [c \in AllCells |-> {}]]
  /\ changes = 0

-----------------------------------------------------------------------------
(* Raised and lowered.                                                     *)

\* raiseHazard, holdZone: once, and the one clock runs
RaisedWith(t) ==
  IF t \in hazardBeats THEN UNCHANGED zoneVars
  ELSE /\ hazardBeats' = hazardBeats \cup {t} /\ contactZones' = contactZones \cup {t} /\ contactTimer' = TRUE
\* Mutant of ClockAfter: any zone that stops stops the clock
StopsTheClock(left) == FALSE
\* ... which stops with the last zone
ClockAfter(left) == contactTimer /\ left # {}
\* stopHazardBeat
Lowered(ts) ==
  /\ hazardBeats' = hazardBeats \ ts /\ contactZones' = contactZones \ ts
  /\ contactTimer' = IF ts \cap hazardBeats = {} THEN contactTimer ELSE ClockAfter(contactZones \ ts)

\* buildTriggerables, up to its spawn: what its wires say is looked up
TrapBegun(t) ==
  /\ stage = "building" /\ laid[t] = "no" /\ \A u \in Traps : laid[u] # "making"
  /\ laid' = [laid EXCEPT ![t] = "making"] /\ resting' = [resting EXCEPT ![t] = wire[t]]
  /\ UNCHANGED <<stage, lasts, wire, missed, zoneVars, bombVars, cooling, stands, index, changes>>
\* ... and from its spawn on
TrapLaid(t) ==
  /\ stage = "building" /\ laid[t] = "making" /\ laid' = [laid EXCEPT ![t] = "yes"]
  /\ IF resting[t] THEN RaisedWith(t) ELSE UNCHANGED zoneVars
  /\ UNCHANGED <<stage, lasts, wireVars, bombVars, cooling, stands, index, changes>>
Settles ==
  /\ stage = "building" /\ \A t \in Traps : laid[t] = "yes" /\ stage' = "settled"
  /\ UNCHANGED <<lasts, wireVars, laid, zoneVars, bombVars, cooling, stands, index, changes>>

\* applyTargetState of a trap: one that is not there yet hears nothing
WireTurns(t) ==
  /\ stage # "left" /\ t \in Wired /\ changes < MaxChanges /\ changes' = changes + 1
  /\ wire' = [wire EXCEPT ![t] = ~@]
  /\ IF laid[t] # "yes" THEN UNCHANGED zoneVars ELSE IF wire[t] THEN Lowered({t}) ELSE RaisedWith(t)
  /\ missed' = IF laid[t] = "making" THEN missed \cup {t} ELSE missed
  /\ UNCHANGED <<stage, lasts, laid, resting, bombVars, cooling, stands, index>>

-----------------------------------------------------------------------------
(* The clock.                                                              *)

\* Mutant of Trips: that it went off before is not asked
TripsAgain(i, b) == stage = "settled" /\ Standers(i, b) # {}
\* touch, of a bomb: not before the floor stands, and not again
Trips(i, b) == b \notin spent /\ stage = "settled" /\ Standers(i, b) # {}
\* One beat of the clock over every zone
ContactTick ==
  /\ contactTimer /\ stage # "left"
  /\ LET i == IndexNow
         off == {b \in Bombs \cap contactZones : Trips(i, b)}
     IN /\ index' = i
        /\ spent' = spent \cup off /\ blasts' = [b \in Bombs |-> IF b \in off /\ blasts[b] < 2 THEN blasts[b] + 1 ELSE blasts[b]]
        /\ retiring' = IF lasts THEN retiring \cup off ELSE retiring
        /\ gone' = IF lasts THEN gone ELSE gone \cup off
        /\ cooling' = cooling \cup {<<z, b>> \in (Zones \cap contactZones) \X Bodies : b \in Standers(i, z)}
        /\ Lowered(off)
  /\ UNCHANGED <<stage, lasts, wireVars, laid, stands, changes>>
\* retireSpentBomb, when its blast has been shown
Retires(b) ==
  /\ b \in retiring /\ retiring' = retiring \ {b} /\ gone' = gone \cup {b}
  /\ UNCHANGED <<stage, lasts, wireVars, laid, zoneVars, spent, blasts, cooling, stands, index, changes>>
\* AttackTimer has passed for one who was bitten
Cools(c) ==
  /\ c \in cooling /\ cooling' = cooling \ {c}
  /\ UNCHANGED <<stage, lasts, wireVars, laid, zoneVars, bombVars, stands, index, changes>>

-----------------------------------------------------------------------------
(* Around them.                                                            *)

\* Another moment: an index asked for is made anew
TimePasses ==
  /\ index.fresh /\ index' = [index EXCEPT !.fresh = FALSE]
  /\ UNCHANGED <<stage, lasts, wireVars, laid, zoneVars, bombVars, cooling, stands, changes>>
BodyMoves(b, s) ==
  /\ stage # "left" /\ changes < MaxChanges /\ changes' = changes + 1 /\ s # stands[b].at
  /\ stands' = [stands EXCEPT ![b].at = s]
  /\ UNCHANGED <<stage, lasts, wireVars, laid, zoneVars, bombVars, cooling, index>>
BodyFallsOrRises(b) ==
  /\ stage # "left" /\ changes < MaxChanges /\ changes' = changes + 1
  /\ stands' = [stands EXCEPT ![b].up = ~@]
  /\ UNCHANGED <<stage, lasts, wireVars, laid, zoneVars, bombVars, cooling, index>>
\* clearHazardBeats; the floor's scope goes with its timers and objects
FloorIsLeft ==
  /\ stage # "left" /\ stage' = "left"
  /\ hazardBeats' = {} /\ contactZones' = {} /\ contactTimer' = FALSE /\ retiring' = {} /\ gone' = Bombs
  /\ index' = [index EXCEPT !.fresh = FALSE, !.list = <<>>, !.cells = [c \in AllCells |-> {}]]
  /\ UNCHANGED <<lasts, wireVars, laid, spent, blasts, cooling, stands, changes>>

HazardNext ==
  \/ \E t \in Traps : TrapBegun(t) \/ TrapLaid(t) \/ WireTurns(t)
  \/ Settles \/ ContactTick \/ (\E b \in Bombs : Retires(b)) \/ (\E c \in Zones \X Bodies : Cools(c))
  \/ TimePasses \/ FloorIsLeft
  \/ \E b \in Bodies : BodyFallsOrRises(b) \/ \E s \in Spots : BodyMoves(b, s)
HazardSpec == HazardInit /\ [][HazardNext]_hazardVars

-----------------------------------------------------------------------------
(* Properties.                                                             *)

HazardTypeOK ==
  /\ stage \in {"building", "settled", "left"} /\ laid \in [Traps -> {"no", "making", "yes"}]
  /\ hazardBeats \subseteq Traps /\ contactZones \subseteq Traps /\ contactTimer \in BOOLEAN
  /\ blasts \in [Bombs -> 0..2] /\ gone \subseteq Bombs

\* Traps come and go, one clock watches them: it runs exactly while there is one to watch.
ContactIsWatched == contactTimer <=> contactZones # {}

\* A trap is up exactly while its wires say so: but for a bomb gone off, and for one whose wires
\* turned while it was being made.
TrapsFollowTheirWires ==
  \A t \in Traps \ (spent \cup missed) :
    stage # "left" /\ laid[t] = "yes" => (t \in hazardBeats <=> wire[t])

\* However it is switched, a bomb goes off once, and does not go before that.
BombsGoOffOnce == \A b \in Bombs : blasts[b] <= 1 /\ (b \in gone \cup retiring /\ stage # "left" => blasts[b] = 1)

\* The grid hides nobody from a trap: who stands in one is among its candidates, as long as nobody
\* has moved, risen or fallen since the index of this moment was made.
NobodyIsOverlooked ==
  index.list = ListOf(stands) =>
    \A t \in Traps : {b \in Bodies : stands[b].up /\ Overlaps(t, stands[b].at)} \subseteq Candidates(index, t)
=============================================================================
