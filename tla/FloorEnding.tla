---------------------------- MODULE FloorEnding ----------------------------
(***************************************************************************)
(* How a floor ends, and with the last one the run: floorstate.js, the     *)
(* exit of floor-exit.js, the report of summary.js and the revives of      *)
(* revive.js.                                                              *)
(*                                                                         *)
(* A floor is finished by its exit, by its own trigger or by its last      *)
(* enemy; it is failed by the countdown that runs while the party is down, *)
(* by a trigger or, where no revives are allowed, by the last fall; and a  *)
(* mode wins or loses the run outright, or holds its floors and ends them  *)
(* itself.  All of them share two flags and three timers.  A step is one   *)
(* turn of the thread; revives and floor changes await something and take  *)
(* several, and a floor change may fail in any of them: the failure is     *)
(* logged and nothing tries again.                                         *)
(***************************************************************************)
EXTENDS Naturals, FiniteSets

CONSTANTS Party,       \* the members of the run
          LastFloor,   \* floorCount
          MaxFoes,     \* bound: enemies of a floor that hold it
          MaxBombs     \* bound: the bombs an account has

ASSUME FloorAssumption == {LastFloor, MaxFoes} \subseteq Nat \ {0} /\ MaxBombs \in Nat

VARIABLES
  fl,        \* the floor and the run: flags, timers, what was told and reported
  heroOf,    \* each member's hero: "up", "down", "off" the floor, or "left" the run
  bombs,     \* account_stackables
  bombing,   \* the self revives under way: "idle", "spends", "blasts" (and whom it raises)
  settledOf  \* accountSettled

floorVars == <<fl, heroOf, bombs, bombing, settledOf>>

NewFloor(n, kind) ==
  [floor |-> n, foes |-> MaxFoes, exits |-> kind.exits, authored |-> kind.authored]
Kinds(n) == {k \in [exits : BOOLEAN, authored : BOOLEAN] : n < LastFloor => k.exits}

Outcomes == {"none", "won", "lost"}
\* `next` is an advance waiting its turn, and of the one under way `change` says how far it is:
\* "stopped" is one that failed before the heroes stood on the new floor, "halfBuilt" after.
\* `failing`, `victory` and `report` are the timers of those names; `quick` is whether
\* victoryDelayMs is 0, and `hasty` whether it was when the victory was set
FloorStates ==
  [at : [floor : 1..LastFloor, foes : 0..MaxFoes, exits : BOOLEAN, authored : BOOLEAN],
   revives : BOOLEAN, finished : BOOLEAN, cleared : BOOLEAN, transition : BOOLEAN,
   failing : BOOLEAN, victory : BOOLEAN, quick : BOOLEAN, hasty : BOOLEAN, byLastFoe : BOOLEAN,
   next : BOOLEAN, change : {"none", "loading", "building", "filling", "stopped", "halfBuilt"},
   summary : Outcomes, told : Outcomes, report : Outcomes, paid : SUBSET Party]
FloorTypeOK ==
  /\ fl \in FloorStates
  /\ heroOf \in [Party -> {"up", "down", "off", "left"}] /\ bombs \in [Party -> 0..MaxBombs]
  /\ bombing \in [Party -> {"idle", "spends", "raises", "raisesAll"}]
  /\ settledOf \subseteq Party

FloorInit ==
  /\ \E k \in Kinds(1), r \in BOOLEAN :
       fl = [at |-> NewFloor(1, k), revives |-> r, finished |-> FALSE, cleared |-> FALSE,
             transition |-> FALSE, failing |-> FALSE, victory |-> FALSE,
             quick |-> FALSE, hasty |-> FALSE, byLastFoe |-> FALSE, next |-> FALSE, change |-> "none",
             summary |-> "none", told |-> "none", report |-> "none", paid |-> {}]
  /\ heroOf = [m \in Party |-> "up"]
  /\ bombs \in [Party -> 0..MaxBombs]
  /\ bombing = [m \in Party |-> "idle"]
  /\ settledOf = {}

Present == {m \in Party : heroOf[m] # "left"}
Active(f) == f.report = "none" /\ Present # {}    \* dungeonActive

-----------------------------------------------------------------------------
(* The parts of floorstate.js, each from a state of the floor to the next. *)

EveryPlayerDown(h) == \A m \in Party : h[m] # "up"
AnyPlayerPresent(h) == \E m \in Party : h[m] \in {"up", "down"}

\* Mutant of Scheduled: the report that was on its way still comes first
Unreplaced(f, outcome) == IF f.summary = "none" THEN [f EXCEPT !.summary = outcome] ELSE f
\* scheduleDungeonSummary: the last one called replaces what was scheduled
Scheduled(f, outcome) == [f EXCEPT !.summary = outcome]

\* buildDungeonEnding, and the report some seconds later
Told(f, outcome) == Scheduled([f EXCEPT !.told = outcome], outcome)

ReportFloorFailed(f) ==
  IF f.cleared THEN f ELSE Told([f EXCEPT !.failing = FALSE, !.cleared = TRUE], "lost")

BeginFloorFailing(f, h) ==
  IF f.failing \/ f.cleared \/ ~EveryPlayerDown(h) THEN f
  ELSE IF ~f.revives THEN ReportFloorFailed(f)
  ELSE [f EXCEPT !.failing = TRUE]

CancelFloorFailing(f) == [f EXCEPT !.failing = FALSE]

RefreshFloorFailing(f, h) ==
  IF f.failing THEN (IF EveryPlayerDown(h) THEN f ELSE CancelFloorFailing(f))
  ELSE IF AnyPlayerPresent(h) THEN BeginFloorFailing(f, h) ELSE f

\* On to the next floor, or on the last one the victory after its delay; `held` is whether a mode's
\* floorCompleting refuses, as a ranked lobby's does until its race is on and a decided race's
CompleteFloor(f, byFoe, held) ==
  IF f.finished \/ held THEN f
  ELSE IF f.at.floor < LastFloor THEN [f EXCEPT !.finished = TRUE, !.next = TRUE]
  ELSE [f EXCEPT !.finished = TRUE, !.victory = TRUE, !.hasty = f.quick, !.byLastFoe = byFoe]

\* What a floor with exits, or with an ending of its own, does not leave to the last kill
CheckFloorCleared(f, held) ==
  IF f.cleared \/ f.at.foes > 0 THEN f
  ELSE LET c == CancelFloorFailing([f EXCEPT !.cleared = TRUE])
       IN IF f.at.exits \/ f.at.authored THEN c ELSE CompleteFloor(c, TRUE, held)

Playing == Active(fl)
Quiet == UNCHANGED <<bombs, bombing, settledOf>>

-----------------------------------------------------------------------------
(* What happens on a floor.                                                *)

FoeFalls ==
  /\ Playing /\ fl.at.foes > 0
  /\ \E held \in BOOLEAN : fl' = CheckFloorCleared([fl EXCEPT !.at.foes = @ - 1], held)
  /\ UNCHANGED heroOf /\ Quiet

\* combat.js: a hero at no hit points
HeroFalls(m) ==
  /\ Playing /\ heroOf[m] = "up"
  /\ heroOf' = [heroOf EXCEPT ![m] = "down"]
  /\ fl' = BeginFloorFailing(fl, heroOf')
  /\ Quiet

\* checkFloorExit: nothing is asked but the way there; on the last floor every hero goes
ReachesFloorExit(m) ==
  /\ Playing /\ heroOf[m] = "up" /\ fl.at.exits /\ ~fl.transition
  /\ heroOf' = IF fl.at.floor < LastFloor THEN heroOf
               ELSE [v \in Party |-> IF heroOf[v] = "left" THEN "left" ELSE "off"]
  /\ \E held \in BOOLEAN :
       fl' = CompleteFloor([fl EXCEPT !.transition = TRUE, !.quick = TRUE], FALSE, held)
  /\ Quiet

\* While the floor's triggers run: FLOOR_COMPLETION_IMMEDIATE and FLOOR_COMPLETE_TRIGGERABLE, of which
\* nothing comes where a mode holds the floor; FLOOR_FAILURE_TRIGGERABLE
FloorDecides ==
  /\ Playing /\ fl.at.authored /\ fl.change \in {"none", "filling", "halfBuilt"}
  /\ fl' \in {IF fl.finished THEN fl ELSE CompleteFloor([fl EXCEPT !.quick = TRUE], FALSE, FALSE),
              ReportFloorFailed(fl)}
  /\ UNCHANGED heroOf /\ Quiet

\* reportRunWon and reportRunLost
ModeDecides ==
  /\ Active(fl) /\ ~fl.finished
  /\ fl' \in {Told([CancelFloorFailing(fl) EXCEPT !.finished = TRUE, !.cleared = TRUE], "won"),
              ReportFloorFailed([fl EXCEPT !.finished = TRUE, !.cleared = FALSE])}
  /\ UNCHANGED heroOf /\ Quiet

\* endFloor: a mode lets go of a floor and ends it
ModeEndsFloor ==
  /\ Active(fl) /\ ~fl.finished
  /\ fl' = CompleteFloor(fl, FALSE, FALSE)
  /\ UNCHANGED heroOf /\ Quiet

\* handleProposeRevive: somebody up raises somebody down
RescuesAlly(m, v) ==
  /\ Playing /\ fl.revives /\ heroOf[m] = "up" /\ heroOf[v] = "down"
  /\ heroOf' = [heroOf EXCEPT ![v] = "up"]
  /\ fl' = CancelFloorFailing(fl)
  /\ Quiet

-----------------------------------------------------------------------------
(* A bomb: spent, waited for, then raising whoever is still there.         *)

ProposesSelfRevive(m) ==
  /\ Playing /\ fl.revives /\ bombing[m] = "idle" /\ heroOf[m] \in {"up", "down"}
  /\ bombing' = [bombing EXCEPT ![m] = "spends"]
  /\ UNCHANGED <<fl, heroOf, bombs, settledOf>>

\* Mutant of SpendsBomb: the bag is not looked at
SpendsAnyBomb(m) ==
  /\ bombing[m] = "spends" /\ bombs' = [bombs EXCEPT ![m] = @ - 1]
  /\ \E blast \in {"raises", "raisesAll"} : bombing' = [bombing EXCEPT ![m] = blast]
  /\ UNCHANGED <<fl, heroOf, settledOf>>
\* spendBomb; without one it is refused
SpendsBomb(m) ==
  /\ bombing[m] = "spends"
  /\ IF bombs[m] = 0
     THEN bombing' = [bombing EXCEPT ![m] = "idle"] /\ UNCHANGED bombs
     ELSE /\ bombs' = [bombs EXCEPT ![m] = @ - 1]
          /\ \E blast \in {"raises", "raisesAll"} : bombing' = [bombing EXCEPT ![m] = blast]
  /\ UNCHANGED <<fl, heroOf, settledOf>>

\* detonate has been waited for
BombRaises(m) ==
  /\ bombing[m] \in {"raises", "raisesAll"}
  /\ bombing' = [bombing EXCEPT ![m] = "idle"]
  /\ heroOf' = [v \in Party |->
       IF (v = m \/ bombing[m] = "raisesAll") /\ heroOf[v] = "down" THEN "up" ELSE heroOf[v]]
  /\ fl' = IF Active(fl) THEN CancelFloorFailing(fl) ELSE fl
  /\ UNCHANGED <<bombs, settledOf>>

-----------------------------------------------------------------------------
(* The three timers.                                                       *)

CountdownEnds ==
  /\ Active(fl) /\ fl.failing
  /\ fl' = ReportFloorFailed([fl EXCEPT !.failing = FALSE])
  /\ UNCHANGED heroOf /\ Quiet

VictoryComes ==
  /\ Active(fl) /\ fl.victory
  /\ fl' = Told([fl EXCEPT !.victory = FALSE], "won")
  /\ UNCHANGED heroOf /\ Quiet

\* Mutant of Settles: only the first of the party is written down
SettlesOne(ms) == settledOf' = settledOf \cup {CHOOSE m \in ms : TRUE}
\* settleDungeonAccount, once each
SettlesFloor(ms) == settledOf' = settledOf \cup ms

\* sendDungeonSummary: pays a win, settles every account, takes the heroes off the floor and
\* with the world's quiesce every timer
SummaryComes ==
  /\ Active(fl) /\ fl.summary # "none"
  /\ fl' = [fl EXCEPT !.report = fl.summary, !.summary = "none", !.failing = FALSE,
                      !.victory = FALSE, !.paid = IF fl.summary = "won" THEN Present ELSE {}]
  /\ heroOf' = [m \in Party |-> IF heroOf[m] = "left" THEN "left" ELSE "off"]
  /\ SettlesFloor(Present)
  /\ UNCHANGED <<bombs, bombing>>

-----------------------------------------------------------------------------
(* On to the next floor: advanceFloorUnlocked up to its first wait, up to  *)
(* the new floor, and buildFloorWorld up to its first wait and to its end. *)

AdvanceStarts ==
  /\ Active(fl) /\ fl.next /\ fl.change \in {"none", "halfBuilt"}
  /\ fl' = [fl EXCEPT !.next = FALSE, !.change = "loading", !.failing = FALSE]
  /\ UNCHANGED heroOf /\ Quiet

\* Its enemies are still to come, and its exits are looked up last of all
FloorIsLoaded ==
  /\ Active(fl) /\ fl.change = "loading"
  /\ \E k \in Kinds(fl.at.floor + 1) :
       fl' = [fl EXCEPT !.change = "building", !.cleared = FALSE, !.at.floor = @ + 1, !.at.foes = 0,
                        !.at.authored = k.authored]
  /\ heroOf' = [m \in Party |-> IF heroOf[m] = "left" THEN "left" ELSE "off"]
  /\ Quiet

\* buildPartyHeroes: everybody stands; the floor can be played, and finished, before it is whole
FloorIsPeopled ==
  /\ Active(fl) /\ fl.change = "building"
  /\ \E n \in 0..MaxFoes : fl' = [fl EXCEPT !.change = "filling", !.finished = FALSE, !.at.foes = n]
  /\ heroOf' = [m \in Party |-> IF heroOf[m] = "left" THEN "left" ELSE "up"]
  /\ Quiet

FloorIsBuilt ==
  /\ Active(fl) /\ fl.change = "filling"
  /\ \E k \in Kinds(fl.at.floor), n \in fl.at.foes..MaxFoes :
       fl' = [fl EXCEPT !.change = "none", !.transition = FALSE, !.at.foes = n, !.at.exits = k.exits]
  /\ UNCHANGED heroOf /\ Quiet

\* A throw in any part of it, as of a floor file that cannot be read, is only logged
FloorChangeFails ==
  /\ Active(fl) /\ fl.change \in {"loading", "building", "filling"}
  /\ fl' = [fl EXCEPT !.change = IF @ = "filling" THEN "halfBuilt" ELSE "stopped"]
  /\ UNCHANGED heroOf /\ Quiet

\* leaveDungeonSession: settled on the way, and the others are looked at; the last one out
\* takes the world along
LeavesFloor(m) ==
  /\ heroOf[m] # "left"
  /\ heroOf' = [heroOf EXCEPT ![m] = "left"]
  /\ SettlesFloor({m})
  /\ fl' = IF Present = {m}
           THEN [fl EXCEPT !.failing = FALSE, !.victory = FALSE, !.summary = "none"]
           ELSE IF Active(fl) THEN RefreshFloorFailing(fl, heroOf') ELSE fl
  /\ UNCHANGED <<bombs, bombing>>

FloorTimers == CountdownEnds \/ VictoryComes \/ SummaryComes
FloorChange == AdvanceStarts \/ FloorIsLoaded \/ FloorIsPeopled \/ FloorIsBuilt
FloorNext ==
  \/ FoeFalls \/ FloorDecides \/ ModeDecides \/ ModeEndsFloor
  \/ FloorTimers \/ FloorChange \/ FloorChangeFails
  \/ \E m \in Party :
       \/ HeroFalls(m) \/ ReachesFloorExit(m) \/ LeavesFloor(m)
       \/ ProposesSelfRevive(m) \/ SpendsBomb(m) \/ BombRaises(m)
       \/ \E v \in Party : RescuesAlly(m, v)

FloorSpec == FloorInit /\ [][FloorNext]_floorVars

\* Timers fire and floors are loaded or fail to; players, enemies and modes may do nothing
FloorFairness ==
  /\ WF_floorVars(VictoryComes) /\ WF_floorVars(SummaryComes) /\ WF_floorVars(CountdownEnds)
  /\ WF_floorVars(FloorChange)

-----------------------------------------------------------------------------
(* Properties.                                                             *)

\* One report, and it says what the client was last told the ending is, though a defeat may
\* be announced while a victory is on its way and the other way round; only a win is paid,
\* and nobody it was reported to is left unsettled.
ReportIsAsTold ==
  fl.report # "none" => /\ fl.report = fl.told
                        /\ fl.paid # {} => fl.report = "won"
                        /\ Party \subseteq settledOf

\* A finished floor leads on: to the next floor, or to the report; unless that floor could not be
\* loaded or begun, for one that failed later can be finished and led on from.
FinishedFloorsLeadOn ==
  (fl.finished /\ Active(fl)) ~> (~fl.finished \/ ~Active(fl) \/ fl.change = "stopped")

\* Without the exception: a failed advance leaves the party on a finished floor for good, so no run
\* checks it.
EveryFinishedFloorLeadsOn == (fl.finished /\ Active(fl)) ~> (~fl.finished \/ ~Active(fl))

\* "The countdown runs exactly while nobody is up" (floorstate.js).
CountdownOnlyWhileDown == (fl.failing /\ Playing) => EveryPlayerDown(heroOf)

\* The delay of a floor that ends with its last enemy is there "so the loot still has a
\* moment to be walked over" (floorstate.js).
LootHasAMoment == (fl.victory /\ fl.byLastFoe) => ~fl.hasty
=============================================================================
