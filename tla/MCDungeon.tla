---- MODULE MCDungeon ----
(* Bounds for a dungeon and what is earned in it: who enters and leaves its      *)
(* world, the chests of its report, and its saves (two stays with one account).   *)
EXTENDS RunSaves, Treasures, WorldJoin, TLC

CONSTANTS first, next, m1, m2

TwoMembers == {first, next}
Pair == {m1, m2}

VARIABLE part   \* the component a behaviour is of: they meet only where one of them says so
allVars == <<part, vars, treasureVars, worldVars>>

AllInit ==
  /\ part \in {"saves", "treasures", "joins"}
  /\ Init /\ TreasureInit /\ WorldInit
AllNext ==
  \/ part = "saves" /\ Next /\ UNCHANGED <<part, treasureVars, worldVars>>
  \/ part = "treasures" /\ TreasureNext /\ UNCHANGED <<part, vars, worldVars>>
  \/ part = "joins" /\ WorldNext /\ UNCHANGED <<part, vars, treasureVars>>
AllSpec ==
  /\ AllInit /\ [][AllNext]_allVars
  /\ WF_vars(part = "saves" /\ WriteEnds) /\ WF_vars(part = "saves" /\ RetryFires)
  /\ /\ WF_treasureVars(part = "treasures" /\ SettleEnds)
     /\ \A s \in Slots4 : WF_treasureVars(part = "treasures" /\ (ChestComes(s) \/ WeaponComes(s)))
  /\ \A m \in Joiners : WF_worldVars(part = "joins" /\ OperationStep(m))

\* The saves, the chests, the world and its floors keep to their types.
DungeonTypeOK == TypeOK /\ TreasureTypeOK /\ WorldTypeOK
\* Unless two operations crossed the account adds up, and each request is its claim's.
TreasuresAddUp == OnlyCrossedOperationsLose /\ TreasureInv
\* Who joins a world is seen by all who are there, and goes on by answers of its own to this entry.
JoinersSeeTheWorld == EveryoneIsSeen /\ WorldInv
\* Everything about a run comes to an end: an account whose stay is over is let go, a server that stops
\* stops trying to save, a request of the report is answered, and an entry is through or given up.
DungeonsEnd == AccountIsLetGo /\ StoppingEnds /\ ReportAnswers /\ EntriesEnd
=============================================================================
