---- MODULE MCFights ----
(* Bounds for what fights on a floor: blows and buffs, an NPC's turns, what is  *)
(* thrown and placed, traps; and how a floor and a run end.                                                  *)
EXTENDS Blows, NpcTurns, Placeables, Hazards, RouteCaches, FloorEnding, TLC

CONSTANTS h1, h2, bomb, zone, gate, crate

PlaceOf == bomb :> 1 @@ zone :> -2
FloorLine == {-3, -1, 3, 5}
ReachOf == bomb :> 1 @@ zone :> 1
Shape == gate :> [on |-> {20, 22}, off |-> {}] @@ crate :> [on |-> {31}, off |-> {33}]

VARIABLE part   \* the component a behaviour is of: they meet only where one of them says so
allVars == <<part, blowVars, npcVars, placeVars, hazardVars, routeVars, floorVars>>

AllInit ==
  /\ part \in {"blows", "npc", "placed", "traps", "routes", "ending"}
  /\ BlowInit /\ NpcInit /\ PlaceInit /\ HazardInit /\ RouteInit /\ FloorInit
  /\ part # "npc" => npc.blast
  /\ part # "placed" => ~placesChecked /\ kind = "tower"
  /\ part # "traps" => lasts /\ \A t \in Traps : wire[t]
  /\ part # "blows" => castsChecked
  /\ castsChecked = lingers   \* two settings that have nothing to do with each other
  /\ bombs = h1 :> MaxBombs @@ h2 :> 0   \* one member has bombs, the other none
  /\ fl.revives = fl.at.authored   \* on the first floor; every later one has every kind
  /\ part # "ending" => fl.at = NewFloor(1, CHOOSE k \in Kinds(1) : TRUE)
AllNext ==
  \/ part = "blows" /\ BlowNext /\ UNCHANGED <<part, npcVars, placeVars, hazardVars, routeVars, floorVars>>
  \/ part = "npc" /\ NpcNext /\ UNCHANGED <<part, blowVars, placeVars, hazardVars, routeVars, floorVars>>
  \/ part = "placed" /\ PlaceNext /\ UNCHANGED <<part, blowVars, npcVars, hazardVars, routeVars, floorVars>>
  \/ part = "traps" /\ HazardNext /\ UNCHANGED <<part, blowVars, npcVars, placeVars, routeVars, floorVars>>
  \/ part = "routes" /\ RouteNext /\ UNCHANGED <<part, blowVars, npcVars, placeVars, hazardVars, floorVars>>
  \/ part = "ending" /\ FloorNext /\ UNCHANGED <<part, blowVars, npcVars, placeVars, hazardVars, routeVars>>
AllSpec ==
  /\ AllInit /\ [][AllNext]_allVars
  /\ /\ WF_npcVars(part = "npc" /\ \E t \in Ticks : TurnBegins(t)) /\ WF_npcVars(part = "npc" /\ PhaseIsDue)
  /\ /\ WF_placeVars(part = "placed" /\ \E t \in {"life", "suicide"} : Expires(t)) /\ WF_placeVars(part = "placed" /\ ExpiryEnds) /\ WF_placeVars(part = "placed" /\ TakesAway)
     /\ WF_placeVars(part = "placed" /\ \E c \in Calls : NotSetOff(c) \/ TickEnds(c))
  /\ /\ WF_floorVars(part = "ending" /\ VictoryComes) /\ WF_floorVars(part = "ending" /\ SummaryComes) /\ WF_floorVars(part = "ending" /\ CountdownEnds)
     /\ WF_floorVars(part = "ending" /\ FloorChange)

\* Blows, NPCs, placeables, traps and floors keep to their types.
FightTypeOK == BlowTypeOK /\ NpcTypeOK /\ PlaceTypeOK /\ HazardTypeOK /\ RouteTypeOK /\ FloorTypeOK
\* What strikes strikes as often as it may: a hero is credited what he took, an NPC swings once at a
\* time and for the floor it is on, what was thrown lands and goes off once, and so does a bomb.
StrikesAreCounted == CreditIsWhatWasTaken /\ OneSwingAtATime /\ FloorsKeepTheirOwn /\ GoesOffOnce /\ LandingsWereThrown /\ BombsGoOffOnce
\* What is there is noticed: an NPC is shown as it is, nothing haunts a floor but what was shot down
\* as it was made, a trap in reach of a body is watched and follows its wires, and nobody is overlooked.
\* What is remembered of the way is so, and nothing is walked into.
WhatIsThereIsNoticed == SeenAsItIs /\ OnlyGhostsHaunt /\ ContactIsWatched /\ TrapsFollowTheirWires /\ NobodyIsOverlooked
  /\ IndexIsTheFloor /\ CachesTellTheTruth /\ RoutesAreOfThisFloor /\ NothingIsWalkedInto
\* Nothing stays for ever: a hidden NPC comes back, what was placed goes, and a finished floor
\* leads on.
FightsGoOn == HiddenComesBack /\ PlacedThingsGo /\ FinishedFloorsLeadOn
=============================================================================
