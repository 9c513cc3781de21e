------------------------------- MODULE NpcTurns -------------------------------
(***************************************************************************)
(* One enemy of a floor that teleports: how it is made (npc-spawn.js), its *)
(* turns (ai.js, npc-targeting.js, npc-act.js, behaviours/teleport.js) and *)
(* the frames of its swings (npc-swings.js).                               *)
(*                                                                         *)
(* A turn is taken on every tick, whether or not the swing of an earlier   *)
(* one is still being looked up.  Distances are classes, clocks are due or *)
(* not.                                                                    *)
(***************************************************************************)
EXTENDS Integers, FiniteSets

CONSTANTS Victims,   \* the heroes
          NoVictim,
          Rich,      \* whether its row says that it dies by an attack, ends with one, comes out of a cage
          MaxSwings, \* bound: swings
          MaxEvents  \* bound: what the heroes and the floor do

ASSUME NpcTurnsAssumption == Rich \subseteq BOOLEAN /\ {MaxSwings, MaxEvents} \subseteq Nat /\ NoVictim \notin Victims

VARIABLES
  making,    \* spawnNpc under way: the step, and the floor it is for
  floor,     \* the floor that is on
  npc,       \* whether it is among the actors, its floor, whether it dies by an attack, is in a cage
  ai,        \* engaged, target, teleport phase, whether that phase's clock has run out
  ready,     \* whether its next swing is due, neither locked in one nor stopped by a buff
  shown,     \* whether the clients have the object
  heroes,    \* by hero: how far, and whether he stands
  turn,      \* by tick: the swing it waits for, and how far that is
  frames,    \* timers of swings: the frames of a shape, and the end of one that ends with it
  kept,      \* the swing whose timers hazardBeats can call off
  swings, events

npcVars == <<making, floor, npc, ai, ready, shown, heroes, turn, frames, kept, swings, events>>
swingVars == <<frames, kept, swings>>

Ticks == {1, 2}
Reach == 1
Far == 2
NoTurn == [swing |-> 0, at |-> "none", victim |-> NoVictim]
Asleep == [engaged |-> FALSE, target |-> NoVictim, phase |-> "visible", started |-> FALSE, due |-> TRUE]
Hidden == ai.phase = "hidden"

NpcInit ==
  /\ making = [at |-> "none", floor |-> 0] /\ floor = 1
  /\ \E kind \in Rich : npc = [here |-> FALSE, floor |-> 0, blast |-> kind, bomber |-> kind, caged |-> kind]
  /\ ai = Asleep /\ ready = TRUE /\ shown = FALSE
  /\ heroes = [h \in Victims |-> [far |-> Far, stands |-> TRUE]]
  /\ turn = [t \in Ticks |-> NoTurn]
  /\ frames = {} /\ kept = 0 /\ swings = 0 /\ events = 0

CountsOne == events < MaxEvents /\ events' = events + 1

-----------------------------------------------------------------------------
(* Making it.                                                              *)

\* spawnNpc looks up its row and its attacks while its floor is on
SpawnAsked ==
  /\ making.at = "none" /\ ~npc.here /\ npc.floor = 0 /\ making' = [at |-> "rows", floor |-> floor]
  /\ UNCHANGED <<floor, npc, ai, ready, shown, heroes, turn, swingVars, events>>
\* The last look at whether its floor is still on
SpawnLooks ==
  /\ making.at = "rows"
  /\ making' = IF making.floor = floor THEN [making EXCEPT !.at = "looked"] ELSE [at |-> "given up", floor |-> 0]
  /\ UNCHANGED <<floor, npc, ai, ready, shown, heroes, turn, swingVars, events>>
\* What it dies by is looked up after that, in a row that has one
MayBeLate == npc.blast
SpawnMakes(engaged) ==
  /\ making.at = "looked" /\ (making.floor = floor \/ MayBeLate)
  /\ making' = [at |-> "made", floor |-> 0]
  /\ npc' = [npc EXCEPT !.here = TRUE, !.floor = making.floor] /\ shown' = TRUE
  /\ ai' = [Asleep EXCEPT !.engaged = engaged]
  /\ UNCHANGED <<floor, ready, heroes, turn, swingVars, events>>
\* without one, the look and the making are one step
SpawnGivesUp ==
  /\ making.at = "looked" /\ making.floor # floor /\ ~MayBeLate /\ making' = [at |-> "given up", floor |-> 0]
  /\ UNCHANGED <<floor, npc, ai, ready, shown, heroes, turn, swingVars, events>>

-----------------------------------------------------------------------------
(* Its turn.                                                               *)

Standing == {h \in Victims : heroes[h].stands}
Nearest == {h \in Standing : \A g \in Standing : heroes[h].far <= heroes[g].far}

\* standDown: it is there again, whatever of its cycle was under way
StoodDown(a) == [a EXCEPT !.phase = "visible", !.started = FALSE]
\* Mutant of LetGo: what is hidden stays so
ForgetsOnly == [Asleep EXCEPT !.phase = ai.phase, !.due = ai.due, !.started = ai.started]
\* letGo: clearNpcTarget, and standDown
LetGo == StoodDown([ai EXCEPT !.engaged = FALSE, !.target = NoVictim])
LetsGoOfTarget == ai' = LetGo /\ shown' = (LetGo.phase # "hidden") /\ UNCHANGED ready

\* teleportAttacked
Attacked(a) == IF a.phase = "attack-moment" THEN [a EXCEPT !.phase = "post-attack", !.due = FALSE] ELSE a
\* notice
Notices(h) == IF ai.engaged THEN "holds" ELSE IF heroes[h].far = Far THEN "idle" ELSE "noticed"
\* the end of a cage: it lets go of its target
Released == [ai EXCEPT !.engaged = FALSE, !.target = NoVictim]

\* hide
HidesNow(a) == ai' = [a EXCEPT !.phase = "hidden", !.due = FALSE, !.started = TRUE] /\ shown' = FALSE
\* comeBack: its next swing is due when its time before an attack is over
ComesBackNow(a) ==
  /\ ai' = [a EXCEPT !.phase = "visible", !.due = FALSE, !.started = TRUE] /\ shown' = TRUE
  /\ ready' = FALSE

\* act
Swings(h) ==
  heroes[h].far = Reach /\ ready
MaySwing == swings < MaxSwings
ActsOn(t, h, a) ==
  LET at == IF a.phase = "visible" /\ a.due THEN [a EXCEPT !.phase = "attack-moment"] ELSE a IN
  IF Swings(h) /\ MaySwing
  THEN /\ swings' = swings + 1 /\ ai' = at
       /\ turn' = [turn EXCEPT ![t] = [swing |-> swings + 1, at |-> "looks up", victim |-> h]]
       /\ ready' = FALSE
       /\ UNCHANGED shown
  ELSE /\ (Swings(h) => MaySwing) /\ ai' = Attacked(at)
       /\ UNCHANGED <<shown, ready, turn, swings>>

\* teleportTurn, then the rest of the turn
Teleports(t, h, a) ==
  IF ~a.started THEN HidesNow(a) /\ UNCHANGED <<ready, turn, swings>>
  ELSE CASE a.phase = "post-attack" ->
              /\ ai' = IF a.due THEN [a EXCEPT !.phase = "teleport-out", !.due = FALSE] ELSE a
              /\ UNCHANGED <<shown, ready, turn, swings>>
         [] a.phase = "teleport-out" ->
              IF a.due THEN HidesNow(a) /\ UNCHANGED <<ready, turn, swings>>
              ELSE ai' = a /\ UNCHANGED <<shown, ready, turn, swings>>
         [] OTHER -> ActsOn(t, h, a)

\* tickActor, of one who is not held by a hit; another tick may wait for its swing meanwhile
TurnBegins(t) ==
  /\ turn[t] = NoTurn /\ npc.here
  /\ UNCHANGED <<making, floor, heroes, frames, kept, events>>
  /\ IF npc.caged
     THEN /\ npc' = [npc EXCEPT !.caged = FALSE] /\ ai' = Released
          /\ UNCHANGED <<shown, ready, turn, swings>>
     ELSE /\ UNCHANGED npc
          /\ IF Standing = {} \/ (ai.engaged /\ ai.target # NoVictim /\ ai.target \notin Standing)
             THEN LetsGoOfTarget /\ UNCHANGED <<turn, swings>>
             ELSE \E h \in Nearest \cup Standing :
                    /\ IF ai.engaged /\ ai.target # NoVictim THEN h = ai.target ELSE h \in Nearest
                    /\ LET a == [ai EXCEPT !.target = h] IN
                       CASE Notices(h) = "idle" -> ai' = a /\ UNCHANGED <<shown, ready, turn, swings>>
                         [] Notices(h) = "holds" /\ heroes[h].far = Far -> LetsGoOfTarget /\ UNCHANGED <<turn, swings>>
                         [] Hidden -> IF a.due THEN ComesBackNow(a) /\ UNCHANGED <<turn, swings>>
                                      ELSE ai' = a /\ UNCHANGED <<shown, ready, turn, swings>>
                         [] OTHER -> Teleports(t, h, [a EXCEPT !.engaged = TRUE])

\* performNpcAttack: the attack is there, its frames are set
SwingSent(t) ==
  /\ turn[t].at = "looks up" /\ turn' = [turn EXCEPT ![t].at = "sent"]
  /\ frames' = frames \cup {[swing |-> turn[t].swing, frame |-> 1]}
  /\ UNCHANGED <<making, floor, npc, ai, ready, shown, heroes, kept, swings, events>>

\* Mutant of CalledOff: the swing before this one goes on
NoneCalledOff(n) == {}
CalledOff(n) == {f \in frames : f.swing = kept}
\* its end is set, the swing before it called off; and the turn is over
SwingKept(t) ==
  /\ turn[t].at = "sent" /\ turn' = [turn EXCEPT ![t] = NoTurn]
  /\ frames' = (frames \ CalledOff(turn[t].swing))
                 \cup (IF npc.bomber THEN {[swing |-> turn[t].swing, frame |-> 0]} ELSE {})
  /\ kept' = turn[t].swing /\ ai' = Attacked(ai)
  /\ UNCHANGED <<making, floor, npc, ready, shown, heroes, swings, events>>

-----------------------------------------------------------------------------
(* The frames of a swing.                                                  *)

\* It is taken away: applyDamage, or the suicide of its attack
DiesNow ==
  /\ npc' = [npc EXCEPT !.here = FALSE] /\ shown' = FALSE

\* dealNpcHit, when it is more than he has
Fells(h) == heroes' = [heroes EXCEPT ![h].stands = FALSE]
\* landNpcSwing: it deals its hit by whoever is there, to one within reach
FrameLands(f) ==
  /\ f.frame = 1 /\ frames' = frames \ {f}
  /\ \/ heroes' = heroes
     \/ \E h \in Standing : npc.here /\ heroes[h].far = Reach /\ Fells(h)
  /\ UNCHANGED <<making, floor, npc, ai, ready, shown, turn, kept, swings, events>>
\* the end that comes with the attack, which what is hidden does not meet
EndsWithIt(f) ==
  /\ f.frame = 0 /\ frames' = frames \ {f}
  /\ IF npc.here /\ ~Hidden THEN DiesNow ELSE UNCHANGED <<npc, shown>>
  /\ UNCHANGED <<making, floor, ai, ready, heroes, turn, kept, swings, events>>

-----------------------------------------------------------------------------
(* Around it.                                                              *)

\* A hit: what is hidden takes none, and who sleeps is woken by it (wakeOnHit)
HitBy(h, dies) ==
  /\ npc.here /\ ~Hidden /\ CountsOne
  /\ IF dies THEN DiesNow /\ UNCHANGED ai
     ELSE ai' = (IF ai.engaged THEN ai ELSE [ai EXCEPT !.engaged = TRUE, !.target = h]) /\ UNCHANGED <<npc, shown>>
  /\ UNCHANGED <<making, floor, ready, heroes, turn, swingVars>>
HeroMoves(h, far) ==
  /\ CountsOne /\ far # heroes[h].far /\ heroes' = [heroes EXCEPT ![h].far = far]
  /\ UNCHANGED <<making, floor, npc, ai, ready, shown, turn, swingVars>>
HeroRisesOrFalls(h) ==
  /\ CountsOne /\ heroes' = [heroes EXCEPT ![h].stands = ~@]
  /\ UNCHANGED <<making, floor, npc, ai, ready, shown, turn, swingVars>>
\* The next floor: its scope and its actors go
FloorPasses ==
  /\ floor = 1 /\ floor' = 2
  /\ npc' = [npc EXCEPT !.here = FALSE] /\ shown' = FALSE /\ frames' = {} /\ kept' = 0
  /\ UNCHANGED <<making, ai, ready, heroes, turn, swings, events>>

\* Its clocks run out
PhaseIsDue ==
  /\ npc.here /\ ~ai.due /\ ai' = [ai EXCEPT !.due = TRUE]
  /\ UNCHANGED <<making, floor, npc, ready, shown, heroes, turn, swingVars, events>>
SwingIsDue ==
  /\ npc.here /\ ~ready /\ ready' = TRUE
  /\ UNCHANGED <<making, floor, npc, ai, shown, heroes, turn, swingVars, events>>
NpcNext ==
  \/ SpawnAsked \/ SpawnLooks \/ SpawnGivesUp \/ \E engaged \in BOOLEAN : SpawnMakes(engaged)
  \/ \E t \in Ticks : TurnBegins(t) \/ SwingSent(t) \/ SwingKept(t)
  \/ \E f \in frames : FrameLands(f) \/ EndsWithIt(f)
  \/ \E h \in Victims : HeroRisesOrFalls(h) \/ (\E dies \in BOOLEAN : HitBy(h, dies))
                                            \/ (\E far \in Reach..Far : HeroMoves(h, far))
  \/ FloorPasses \/ PhaseIsDue \/ SwingIsDue
NpcFairness ==
  /\ WF_npcVars(\E t \in Ticks : TurnBegins(t)) /\ WF_npcVars(PhaseIsDue)
NpcSpec == NpcInit /\ [][NpcNext]_npcVars /\ NpcFairness

-----------------------------------------------------------------------------
(* Properties.                                                             *)

NpcTypeOK ==
  /\ making.at \in {"none", "rows", "looked", "made", "given up"} /\ floor \in 1..2
  /\ ai.target \in Victims \cup {NoVictim}
  /\ ai.phase \in {"visible", "attack-moment", "post-attack", "teleport-out", "hidden"}
  /\ \A t \in Ticks : turn[t].at \in {"none", "looks up", "sent"}
  /\ kept \in 0..MaxSwings /\ swings \in 0..MaxSwings

\* Whatever turns overlap, an enemy is on the clients exactly while it is there and not hidden, and
\* what is hidden has somebody to come back to.
SeenAsItIs ==
  /\ shown <=> npc.here /\ ~Hidden
  /\ npc.here /\ Hidden => ai.engaged /\ ai.target # NoVictim

\* One swing is under way: what is set of an earlier one is called off, but for one that another
\* turn is still setting.
OneSwingAtATime == \A f \in frames : f.swing = kept \/ \E t \in Ticks : turn[t].swing = f.swing

\* What was being made when its floor ended is not on the next, but for what dies by an attack,
\* whose rows are looked up after the last look at the floor.
FloorsKeepTheirOwn == npc.here /\ npc.floor # floor => npc.blast

\* What is hidden comes back, as long as its turns are taken.
HiddenComesBack == npc.here /\ Hidden ~> ~(npc.here /\ Hidden)
=============================================================================
