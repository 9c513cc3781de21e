------------------------------ MODULE TrapShots ------------------------------
(***************************************************************************)
(* Traps that shoot and swing (hazards.js, trap-attacks.js): statues that  *)
(* turn to the nearest hero, nozzles that fire along their corridor, maces *)
(* that strike frame after frame, barrels that burst, and what heroes      *)
(* throw; how they are put on the floor (floor-triggerables.js) and        *)
(* switched (triggers.js).  What waits to be stood in is Hazards.          *)
(*                                                                         *)
(* The floor is a corridor, a shot flies along it to either side, and rock *)
(* is where the middle of a shot cannot be.  The awaits of a hit are of    *)
(* what is in memory already: a tick of the flights ends before the next.  *)
(***************************************************************************)
EXTENDS Integers, Sequences, FiniteSets, SequencesExt

CONSTANTS Row,      \* by trap: what its rows of the game data say
          Muzzle, Ahead, \* of a trap: where its shots leave, which way it was authored
          FrameReach, \* of a swing: by frame, what it strikes
          Roll,     \* the bodies in the order they were made
          BodyKind, \* hero, monster, barrel, pillar
          Team,     \* of a body
          Place,    \* where those stand that do not walk
          Spots, Rock, ShotRadius, Speed, ThrowRange, BurstReach, Elapsed, Health,
          NoTarget,
          MaxShots, MaxThrows, MaxChanges \* bounds: in flight at once, thrown, moved and switched

Traps == DOMAIN Row
Bodies == DOMAIN BodyKind
ShotHeroes == {b \in Bodies : BodyKind[b] = "hero"}
ASSUME ShotsAssumption ==
  /\ Range(Roll) = Bodies /\ Len(Roll) = Cardinality(Bodies) /\ Health \in Nat \ {0} /\ Speed \in Nat \ {0}
  /\ Elapsed \subseteq Nat \ {0} /\ ShotRadius \in Nat /\ NoTarget \notin Bodies /\ Rock \subseteq Int /\ Spots \subseteq Int

VARIABLES
  trapStage, \* running, left
  mounted,   \* the traps there are
  wire,      \* what the wires say
  drawn,     \* the trigger states the clients were told
  raised,    \* hazardBeats: the traps that are running
  facing,    \* by trap: -1 or 1
  frames,    \* by swing: the frames still to come
  bursts,    \* barrels broken whose blast is still to come, and where
  body,      \* by body: where, and how many hit points
  shots,     \* activeTrapProjectiles
  ends,      \* what became of each shot in the last tick
  thrown, landed, \* counts: throws, and what they put down
  changes

shotVars == <<trapStage, mounted, wire, drawn, raised, facing, frames, bursts, body, shots, ends, thrown, landed, changes>>
trapVars == <<mounted, wire, drawn, raised, facing, frames>>
throwVars == <<thrown, landed>>

-----------------------------------------------------------------------------
(* What a trap is.                                                         *)

\* classifyHazard
BurnsOnContact(r) == r.enemy /\ ~r.mover /\ r.instant /\ r.attack
ContactBomb(r) == ~r.mover /\ r.attack /\ ~r.instant
TogglesRenderer(r) == r.attack /\ (~r.projectile \/ r.turns) /\ ~r.always /\ ~ContactBomb(r)

Launchers == {t \in Traps : Row[t].projectile}
Statues == {t \in Launchers : Row[t].turns}
Swings == Traps \ Launchers

\* restingTriggerState
Resting(t) ==
  LET wiredBomb == ContactBomb(Row[t]) /\ Row[t].wired
  IN /\ ~Row[t].unlit
     /\ \/ wiredBomb /\ wire[t]
        \/ ~wiredBomb /\ Row[t].attack /\ ~TogglesRenderer(Row[t])
        \/ ~wiredBomb /\ TogglesRenderer(Row[t]) /\ wire[t]
\* Mutant of ArrivesRaised: that it rests high is not asked
AlwaysUp(t) == Row[t].always \/ BurnsOnContact(Row[t]) \/ (Row[t].turns /\ ~Row[t].inert) \/ TogglesRenderer(Row[t])
\* buildTriggerables: whether a trap is up as it is put down
ArrivesRaised(t) ==
  /\ Row[t].attack
  /\ \/ Row[t].always \/ BurnsOnContact(Row[t]) \/ (Row[t].turns /\ ~Row[t].inert)
     \/ ContactBomb(Row[t]) /\ (~Row[t].wired \/ Resting(t))
     \/ TogglesRenderer(Row[t]) /\ Resting(t)

-----------------------------------------------------------------------------
(* Aiming.                                                                 *)

Apart(a, b) == IF a < b THEN b - a ELSE a - b
\* trapProjectileReach: a statue's shots go half as far
ReachOf(t) == IF Row[t].turns THEN Row[t].range \div 2 ELSE Row[t].range
\* Mutant of WithinReach: what the data says
WithinAuthored(t, spot) == Apart(Muzzle[t], spot) <= Row[t].range
WithinReach(t, spot) == Apart(Muzzle[t], spot) <= ReachOf(t)
\* turretTarget: of the heroes up and in reach, the nearest
AimsAt(t) == {h \in ShotHeroes : body[h].hp > 0 /\ WithinReach(t, body[h].at)}
TargetOf(t) ==
  IF AimsAt(t) = {} THEN NoTarget
  ELSE CHOOSE h \in AimsAt(t) : \A g \in AimsAt(t) : Apart(Muzzle[t], body[h].at) <= Apart(Muzzle[t], body[g].at)
\* aimTurret
FacingNow(t) ==
  IF t \notin Statues \/ TargetOf(t) = NoTarget THEN facing[t] ELSE IF body[TargetOf(t)].at >= Muzzle[t] THEN 1 ELSE -1

\* launchTrapProjectile, launchCarrierProjectile
Shot(by, from, way, range, ignores, aim) ==
  [by |-> by, at |-> from, dir |-> way, far |-> 0, range |-> range, ignores |-> ignores, aim |-> aim, steady |-> TRUE]
\* raiseHazard and its beat: a statue fires only at somebody, and turns to him before
Shoots(t) ==
  /\ facing' = [facing EXCEPT ![t] = FacingNow(t)]
  /\ IF t \in Statues /\ TargetOf(t) = NoTarget THEN UNCHANGED shots
     ELSE /\ Len(shots) < MaxShots
          /\ shots' = Append(shots, Shot(t, Muzzle[t], FacingNow(t), ReachOf(t), Row[t].ignores,
                                         IF t \in Statues THEN TargetOf(t) ELSE NoTarget))

-----------------------------------------------------------------------------
(* Hits.                                                                   *)

\* applyTrapHit, and onDeathAttack of what it broke
Hurt(st, victims) ==
  [st EXCEPT !.body = [b \in Bodies |-> IF b \in victims /\ st.body[b].hp > 0 THEN [st.body[b] EXCEPT !.hp = @ - 1] ELSE st.body[b]],
             !.bursts = @ \cup {[of |-> b, at |-> st.body[b].at] : b \in {v \in victims : BodyKind[v] = "barrel" /\ st.body[v].hp = 1}}]
\* teamAllowsHit: a barrel that bursts has no side
Against(team, b) == team = NoTarget \/ team # Team[b]
\* reachablePosition of an area: neither who is down nor what nothing may attack
Caught(bodies, team, where) == {b \in Bodies : bodies[b].hp > 0 /\ BodyKind[b] # "pillar" /\ Against(team, b) /\ bodies[b].at \in where}
Struck(victims) ==
  LET st == Hurt([body |-> body, bursts |-> bursts], victims) IN body' = st.body /\ bursts' = st.bursts

\* shotTargets: whom a shot may meet by its side; what is thrown meets everybody
OnItsList(shot, b) == shot.by \in Traps => Against(Row[shot.by].team, b)
\* reachablePosition and the test of a shot: the fallen hero is in the way too, and so is a pillar
InTheWay(bodies, shot, b) ==
  /\ bodies[b].hp > 0 \/ BodyKind[b] = "hero"
  /\ b # shot.by /\ ~(shot.ignores /\ BodyKind[b] = "pillar") /\ OnItsList(shot, b)
Between(a, b) == IF a <= b THEN a..b ELSE b..a
\* segmentHitsCircle
Grown(a, b) == {s \in Spots : \E p \in Between(a, b) : Apart(p, s) <= ShotRadius}
\* Mutant of Touched: only where the shot is now
TouchedThere(st, shot, next) == {b \in Bodies : InTheWay(st.body, shot, b) /\ st.body[b].at \in Grown(next, next)}
\* firstTrapVictim's test
Touched(st, shot, next) == {b \in Bodies : InTheWay(st.body, shot, b) /\ st.body[b].at \in Grown(shot.at, next)}
\* ... and its answer: whoever was made first
FirstOf(victims) == Roll[CHOOSE i \in DOMAIN Roll : Roll[i] \in victims /\ \A j \in 1..(i - 1) : Roll[j] \notin victims]

\* Mutant of SweptFrom: every sweep begins ahead of the shot
AlwaysAhead(shot) == shot.at + shot.dir * ShotRadius
\* A shot may leave the rock it is mounted against, once
SweptFrom(shot) == IF shot.far = 0 THEN shot.at + shot.dir * ShotRadius ELSE shot.at
\* hasLineOfSight: every point but the first, the last in any case
Samples(from, next) == (Between(from, next) \ {from}) \cup {next}

\* Mutant of PutDown: not where it met somebody
PutDownOpen(st, shot, how) == IF shot.by \in Traps \/ how = "struck" THEN st.landed ELSE st.landed + 1
\* What is carried is put down wherever the flight ends
PutDown(st, shot, how) == IF shot.by \in Traps THEN st.landed ELSE st.landed + 1
EndOf(st, shot, how, next, who) ==
  [st EXCEPT !.landed = PutDown(st, shot, how), !.ends = @ \cup {[shot |-> shot, how |-> how, at |-> next, who |-> who]}]

\* tickTrapProjectiles, for one shot
Flies(st, shot) ==
  LET left == shot.range - shot.far
      travel == IF left < Speed * st.elapsed THEN left ELSE Speed * st.elapsed
      next == shot.at + shot.dir * travel
      touched == Touched(st, shot, next)
      who == FirstOf(touched)
  IN IF ~shot.ignores /\ Samples(SweptFrom(shot), next) \cap Rock # {} THEN EndOf(st, shot, "rock", shot.at, NoTarget)
     ELSE IF touched # {}
          THEN IF st.body[who].hp = 0 \/ BodyKind[who] = "pillar" THEN EndOf(st, shot, "stopped", next, who)
               ELSE EndOf(IF shot.by \in Traps THEN Hurt(st, {who}) ELSE st, shot, "struck", next, who)
     ELSE IF travel < left
          THEN [st EXCEPT !.shots = Append(@, [shot EXCEPT !.at = next, !.far = @ + travel]),
                          !.ends = @ \cup {[shot |-> shot, how |-> "flew", at |-> next, who |-> NoTarget]}]
     ELSE EndOf(st, shot, "range", next, NoTarget)

ShotsFly(elapsed) ==
  /\ shots # <<>>
  /\ LET st == FoldLeft(Flies, [body |-> body, bursts |-> bursts, shots |-> <<>>, ends |-> {}, landed |-> landed,
                                elapsed |-> elapsed], shots)
     IN body' = st.body /\ bursts' = st.bursts /\ shots' = st.shots /\ ends' = st.ends /\ landed' = st.landed
  /\ UNCHANGED <<trapStage, trapVars, thrown, changes>>

-----------------------------------------------------------------------------
(* Traps are put down, switched, and run.                                  *)

ShotInit ==
  /\ trapStage = "running" /\ mounted = {} /\ wire \in {[t \in Traps |-> on] : on \in BOOLEAN} /\ drawn = {} /\ raised = {}
  /\ facing = Ahead /\ frames = [t \in Swings |-> {}] /\ bursts = {}
  /\ body \in {[b \in Bodies |-> [at |-> IF b \in ShotHeroes THEN s ELSE Place[b], hp |-> Health]] : s \in Spots}
  /\ shots = <<>> /\ ends = {} /\ thrown = 0 /\ landed = 0 /\ changes = 0

\* raiseHazard: a launcher fires each time it is asked and beats from then on, a swing that runs is left alone
Raises(t) ==
  /\ raised' = raised \cup {t}
  /\ IF t \in Launchers THEN Shoots(t) /\ UNCHANGED frames
     ELSE /\ frames' = IF t \in raised THEN frames ELSE [frames EXCEPT ![t] = DOMAIN FrameReach[t]]
          /\ UNCHANGED <<facing, shots>>
\* Mutant of Lowers: the timers of its swing go on
LowersOnly(t) == raised' = raised \ {t} /\ UNCHANGED <<frames, facing, shots>>
\* stopHazardBeat
Lowers(t) ==
  /\ raised' = raised \ {t} /\ frames' = IF t \in Swings THEN [frames EXCEPT ![t] = {}] ELSE frames
  /\ UNCHANGED <<facing, shots>>

\* buildTriggerables, one trap
IsMounted(t) ==
  /\ trapStage = "running" /\ t \notin mounted /\ mounted' = mounted \cup {t}
  /\ drawn' = IF Resting(t) THEN drawn \cup {t} ELSE drawn
  /\ IF ArrivesRaised(t) THEN Raises(t) ELSE UNCHANGED <<raised, frames, facing, shots>>
  /\ ends' = {} /\ UNCHANGED <<trapStage, wire, bursts, body, throwVars, changes>>
\* applyTargetState
WireTurns(t) ==
  /\ trapStage = "running" /\ t \in mounted /\ Row[t].wired /\ ~Row[t].inert /\ changes < MaxChanges /\ changes' = changes + 1
  /\ wire' = [wire EXCEPT ![t] = ~@]
  /\ drawn' = IF ~TogglesRenderer(Row[t]) THEN drawn ELSE IF wire[t] THEN drawn \ {t} ELSE drawn \cup {t}
  /\ IF wire[t] THEN Lowers(t) ELSE Raises(t)
  /\ ends' = {} /\ UNCHANGED <<trapStage, mounted, bursts, body, throwVars>>
\* The beat of a launcher
Beats(t) ==
  /\ t \in raised \cap Launchers /\ Shoots(t)
  /\ ends' = {} /\ UNCHANGED <<trapStage, mounted, wire, drawn, raised, frames, bursts, body, throwVars, changes>>
\* startTurretAim: it turns whether or not it fires
Aims(t) ==
  /\ trapStage = "running" /\ t \in mounted \cap Statues /\ FacingNow(t) # facing[t]
  /\ facing' = [facing EXCEPT ![t] = FacingNow(t)]
  /\ ends' = {} /\ UNCHANGED <<trapStage, mounted, wire, drawn, raised, frames, bursts, body, shots, throwVars, changes>>
\* playSwing: a frame of it; what is drawn under the hero hurts heroes only
FrameLands(t) ==
  /\ frames[t] # {}
  /\ LET f == CHOOSE f \in frames[t] : \A g \in frames[t] : f <= g
         caught == Caught(body, Row[t].team, FrameReach[t][f])
     IN frames' = [frames EXCEPT ![t] = @ \ {f}] /\ Struck(IF Row[t].under THEN caught \cap ShotHeroes ELSE caught)
  /\ ends' = {} /\ UNCHANGED <<trapStage, mounted, wire, drawn, raised, facing, shots, throwVars, changes>>
\* playDeathAttack: the blast of a barrel, its frames after
Bursts(x) ==
  /\ x \in bursts
  /\ LET st == Hurt([body |-> body, bursts |-> bursts \ {x}], Caught(body, NoTarget, (x.at - BurstReach)..(x.at + BurstReach)))
     IN body' = st.body /\ bursts' = st.bursts
  /\ ends' = {} /\ UNCHANGED <<trapStage, trapVars, shots, throwVars, changes>>
\* launchCarrierProjectile
ThrowsAhead(h, way) ==
  /\ trapStage = "running" /\ body[h].hp > 0 /\ thrown < MaxThrows /\ Len(shots) < MaxShots /\ thrown' = thrown + 1
  /\ shots' = Append(shots, Shot(h, body[h].at, way, ThrowRange, FALSE, NoTarget))
  /\ ends' = {} /\ UNCHANGED <<trapStage, trapVars, bursts, body, landed, changes>>
\* A hero walks: what was aimed at him was aimed where he stood
WalksTo(h, s) ==
  /\ trapStage = "running" /\ body[h].hp > 0 /\ body[h].at # s /\ changes < MaxChanges /\ changes' = changes + 1
  /\ body' = [body EXCEPT ![h].at = s]
  /\ shots' = [i \in DOMAIN shots |-> [shots[i] EXCEPT !.steady = @ /\ shots[i].aim # h]]
  /\ ends' = {} /\ UNCHANGED <<trapStage, trapVars, bursts, throwVars>>
\* clearHazardBeats, and the flights stop with the floor's scope
TrapsEnd ==
  /\ trapStage = "running" /\ trapStage' = "left"
  /\ raised' = {} /\ frames' = [t \in Swings |-> {}] /\ bursts' = {} /\ shots' = <<>>
  /\ ends' = {} /\ UNCHANGED <<mounted, wire, drawn, facing, body, throwVars, changes>>

ShotNext ==
  \/ \E t \in Traps : IsMounted(t) \/ WireTurns(t) \/ Beats(t) \/ Aims(t)
  \/ \E t \in Swings : FrameLands(t)
  \/ \E x \in bursts : Bursts(x)
  \/ \E h \in ShotHeroes : (\E way \in {-1, 1} : ThrowsAhead(h, way)) \/ \E s \in Spots : WalksTo(h, s)
  \/ \E elapsed \in Elapsed : ShotsFly(elapsed)
  \/ TrapsEnd
ShotSpec == ShotInit /\ [][ShotNext]_shotVars

-----------------------------------------------------------------------------
(* Properties.                                                             *)

\* Types: at most MaxShots are in flight, none of them past its range, and what is up is on the floor.
ShotTypeOK ==
  /\ trapStage \in {"running", "left"} /\ raised \subseteq mounted /\ mounted \subseteq Traps /\ drawn \subseteq mounted
  /\ Len(shots) <= MaxShots /\ \A i \in DOMAIN shots : shots[i].far < shots[i].range
  /\ \A b \in Bodies : body[b].hp \in 0..Health

From(shot) == shot.at - shot.dir * shot.far
\* Nothing is flown through: a shot that flew on in a tick, however long the tick, had nobody of another side
\* on its way who is up (tickTrapProjectiles sweeps from where it was to where it is).
NothingIsFlownThrough ==
  \A e \in ends : e.how \in {"flew", "range"} =>
    \A b \in Bodies : body[b].at \in Between(e.shot.at, e.at) /\ body[b].hp > 0 /\ BodyKind[b] # "pillar" =>
      b = e.shot.by \/ (e.shot.by \in Traps /\ Row[e.shot.by].team = Team[b])
\* Walls stop shots: but for what a trap is mounted against, no rock lies behind a shot that minds walls.
WallsStopShots ==
  \A i \in DOMAIN shots : ~shots[i].ignores =>
    \A r \in Rock : r \in Between(From(shots[i]), shots[i].at) => Apart(From(shots[i]), r) <= ShotRadius
\* Who is aimed at and stands still is reached: a statue aims at nobody its shots fall short of.
SteadyTargetsAreHit == \A e \in ends : e.how = "range" /\ e.shot.aim # NoTarget => ~e.shot.steady
\* What is thrown is put down once, whatever ends its flight but the floor's own end.
ThrowsLandOnce ==
  trapStage = "running" => thrown = landed + Cardinality({i \in DOMAIN shots : shots[i].by \in Bodies})
\* A swing strikes only while its clients see it strike: neither before it is drawn nor after it is lowered.
SwingsAreAsDrawn == \A t \in Swings : frames[t] # {} => t \in drawn

\* "An arrow stops in whatever it reaches first" (trap-attacks.js 756-759): the code strikes, of those met in one
\* tick, the one made first.  Does not hold.
NearestIsHit ==
  \A e \in ends : e.who # NoTarget =>
    \A b \in Bodies : InTheWay(body, e.shot, b) /\ body[b].at \in Between(e.shot.at, e.at) =>
      Apart(e.shot.at, body[e.who].at) <= Apart(e.shot.at, body[b].at)
\* "for the shot's own radius of travel, a wall cannot stop it" (trap-attacks.js 690-697): the radius is allowed for
\* the first tick only, which may be shorter.  Does not hold for a slow shot (ShotRadius = 2, Speed = 1, Rock = {2}).
MuzzlesAreExempt ==
  \A e \in ends : e.how = "rock" => \E r \in Rock : Apart(From(e.shot), r) > ShotRadius /\ (r - From(e.shot)) * e.shot.dir > 0
=============================================================================
