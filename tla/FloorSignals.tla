---------------------------- MODULE FloorSignals ----------------------------
(***************************************************************************)
(* The wiring of a floor: triggers, logic gates and generators, as         *)
(* socket/triggers.js and socket/floor-generators.js run them.             *)
(*                                                                         *)
(* A source that changes tells its targets in their order, and each of     *)
(* them tells its own before the next is told: one emission is one step,   *)
(* written as an operator from a state of the signals to the next.  A      *)
(* generator's wave is a loop of waits; what follows an await that nothing *)
(* holds up (a resolved promise) is a step of its own, which no player,    *)
(* timer or death comes before: IsIdle guards those.                       *)
(***************************************************************************)
EXTENDS Naturals, Sequences, FiniteSets, SequencesExt

CONSTANTS Boards,   \* the floors looked at: what is on them and how it is wired
          Heroes    \* the members' heroes

VARIABLES
  board,   \* the floor: a member of Boards, for good
  sig,     \* the signals: values, memories of gates, timers, generators
  near,    \* the zones a hero's body is in
  shape    \* "up", "down" (dead until revived) or "away" (left)

signalVars == <<board, sig, near, shape>>

-----------------------------------------------------------------------------
(* What is where.  board.trigger, board.gate and board.gen are functions   *)
(* from ids; board.wires gives every source its sequence of targets.       *)

Triggers == DOMAIN board.trigger
Gates    == DOMAIN board.gate
Gens     == DOMAIN board.gen
Zones    == {t \in Triggers : board.trigger[t] \in {"zone", "zoneOnce"}}
Sources  == DOMAIN board.wires
Ends     == board.ends          \* virtual triggerables: they do something when switched on
Doors    == board.doors         \* objects with a state

TargetsOf(src) == IF src \in Sources THEN board.wires[src] ELSE <<>>
SourcesOf(x)   == {src \in Sources : x \in Range(board.wires[src])}
High(s, src)   == src \in DOMAIN s.val /\ s.val[src]

\* initialTargetState: any of the inputs, and on without any
InputOn(s, x) == SourcesOf(x) = {} \/ \E src \in SourcesOf(x) : High(s, src)

IsBoolean(g) == board.gate[g].kind \in {"AND", "OR", "NOT"}
AllHigh(s, x)  == \A src \in SourcesOf(x) : High(s, src)
SomeHigh(s, x) == \E src \in SourcesOf(x) : High(s, src)

\* evaluateGate, for the gates without a memory
BooleanValue(s, g) ==
  CASE board.gate[g].kind = "AND" -> SourcesOf(g) # {} /\ AllHigh(s, g)
    [] board.gate[g].kind = "NOT" -> SourcesOf(g) # {} /\ ~SomeHigh(s, g)
    [] OTHER -> SomeHigh(s, g)

\* evaluateGate with what it remembers: a toggle the level of its inputs, a counter the
\* level of each and how many rises there were (here up to its threshold)
Evaluated(s, g) ==
  LET k == board.gate[g].kind
      rises == {src \in SourcesOf(g) : High(s, src) /\ src \notin s.seen[g]}
      count == s.count[g] + Cardinality(rises)
  IN CASE k = "TOGGLE" ->
            [s EXCEPT !.seen[g] = {src \in SourcesOf(g) : SomeHigh(s, g)},
                      !.out[g] = IF SomeHigh(s, g) /\ s.seen[g] = {} THEN ~@ ELSE @]
       [] k = "COUNTER" ->
            [s EXCEPT !.seen[g] = {src \in SourcesOf(g) : High(s, src)},
                      !.count[g] = IF count > board.gate[g].threshold THEN board.gate[g].threshold ELSE count,
                      !.out[g] = count >= board.gate[g].threshold]
       [] OTHER -> [s EXCEPT !.out[g] = BooleanValue(s, g)]

\* gateOutput: what the wiring says, or for a gate that latches, for good once it rose
Latched(s, g) ==
  LET e == Evaluated(s, g)
      latches == board.gate[g].once /\ IsBoolean(g)
      rose == e.out[g] /\ ~s.val[g] /\ s.settled
  IN IF ~latches THEN e
     ELSE IF g \in s.held THEN [e EXCEPT !.out[g] = TRUE]
     ELSE IF rose THEN [e EXCEPT !.held = @ \cup {g}] ELSE e

-----------------------------------------------------------------------------
(* emitSignal and deliverSignal, a generator's start and the parts of its  *)
(* wave that run without a wait.                                           *)

RECURSIVE Emit(_, _, _), Deliver(_, _, _, _), StartGen(_, _)

\* Mutant of Emit: the targets are told before the value is set
TellsFirst(s, src, on) ==
  IF s.val[src] = on THEN s
  ELSE [FoldLeft(LAMBDA t, x : Deliver(t, x, on, src), s, TargetsOf(src)) EXCEPT !.val[src] = on]
\* emitSignal
Emit(s, src, on) ==
  IF s.val[src] = on THEN s
  ELSE FoldLeft(LAMBDA t, x : Deliver(t, x, on, src), [s EXCEPT !.val[src] = on], TargetsOf(src))

\* startResetGate: a pulse now or after its delay, whatever was scheduled before
ResetStarts(s, g) ==
  IF board.gate[g].delayed THEN [s EXCEPT !.timer[g] = "waits"]
  ELSE [Emit(s, g, TRUE) EXCEPT !.timer[g] = "open"]

\* emitGeneratorRelease: a pulse, or for an all-spawns-dead one a poke of its reset gates
Released(s, g) ==
  IF ~board.gen[g].allDead THEN Emit(Emit(s, g, TRUE), g, FALSE)
  ELSE IF board.gen[g].reward THEN s
  ELSE FoldLeft(LAMBDA t, x : IF x \in Gates /\ board.gate[x].kind = "RESET" THEN ResetStarts(t, x) ELSE t,
                s, TargetsOf(g))

\* owesMore of completeGenerator
Owes(s, g) == ~s.gen[g].stopped /\ s.gen[g].attempted < board.gen[g].quota

\* completeGenerator
Completed(s, g) ==
  IF s.gen[g].completed \/ Owes(s, g) \/ s.gen[g].alive > 0 THEN s
  ELSE LET c == [s EXCEPT !.gen[g].completed = TRUE]
       IN IF board.gen[g].allDead THEN Emit(c, g, TRUE) ELSE c

\* The head of the wave's loop: over, a sleep (which a stopped one does not sleep, nor one
\* before the first is out), or a wait for a death
WaveTurns(s, g, first) ==
  LET w == s.gen[g]
  IN IF w.left = 0 \/ w.attempted >= board.gen[g].quota
     THEN Completed([s EXCEPT !.gen[g].wave = "over"], g)
     ELSE IF w.standing < board.gen[g].population
     THEN [s EXCEPT !.gen[g].wave = IF w.stopped \/ first THEN "beat" ELSE "sleeps"]
     ELSE [s EXCEPT !.gen[g].wave = IF w.stopped THEN "roused" ELSE "waits"]

\* Mutant of NewDoor: nobody of an earlier wave stands in the way
FreshDoor(w, quota) == [w EXCEPT !.left = quota - w.attempted, !.standing = 0]
\* createPopulationDoor, for this wave: what it may still give, and who stands already
NewDoor(w, quota) == [w EXCEPT !.left = quota - w.attempted, !.standing = w.alive]

StartGen(s, g) ==
  IF s.gen[g].wave # "none" \/ s.gen[g].attempted >= board.gen[g].quota THEN s
  ELSE LET r == Released([s EXCEPT !.gen[g].stopped = FALSE, !.gen[g].completed = FALSE,
                                   !.gen[g].started = TRUE], g)
       IN WaveTurns([r EXCEPT !.gen[g] = NewDoor(@, board.gen[g].quota)], g, TRUE)

\* generatorStops: whatever it waits for is over
StopGen(s, g) ==
  IF s.gen[g].stopped THEN s
  ELSE [s EXCEPT !.gen[g].stopped = TRUE,
                 !.gen[g].wave = CASE @ = "sleeps" -> "beat" [] @ = "waits" -> "roused" [] OTHER -> @]

IsPulse(src) == src \in Gates /\ board.gate[src].kind = "RESET"

\* a low input stops a generator, unless what fell was a pulse
FallStops(on, src) == on \/ ~IsPulse(src)

Deliver(s, x, on, src) ==
  CASE x \in Ends -> IF on THEN [s EXCEPT !.done = @ \cup {x}] ELSE s
    [] x \in Gates ->
         IF board.gate[x].kind = "RESET" THEN (IF on THEN ResetStarts(s, x) ELSE s)
         ELSE LET e == Latched(s, x) IN Emit(e, x, e.out[x])
    [] x \in Gens ->
         IF InputOn(s, x) THEN StartGen(s, x)
         ELSE IF FallStops(on, src) THEN StopGen(s, x) ELSE s
    [] OTHER -> [s EXCEPT !.door[x] = InputOn(s, x)]

-----------------------------------------------------------------------------
(* trackTriggers and buildGenerators.                                      *)

\* The resting pass: every gate without a timer, at most twice as often as there are gates
Rested(s) ==
  LET order == SetToSeq({g \in Gates : board.gate[g].kind # "RESET"})
      pass(t, n) == FoldLeft(LAMBDA u, g : LET e == Evaluated(u, g) IN [e EXCEPT !.val[g] = e.out[g]], t, order)
  IN FoldLeft(pass, s, [n \in 1..2 * Cardinality(Gates) |-> n])

Unrun == [wave |-> "none", started |-> FALSE, stopped |-> FALSE, completed |-> FALSE,
          attempted |-> 0, alive |-> 0, dying |-> 0, left |-> 0, standing |-> 0]

SignalInit ==
  /\ board \in Boards
  /\ LET s == [val |-> [x \in Triggers \cup Gates \cup Gens |->
                          x \in Triggers /\ board.trigger[x] \in {"life", "timer"}],
               held |-> {}, seen |-> [g \in Gates |-> {}], count |-> [g \in Gates |-> 0],
               out |-> [g \in Gates |-> FALSE], timer |-> [g \in Gates |-> "idle"],
               gen |-> [g \in Gens |-> Unrun], door |-> [d \in Doors |-> FALSE],
               inside |-> [z \in Zones |-> {}], fired |-> {}, done |-> {}, settled |-> FALSE]
         r == Rested(s)
     IN sig = [r EXCEPT !.door = [d \in Doors |-> InputOn(r, d)]]
  /\ near = [h \in Heroes |-> {}]
  /\ shape = [h \in Heroes |-> "up"]

OnlySignals == UNCHANGED <<board, near, shape>>
Micro  == {"beat", "roused", "spawns", "over"}
IsIdle == \A g \in Gens : sig.gen[g].wave \notin Micro
InPlay == sig.settled /\ IsIdle

\* buildGenerators starts what nothing feeds and what is fed already; the floor settles
FloorSettles ==
  /\ ~sig.settled
  /\ LET fed == SetToSeq({g \in Gens : InputOn(sig, g)})
     IN sig' = [FoldLeft(StartGen, sig, fed) EXCEPT !.settled = TRUE]
  /\ OnlySignals

-----------------------------------------------------------------------------
(* Triggers.                                                               *)

\* the prune of updateProximityTriggers: the dead and the gone stand nowhere
Standing(occupants) == {h \in occupants : shape[h] = "up"}

\* applyProximityState
ZoneSays(s, z, on) ==
  IF on = s.val[z] \/ (board.trigger[z] = "zoneOnce" /\ z \in s.fired) THEN s
  ELSE Emit([s EXCEPT !.fired = IF on /\ board.trigger[z] = "zoneOnce" THEN @ \cup {z} ELSE @], z, on)

\* One zone on one movement: through it, into it, out of it or elsewhere
ZoneSees(s, z, h, zones, crossed) ==
  LET others == Standing(s.inside[z]) \ {h}
      occupants == IF z \in zones THEN others \cup {h} ELSE others
      t == IF z \in crossed THEN ZoneSays([s EXCEPT !.inside[z] = others \cup {h}], z, TRUE) ELSE s
  IN ZoneSays([t EXCEPT !.inside[z] = occupants], z, occupants # {})

\* updateProximityTriggers: a hero was somewhere and is in these zones (bound: in one at
\* most), past those
HeroMoves(h, zones, crossed) ==
  /\ InPlay /\ shape[h] = "up"
  /\ crossed \cap (zones \cup near[h]) = {} /\ Cardinality(zones) <= 1
  /\ near' = [near EXCEPT ![h] = zones]
  /\ sig' = FoldLeft(LAMBDA s, z : ZoneSees(s, z, h, zones, crossed), sig, board.order)
  /\ UNCHANGED <<board, shape>>

\* Mutant of OutOfZones: who stands still is where it was
StaysInZones(s, h) == s
\* releaseProximityActor: out of every zone at once
OutOfZones(s, h) ==
  FoldLeft(LAMBDA t, z : IF h \notin t.inside[z] THEN t
                         ELSE LET u == [t EXCEPT !.inside[z] = @ \ {h}] IN ZoneSays(u, z, u.inside[z] # {}),
           s, board.order)

\* A hero falls (combat.js) or leaves while others stay (leaveDungeonSession)
HeroStops(h, how) ==
  /\ InPlay /\ shape[h] # "away" /\ shape[h] # how
  /\ how = "away" => \E m \in Heroes \ {h} : shape[m] # "away"
  /\ shape' = [shape EXCEPT ![h] = how]
  /\ sig' = OutOfZones(sig, h)
  /\ UNCHANGED <<board, near>>

\* A revived hero stands where it lay; its next movement says so
HeroRises(h) ==
  /\ InPlay /\ shape[h] = "down"
  /\ shape' = [shape EXCEPT ![h] = "up"]
  /\ UNCHANGED <<board, sig, near>>

\* reportNpcDeath, reportNpcDamage and a named event of a timeline
NpcReports(t) ==
  /\ InPlay
  /\ sig' = CASE board.trigger[t] = "life"   -> Emit(sig, t, FALSE)
              [] board.trigger[t] = "damage" -> Emit(sig, t, TRUE)
              [] board.trigger[t] = "event"  -> Emit(Emit(sig, t, TRUE), t, FALSE)
              [] OTHER -> sig
  /\ OnlySignals

\* startTimerTriggers
TimerTicks(t) ==
  /\ InPlay /\ board.trigger[t] = "timer"
  /\ sig' = Emit(sig, t, ~sig.val[t])
  /\ OnlySignals

ResetOpens(g) ==
  /\ InPlay /\ sig.timer[g] = "waits"
  /\ sig' = [Emit(sig, g, TRUE) EXCEPT !.timer[g] = "open"]
  /\ OnlySignals

ResetCloses(g) ==
  /\ InPlay /\ sig.timer[g] = "open"
  /\ sig' = Emit([sig EXCEPT !.timer[g] = "idle"], g, FALSE)
  /\ OnlySignals

-----------------------------------------------------------------------------
(* spawnGeneratorWave.                                                     *)

WaveSleeps(g) ==
  /\ InPlay /\ sig.gen[g].wave = "sleeps"
  /\ sig' = [sig EXCEPT !.gen[g].wave = "beat"]
  /\ OnlySignals

\* After a wait: a stopped wave is over, another spawns, or sleeps a beat before it does
WaveGoesOn(g) ==
  /\ sig.gen[g].wave \in {"beat", "roused"}
  /\ sig' = IF sig.gen[g].stopped THEN Completed([sig EXCEPT !.gen[g].wave = "over"], g)
            ELSE IF sig.gen[g].wave = "beat" THEN [sig EXCEPT !.gen[g].wave = "spawns"]
            ELSE WaveTurns(sig, g, FALSE)
  /\ OnlySignals

\* A spawn that never made it takes quota and no place
SpawnComes(g, stood) ==
  /\ sig.gen[g].wave = "spawns"
  /\ LET one == IF stood THEN 1 ELSE 0
         s == [sig EXCEPT !.gen[g].attempted = @ + 1, !.gen[g].left = @ - 1,
                          !.gen[g].standing = @ + one, !.gen[g].alive = @ + one]
     IN sig' = WaveTurns(IF stood THEN Released(s, g) ELSE s, g, FALSE)
  /\ OnlySignals

WaveIsOver(g) ==
  /\ sig.gen[g].wave = "over"
  /\ sig' = [sig EXCEPT !.gen[g].wave = "none"]
  /\ OnlySignals

\* onDeath: its place is free, and a wave that waits for one hears of it; what has nothing to
\* play is gone in the same breath
SpawnDies(g, atOnce) ==
  /\ InPlay /\ sig.gen[g].alive > 0
  /\ LET w == sig.gen[g]
         s == [sig EXCEPT !.gen[g].alive = @ - 1, !.gen[g].standing = @ - 1,
                          !.gen[g].dying = IF atOnce THEN @ ELSE @ + 1,
                          !.gen[g].wave = IF @ = "waits" /\ w.left > 0 THEN "roused" ELSE @]
     IN sig' = IF atOnce THEN Completed(s, g) ELSE s
  /\ OnlySignals

\* onGone
SpawnIsGone(g) ==
  /\ InPlay /\ sig.gen[g].dying > 0
  /\ sig' = Completed([sig EXCEPT !.gen[g].dying = @ - 1], g)
  /\ OnlySignals

Wave(g) == WaveGoesOn(g) \/ WaveIsOver(g) \/ \E stood \in BOOLEAN : SpawnComes(g, stood)

SignalNext ==
  \/ FloorSettles
  \/ \E g \in Gens : Wave(g) \/ WaveSleeps(g) \/ SpawnIsGone(g) \/ \E atOnce \in BOOLEAN : SpawnDies(g, atOnce)
  \/ \E g \in Gates : ResetOpens(g) \/ ResetCloses(g)
  \/ \E t \in Triggers : NpcReports(t) \/ TimerTicks(t)
  \/ \E h \in Heroes :
       \/ HeroRises(h) \/ \E how \in {"down", "away"} : HeroStops(h, how)
       \/ \E zones, crossed \in SUBSET Zones : HeroMoves(h, zones, crossed)

SignalSpec == SignalInit /\ [][SignalNext]_signalVars

-----------------------------------------------------------------------------
(* Properties.                                                             *)

SignalTypeOK ==
  /\ board \in Boards
  /\ \A x \in DOMAIN sig.val : sig.val[x] \in BOOLEAN
  /\ sig.done \subseteq Ends
  /\ \A g \in Gens : sig.gen[g].wave \in Micro \cup {"none", "sleeps", "waits"}
  /\ near \in [Heroes -> SUBSET Zones] /\ shape \in [Heroes -> {"up", "down", "away"}]

\* What each gate and door says is what its inputs come to, whatever order they changed in
\* and whichever of them was told first; a latched gate excepted.
WiringAgrees ==
  InPlay => /\ \A g \in Gates : IsBoolean(g) => sig.val[g] = (g \in sig.held \/ BooleanValue(sig, g))
            /\ \A d \in Doors : sig.door[d] = InputOn(sig, d)

\* A switch is held by somebody who stands, whoever left, fell or was revived meanwhile.
SwitchesNeedSomebody ==
  InPlay => \A z \in Zones : (sig.val[z] /\ z \notin sig.fired) =>
                               \E h \in sig.inside[z] : shape[h] = "up" /\ z \in near[h]

\* However a generator is switched on and off, it never has more standing or brings out more
\* than it may; and once its wave is over and the last of it is gone, it has said so.
GeneratorsOwnUp ==
  \A g \in Gens : LET w == sig.gen[g] IN
    /\ w.alive <= board.gen[g].population /\ w.attempted <= board.gen[g].quota
    /\ (InPlay /\ w.started /\ w.wave = "none" /\ w.alive + w.dying = 0) =>
         w.completed /\ (board.gen[g].allDead => sig.val[g])

\* "A generator runs while its input is high and stops when it drops" (floor-generators.js).
GeneratorRunsWhileHigh ==
  InPlay => \A g \in Gens : (SourcesOf(g) # {} /\ InputOn(sig, g)) =>
              \/ sig.gen[g].wave # "none"
              \/ sig.gen[g].attempted = board.gen[g].quota
=============================================================================
