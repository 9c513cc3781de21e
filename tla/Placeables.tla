----------------------------- MODULE Placeables -----------------------------
(***************************************************************************)
(* One thing a hero places (placeables.js): thrown or set down, made while *)
(* the rows it needs are looked up, at work on its ticker, gone off, shot  *)
(* down or expired - in any order; and the permits a throw leaves behind.  *)
(*                                                                         *)
(* What its strikes take from whom is the module Blows.                    *)
(***************************************************************************)
EXTENDS Integers, FiniteSets

CONSTANTS PlacedKinds, \* which of the kinds below there are
          MaxThrows,   \* bound: throws
          MaxLandings, \* bound: landings
          MaxHits      \* bound: strikes counted

ASSUME PlaceablesAssumption ==
  PlacedKinds \subseteq {"tower", "bomb", "charge", "summon"} /\ {MaxThrows, MaxLandings, MaxHits} \subseteq Nat

VARIABLES
  placesChecked,  \* whether placementMode enforces
  ground,    \* the floor that is on
  permits,   \* placementPermits: the throw, its floor, whether it is still good
  thrown, landed, \* throws allowed, and landings that made something
  kind,      \* of the thing: a tower strikes on, a bomb goes with its hit, a charge only dies, a summon walks
  placing,    \* spawnPlaceable: its step
  body,      \* the actor: to come, alive, down without an end of its own, playing its death, gone
  live,      \* its record: registered, floor, spent, busy, deathStarted, its ticker, its activation
  lives,     \* timers of its expiry: its lifetime, the end of its suicide
  tick,      \* by call of tickPlaceable: the step, whether it is the first, whether it caught somebody
  ending,    \* whether expirePlaceable waits for the last strike
  hits, bursts, \* strikes of its living and of its death attack
  unmade     \* whether it was shot down, or its floor left, before it was registered

placeVars == <<placesChecked, ground, permits, thrown, landed, kind, placing, body, live, lives, tick, ending, hits, bursts, unmade>>
throwVars == <<permits, thrown, landed>>
countVars == <<hits, bursts, unmade>>

Living == kind \in {"tower", "bomb", "summon"}
Walks == kind = "summon"
HasDeath == kind \in {"bomb", "charge"}
Suicide == kind = "bomb"

Calls == {1, 2}
Idle == [at |-> "none", first |-> FALSE, caught |-> FALSE]
StillThere == body \in {"alive", "down", "dying"}
Unregistered ==
  [on |-> FALSE, floor |-> 0, spent |-> FALSE, busy |-> FALSE, deathStarted |-> FALSE, ticker |-> FALSE, activation |-> "none"]

PlaceInit ==
  /\ placesChecked \in BOOLEAN /\ ground = 1 /\ permits = {} /\ thrown = 0 /\ landed = 0
  /\ kind \in PlacedKinds /\ placing = "none" /\ body = "none" /\ live = Unregistered
  /\ lives = {} /\ tick = [c \in Calls |-> Idle] /\ ending = FALSE
  /\ hits = 0 /\ bursts = 0 /\ unmade = FALSE

-----------------------------------------------------------------------------
(* Throws and landings.                                                    *)

\* notePlacementPermit, which drops what has run out or is of another floor
Throws ==
  /\ thrown < MaxThrows /\ thrown' = thrown + 1
  /\ permits' = {p \in permits : p.good /\ p.floor = ground} \cup {[throw |-> thrown + 1, floor |-> ground, good |-> TRUE]}
  /\ UNCHANGED <<placesChecked, ground, landed, kind, placing, body, live, lives, tick, ending, countVars>>
\* PERMIT_MS have passed
PermitRunsOut(p) ==
  /\ p.good /\ permits' = (permits \ {p}) \cup {[p EXCEPT !.good = FALSE]}
  /\ UNCHANGED <<placesChecked, ground, thrown, landed, kind, placing, body, live, lives, tick, ending, countVars>>

\* matchPermit: the first that fits; where it landed may be too far from all of them
Fitting == {p \in permits : p.good /\ p.floor = ground}
\* Mutant of Spent: the permit stays
KeptPermit(p) == permits
\* spendPermit
Spent(p) == permits \ {p}

\* spawnPlaceable begins; of those that are placed, one is followed
BeginsMaking == placing' = (IF placing = "none" THEN "rows" ELSE placing)
\* handleProposeCreateNPC, after its look at the game data
Lands(near) ==
  /\ landed < MaxLandings
  /\ IF near /\ Fitting # {}
     THEN LET p == CHOOSE q \in Fitting : \A o \in Fitting : q.throw <= o.throw
          IN permits' = Spent(p) /\ landed' = landed + 1 /\ BeginsMaking
     ELSE /\ UNCHANGED permits
          /\ IF placesChecked THEN UNCHANGED <<placing, landed>> ELSE landed' = landed + 1 /\ BeginsMaking
  /\ UNCHANGED <<placesChecked, ground, thrown, kind, body, live, lives, tick, ending, countVars>>
\* schedulePlaceables: a timer of the floor's places what an attack's timeline says
SetDown ==
  /\ placing = "none" /\ placing' = "rows"
  /\ UNCHANGED <<placesChecked, ground, throwVars, kind, body, live, lives, tick, ending, countVars>>

-----------------------------------------------------------------------------
(* spawnPlaceable.                                                         *)

\* Among the actors, and on the clients; its record comes after two more looks at the game data
Shows ==
  /\ placing = "rows" /\ placing' = "shown" /\ body' = "alive"
  /\ UNCHANGED <<placesChecked, ground, throwVars, kind, live, lives, tick, ending, countVars>>

\* Its record; a strike is made at once, or after its delay, and what only dies does so soon
Registers(delayed) ==
  /\ placing = "shown"
  /\ LET first == Living /\ ~Walks /\ ~delayed IN
     /\ live' = [Unregistered EXCEPT !.on = TRUE, !.floor = ground, !.busy = first,
                   !.activation = IF Living /\ ~Walks THEN (IF delayed THEN "attack" ELSE "none")
                                  ELSE IF HasDeath /\ ~Living THEN "blast" ELSE "none"]
     /\ placing' = IF first THEN "first" ELSE "done"
     /\ lives' = IF first THEN {} ELSE {"life"}
     /\ tick' = IF first THEN [tick EXCEPT ![1] = [Idle EXCEPT !.at = "shape", !.first = TRUE]] ELSE tick
  /\ UNCHANGED <<placesChecked, ground, throwVars, kind, body, ending, countVars>>

-----------------------------------------------------------------------------
(* Its ticker.                                                             *)

MayTick == live.on /\ live.floor = ground /\ ~live.busy /\ ~live.spent
Halted(l) == [l EXCEPT !.ticker = FALSE, !.activation = "none", !.spent = TRUE]

\* Mutant of TickerStarts: whether it is still registered is not asked
StartsAnyway(l) == ~l.spent
\* beginAttacking, after its first tick
TickerStarts(l) == ~l.spent /\ l.on
\* ... and the lifetime is set, by the call that waited for it
AfterFirst(c, l) ==
  /\ live' = IF tick[c].first THEN [l EXCEPT !.ticker = TickerStarts(l)] ELSE l
  /\ placing' = IF tick[c].first /\ placing = "first" THEN "done" ELSE placing

\* tickPlaceable, up to strike's first wait: on its beat, or as the first after a delay
TickBegins(c, first) ==
  /\ tick[c] = Idle
  /\ IF first
     THEN live.activation = "attack" /\ live' = [live EXCEPT !.activation = "none", !.busy = MayTick \/ @]
     ELSE live.ticker /\ MayTick /\ live' = [live EXCEPT !.busy = TRUE]
  /\ tick' = [tick EXCEPT ![c] = [Idle EXCEPT !.at = IF MayTick THEN "shape" ELSE "over", !.first = first]]
  /\ UNCHANGED <<placesChecked, ground, throwVars, kind, placing, body, lives, ending, countVars>>
\* The shape is there: nobody sets it off, or it strikes and waits for what its timeline spawns
Strikes(c, caught) ==
  /\ tick[c].at = "shape" /\ hits < MaxHits
  /\ tick' = [tick EXCEPT ![c].at = "spawns", ![c].caught = caught]
  /\ hits' = IF caught THEN hits + 1 ELSE hits
  /\ UNCHANGED <<placesChecked, ground, throwVars, kind, placing, body, live, lives, ending, bursts, unmade>>
NotSetOff(c) ==
  /\ tick[c].at = "shape" /\ tick' = [tick EXCEPT ![c].at = "over"]
  /\ UNCHANGED <<placesChecked, ground, throwVars, kind, placing, body, live, lives, ending, countVars>>
\* The rest of tickPlaceable: a hit is the end of what goes with it
TickEnds(c) ==
  /\ tick[c].at \in {"spawns", "over"} /\ tick' = [tick EXCEPT ![c] = Idle]
  /\ LET l == [live EXCEPT !.busy = FALSE]
         goes == tick[c].caught /\ Suicide
     IN /\ AfterFirst(c, IF goes THEN [l EXCEPT !.spent = TRUE, !.ticker = FALSE] ELSE l)
        /\ lives' = lives \cup (IF goes THEN {"suicide"} ELSE {})
                          \cup (IF tick[c].first /\ placing = "first" THEN {"life"} ELSE {})
  /\ UNCHANGED <<placesChecked, ground, throwVars, kind, body, ending, countVars>>

-----------------------------------------------------------------------------
(* Its ends.                                                               *)

\* Mutant of GoesOff: it goes off each time
GoesOffAgain(l) == HasDeath
\* goOff: once
GoesOff(l) == HasDeath /\ ~l.deathStarted
BlownUp(l) == IF GoesOff(l) THEN [Halted(l) EXCEPT !.deathStarted = TRUE] ELSE l
CountsBlast(l) == bursts' = IF GoesOff(l) /\ bursts < 2 THEN bursts + 1 ELSE bursts

\* A charge's activation
BlastDue ==
  /\ live.activation = "blast" /\ live.on /\ StillThere
  /\ live' = BlownUp([live EXCEPT !.activation = "none"]) /\ CountsBlast(live)
  /\ body' = (IF body = "alive" THEN "down" ELSE body)
  /\ UNCHANGED <<placesChecked, ground, throwVars, kind, placing, lives, tick, ending, hits, unmade>>
BlastIsVoid ==
  /\ live.activation = "blast" /\ ~StillThere /\ live' = [live EXCEPT !.activation = "none"]
  /\ UNCHANGED <<placesChecked, ground, throwVars, kind, placing, body, lives, tick, ending, countVars>>

\* stopAttacking, as onGone
Stopped(l) == IF l.on THEN Halted(l) ELSE l
\* It is shot down: its death attack is played, then it is retired; without one it is so at once
IsShotDown ==
  /\ body = "alive"
  /\ body' = IF HasDeath THEN "dying" ELSE "gone"
  /\ IF HasDeath /\ live.on THEN live' = BlownUp(live) /\ CountsBlast(live)
     ELSE live' = (IF HasDeath THEN live ELSE Stopped(live)) /\ UNCHANGED bursts
  /\ unmade' = (unmade \/ placing = "shown")
  /\ UNCHANGED <<placesChecked, ground, throwVars, kind, placing, lives, tick, ending, hits>>
TakesAway ==
  /\ body = "dying" /\ body' = "gone" /\ live' = Stopped(live)
  /\ UNCHANGED <<placesChecked, ground, throwVars, kind, placing, lives, tick, ending, countVars>>

\* expirePlaceable; of two timers the later finds nothing
Expires(t) ==
  /\ t \in lives /\ lives' = lives \ {t}
  /\ IF ~live.on THEN UNCHANGED <<live, body, ending, bursts>>
     ELSE LET l == [live EXCEPT !.on = FALSE, !.ticker = FALSE, !.activation = "none"] IN
          IF ~StillThere THEN live' = l /\ UNCHANGED <<body, ending, bursts>>
          ELSE IF Living
          THEN live' = BlownUp(l) /\ CountsBlast(l) /\ ending' = TRUE /\ UNCHANGED body
          ELSE live' = l /\ body' = "gone" /\ UNCHANGED <<ending, bursts>>
  /\ UNCHANGED <<placesChecked, ground, throwVars, kind, placing, tick, hits, unmade>>
ExpiryEnds ==
  /\ ending /\ ending' = FALSE /\ body' = "gone"
  /\ UNCHANGED <<placesChecked, ground, throwVars, kind, placing, live, lives, tick, countVars>>

\* clearDungeonPlaceables, with the floor's scope and actors
GroundPasses ==
  /\ ground = 1 /\ ground' = 2 /\ lives' = {}
  /\ live' = [live EXCEPT !.on = FALSE, !.ticker = FALSE, !.activation = "none"]
  /\ body' = (IF body = "none" THEN body ELSE "gone") /\ unmade' = (unmade \/ placing = "shown")
  /\ UNCHANGED <<placesChecked, throwVars, kind, placing, tick, ending, hits, bursts>>

PlaceNext ==
  \/ Throws \/ (\E p \in permits : PermitRunsOut(p)) \/ (\E near \in BOOLEAN : Lands(near)) \/ SetDown
  \/ Shows \/ (\E delayed \in BOOLEAN : Registers(delayed))
  \/ \E c \in Calls : \/ \E first \in BOOLEAN : TickBegins(c, first)
                      \/ NotSetOff(c) \/ TickEnds(c) \/ \E caught \in BOOLEAN : Strikes(c, caught)
  \/ BlastDue \/ BlastIsVoid \/ IsShotDown \/ TakesAway
  \/ (\E t \in {"life", "suicide"} : Expires(t)) \/ ExpiryEnds \/ GroundPasses
PlaceFairness ==
  /\ WF_placeVars(\E t \in {"life", "suicide"} : Expires(t)) /\ WF_placeVars(ExpiryEnds) /\ WF_placeVars(TakesAway)
  /\ WF_placeVars(\E c \in Calls : NotSetOff(c) \/ TickEnds(c))
PlaceSpec == PlaceInit /\ [][PlaceNext]_placeVars /\ PlaceFairness

-----------------------------------------------------------------------------
(* Properties.                                                             *)

PlaceTypeOK ==
  /\ placing \in {"none", "rows", "shown", "first", "done"}
  /\ body \in {"none", "alive", "down", "dying", "gone"}
  /\ live.activation \in {"none", "attack", "blast"} /\ lives \subseteq {"life", "suicide"}
  /\ \A c \in Calls : tick[c].at \in {"none", "shape", "spawns", "over"}
  /\ hits \in 0..MaxHits /\ bursts \in 0..2

\* Shot down, set off, expired or caught in its own blast, whatever comes first: what dies by an
\* attack does so once, and what goes with its hit hits once.
GoesOffOnce == bursts <= 1 /\ (Suicide => hits <= 1)

\* What is gone strikes no more, but for what was shot down, or left behind with its floor, before
\* it was registered.
OnlyGhostsHaunt == live.ticker \/ (live.on /\ ~live.spent) => StillThere \/ unmade

\* While throws are enforced, what lands was thrown, once each.
LandingsWereThrown == placesChecked => landed <= thrown

\* What is placed is taken up again.
PlacedThingsGo == live.on ~> ~live.on
=============================================================================
