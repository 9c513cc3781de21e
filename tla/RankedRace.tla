----------------------------- MODULE RankedRace -----------------------------
(***************************************************************************)
(* Ranked: modes/ranked (queue.js, race.js, index.js) and the adapter that *)
(* drives a stock client through it (stock-client/adapter.js).             *)
(*                                                                         *)
(* Two players wait on lobby floors of their own, are paired, count down,  *)
(* and both lobby floors end into the race's. `hall` is what the adapter   *)
(* and the queue know of them, `race` the pairing of the two, and the last *)
(* three variables the match log. What clocks decide is any of the results *)
(* the clocks allow.                                                       *)
(***************************************************************************)
EXTENDS Naturals, Sequences, FiniteSets

CONSTANTS Racers,        \* the two players
          NoRacer,
          MaxRaces,      \* bound: pairings
          MaxArrivals,   \* bound: entries into a lobby
          MaxRefusals    \* bound: writes the log refuses

ASSUME RankedAssumption ==
  Cardinality(Racers) = 2 /\ NoRacer \notin Racers /\ {MaxRaces, MaxArrivals, MaxRefusals} \subseteq Nat

VARIABLES
  hall,      \* players, floors, queue, cooldowns, who is in a race
  race,      \* the race under way
  races, arrivals, refusals,
  log,       \* the match log
  held,      \* decided matches the log refused
  logQueue     \* the writes chained one after the other (serially)

rankedVars == <<hall, race, races, arrivals, refusals, log, held, logQueue>>
logVars == <<log, held, logQueue, refusals>>

Away == [phase |-> "out", queued |-> FALSE, idle |-> FALSE, marked |-> FALSE, ring |-> "unknown", arriving |-> FALSE,
         counting |-> FALSE, retry |-> FALSE, over |-> FALSE, ended |-> FALSE, outcome |-> "none",
         noted |-> FALSE]
NoRace == [st |-> "none", reading |-> FALSE, on |-> {}, done |-> {}, out |-> {}, pending |-> NoRacer, draw |-> {}]

RankedInit ==
  /\ hall = [player |-> [p \in Racers |-> Away], floor |-> [p \in Racers |-> "none"],
             queue |-> {}, ready |-> {}, cooling |-> {}, racing |-> {}]
  /\ race = NoRace /\ races = 0 /\ arrivals = 0 /\ refusals = 0
  /\ log = <<>> /\ held = <<>> /\ logQueue = <<>>

Rival(p) == CHOOSE q \in Racers : q # p
Waits(h, p) == h.player[p].phase = "lobby"
Races(h, p) == h.player[p].phase = "race"

-----------------------------------------------------------------------------
(* The queue, as the adapter asks it.                                      *)

SetReady(h, p, yes) ==
  [h EXCEPT !.ready = IF yes /\ p \in h.queue THEN @ \cup {p} ELSE @ \ {p}]
\* Mutant of LeaveQueue: who left the line is still ready
LeavesLine(h, p) == [h EXCEPT !.queue = @ \ {p}]
LeaveQueue(h, p) == [h EXCEPT !.queue = @ \ {p}, !.ready = @ \ {p}]

\* enqueue: refused while a cooldown runs or a race has the player, and tried again by the sweep
Enqueue(h, p) ==
  IF p \in h.cooling \cup h.racing THEN [h EXCEPT !.player[p].retry = TRUE]
  ELSE SetReady([h EXCEPT !.queue = @ \cup {p}, !.player[p].queued = TRUE], p, ~h.player[p].idle)

\* endFloor: a floor that stands changes into the next of the plan
FloorStands(h, p) == h.floor[p] = "up"

\* endRun: victory, defeat or the way home, while the floor stands
EndRun(h, p) ==
  IF ~FloorStands(h, p) THEN h
  ELSE [h EXCEPT !.player[p].ended = TRUE,
                 !.floor[p] = IF h.player[p].outcome = "home" THEN "leaving" ELSE "over"]

-----------------------------------------------------------------------------
(* A decided race: settle, penalties, announce and the adapter's onNotice. *)

Finished(winner, forfeit) == [state |-> "finished", winner |-> winner, blame |-> NoRacer, forfeit |-> forfeit]
Cancelled(blame) == [state |-> "cancelled", winner |-> NoRacer, blame |-> blame, forfeit |-> NoRacer]
Void == [state |-> "void", winner |-> NoRacer, blame |-> NoRacer, forfeit |-> NoRacer]

\* Who caused a cancellation or forfeited waits longer; a race played out forgives
Penalties(h, result) ==
  [h EXCEPT !.cooling = ((IF result.state = "finished" THEN {} ELSE @) \cup {result.blame, result.forfeit})
                        \cap Racers]

OutcomeOf(p, result) ==
  IF result.state # "finished" \/ result.winner = NoRacer THEN "home"
  ELSE IF result.winner = p THEN "win" ELSE "loss"

\* Mutant of RelobbyReady: in line again is ready again
StillReady(h, p) == ~h.player[p].idle
\* Between floors nobody can start a race
RelobbyReady(h, p) == FALSE

\* A called-off pairing leaves its player in the lobby: back in line, or asking again. Where the
\* client counts down already, the floor changes into a fresh lobby (relobby).
BackInLobby(h, p, requeued) ==
  LET again == h.player[p].counting
      line == IF requeued
              THEN SetReady([h EXCEPT !.queue = @ \cup {p}], p,
                            IF again THEN RelobbyReady(h, p) ELSE ~h.player[p].idle)
              ELSE h
      asked == [line EXCEPT !.player[p].queued = requeued]
      told == IF requeued \/ again THEN asked ELSE Enqueue(asked, p)
  IN IF ~again THEN told
     ELSE [told EXCEPT !.player[p].counting = FALSE, !.player[p].ring = "unknown", !.player[p].arriving = TRUE,
                       !.floor[p] = IF FloorStands(h, p) THEN "changing" ELSE @]

\* onNotice of a result, for one of the two; `crossing` is at the finish line this very moment
Told(h, p, result, requeued, crossing) ==
  IF Waits(h, p) THEN IF result.state = "finished" THEN h ELSE BackInLobby(h, p, requeued)
  ELSE IF ~Races(h, p) \/ h.player[p].over THEN h
  ELSE LET over == [h EXCEPT !.player[p].over = TRUE, !.player[p].outcome = OutcomeOf(p, result)] IN
       IF over.player[p].ended \/ p = crossing THEN over ELSE EndRun(over, p)

\* Back in line goes who is not to blame, if the race was not loading yet
Requeued(r, p, result) == result.state = "cancelled" /\ p # result.blame /\ r.st = "paired"

Settled(h, r, result, crossing) ==
  LET p == CHOOSE q \in Racers : TRUE
      free == Penalties([h EXCEPT !.racing = {}], result)
  IN Told(Told(free, p, result, Requeued(r, p, result), crossing),
          Rival(p), result, Requeued(r, Rival(p), result), crossing)

\* The race goes on as r, or is decided: its record is kept, behind the writes before it
GoesOn(h, r) == hall' = h /\ race' = r /\ UNCHANGED <<races, logVars>>
Decides(h, r, result, crossing) ==
  /\ hall' = Settled(h, r, result, crossing)
  /\ race' = NoRace /\ logQueue' = Append(logQueue, races)
  /\ UNCHANGED <<races, log, held, refusals>>

-----------------------------------------------------------------------------
(* race.js.                                                                *)

Forfeits(p) == {p, NoRacer}

\* lost: out before the race runs cancels it; the first out of a running race is held for the
\* draw window
Loses(h, r, p) ==
  IF r.st = "none" \/ p \in r.out \cup r.done THEN GoesOn(h, r)
  ELSE IF r.st # "running" THEN Decides(h, r, Cancelled(p), NoRacer)
  ELSE IF Rival(p) \in r.done THEN \E f \in Forfeits(p) : Decides(h, r, Finished(Rival(p), f), NoRacer)
  ELSE IF r.pending # NoRacer
  THEN \/ Decides(h, r, Finished(NoRacer, NoRacer), NoRacer)
       \/ GoesOn(h, [r EXCEPT !.out = @ \cup {p}])
  ELSE GoesOn(h, [r EXCEPT !.out = @ \cup {p}, !.pending = p])

\* The line crossed: finishLine and finished. The floor ends in the game's own victory for a
\* winner; else it holds until the result ends the run.
Crosses(p) ==
  /\ Races(hall, p) /\ hall.player[p].noted /\ ~hall.player[p].over /\ FloorStands(hall, p)
  /\ p \notin race.done
  /\ IF race.st # "running" THEN GoesOn(hall, race)
     ELSE \/ /\ Rival(p) \notin race.done \cup race.out
             /\ GoesOn(hall, [race EXCEPT !.done = @ \cup {p}])
          \/ \E f \in Forfeits(Rival(p)), winner \in Racers \cup {NoRacer} :
               /\ winner # p => Rival(p) \in race.done
               /\ f # NoRacer => Rival(p) \in race.out
               /\ LET h == Settled(hall, race, Finished(winner, f), p) IN
                  /\ hall' = EndRun(h, p)
                  /\ race' = NoRace /\ logQueue' = Append(logQueue, races)
                  /\ UNCHANGED <<races, log, held, refusals>>
  /\ UNCHANGED arrivals

\* tick: the load limit, the draw window, a clock passing a finish, the limit of the race
TimeDecides ==
  /\ \/ /\ race.st = "loading"
        /\ Decides(hall, race, IF Cardinality(race.on) = 1 THEN Cancelled(CHOOSE p \in Racers \ race.on : TRUE)
                               ELSE Void, NoRacer)
     \/ /\ race.st = "running" /\ race.pending # NoRacer
        /\ \E f \in Forfeits(race.pending) : Decides(hall, race, Finished(Rival(race.pending), f), NoRacer)
     \/ /\ race.st = "running" /\ race.pending = NoRacer
        /\ Decides(hall, race, Finished(IF race.done = {} THEN NoRacer ELSE CHOOSE p \in race.done : TRUE, NoRacer),
                   NoRacer)
  /\ UNCHANGED arrivals

\* /draw: both ask, and the race is void
OffersDraw(p) ==
  /\ Races(hall, p) /\ race.st # "none" /\ p \notin race.draw
  /\ IF Rival(p) \in race.draw THEN Decides(hall, race, Void, NoRacer)
     ELSE GoesOn(hall, [race EXCEPT !.draw = @ \cup {p}])
  /\ UNCHANGED arrivals

-----------------------------------------------------------------------------
(* The service's tick: pairs and starts.                                   *)

\* pairUp and pair: both ready; the client is shown the game's own countdown, or keeps the notice
Pairs ==
  /\ race.st = "none" /\ hall.ready = Racers /\ races < MaxRaces
  /\ \E counting \in [Racers -> BOOLEAN] :
       hall' = [hall EXCEPT !.queue = {}, !.ready = {}, !.racing = Racers,
                  !.player = [p \in Racers |-> [@[p] EXCEPT !.counting = counting[p]]]]
  /\ race' = [NoRace EXCEPT !.st = "paired"] /\ races' = races + 1
  /\ UNCHANGED <<arrivals, logVars>>

\* begin and the first half of start: the race's floors are read from disk
Begins ==
  /\ race.st = "paired"
  /\ IF \A p \in Racers : Waits(hall, p)
     THEN GoesOn(hall, [race EXCEPT !.st = "loading", !.reading = TRUE])
     ELSE Decides(hall, [race EXCEPT !.st = "loading"], Void, NoRacer)
  /\ UNCHANGED arrivals

\* start: both are the race's before either floor is ended
SentToRace(h) == [h EXCEPT !.player = [p \in Racers |-> [@[p] EXCEPT !.phase = "race", !.counting = FALSE]]]

\* The floors are read: both are asked for again, and both lobby floors end into the race, one
\* after the other. One that cannot end makes its player a lobby's again, and the race is void.
StartsRace ==
  /\ race.st = "loading" /\ race.reading
  /\ LET read == [race EXCEPT !.reading = FALSE]
         sent == SentToRace(hall)
     IN IF ~ \A p \in Racers : Waits(hall, p) THEN Decides(hall, read, Void, NoRacer)
        ELSE \E first \in Racers :
          LET second == Rival(first) IN
          IF ~FloorStands(hall, first)
          THEN Decides([sent EXCEPT !.player[first].phase = "lobby"], read, Void, NoRacer)
          ELSE IF ~FloorStands(hall, second)
          THEN Decides([sent EXCEPT !.floor[first] = "changing", !.player[second].phase = "lobby"], read, Void, NoRacer)
          ELSE GoesOn([sent EXCEPT !.floor = [p \in Racers |-> "changing"]], read)
  /\ UNCHANGED arrivals

-----------------------------------------------------------------------------
(* The players.                                                            *)

\* planFor: a private run of the lobby node
EntersLobby(p) ==
  /\ hall.player[p].phase = "out" /\ arrivals < MaxArrivals
  /\ hall' = [hall EXCEPT !.player[p] = [Away EXCEPT !.phase = "lobby"], !.floor[p] = "changing"]
  /\ arrivals' = arrivals + 1 /\ UNCHANGED <<race, races, logVars>>

\* heroRequested on a lobby floor: arrived from a re-lobby, or new; standing nowhere yet for most
HeroInLobby(p) ==
  /\ Waits(hall, p) /\ hall.floor[p] = "changing"
  /\ \E ring \in {"in", "out", "unknown"} :
       LET h == [hall EXCEPT !.floor[p] = "up", !.player[p].ring = ring, !.player[p].arriving = FALSE,
                         !.player[p].marked = FALSE]
           me == hall.player[p]
       IN hall' = IF me.arriving /\ me.queued THEN SetReady(h, p, ~me.idle)
                  ELSE IF ring = "in" /\ (~me.arriving \/ ~me.idle) /\ ~me.queued THEN Enqueue(h, p) ELSE h
  /\ UNCHANGED <<race, races, arrivals, logVars>>

\* heroRequested on a race floor: the first of them starts this player's clock
HeroInRace(p) ==
  /\ Races(hall, p) /\ hall.floor[p] = "changing"
  /\ LET h == [hall EXCEPT !.floor[p] = "up", !.player[p].noted = TRUE]
         on == race.on \cup {p}
     IN IF hall.player[p].noted \/ race.st = "none" \/ p \notin hall.racing THEN GoesOn(h, race)
        ELSE GoesOn(h, [race EXCEPT !.on = on, !.st = IF on = Racers THEN "running" ELSE @])
  /\ UNCHANGED arrivals

\* floorCompleting, not the last floor: an undecided race goes on through the door
NextFloor(p) ==
  /\ Races(hall, p) /\ FloorStands(hall, p) /\ ~hall.player[p].over /\ hall.player[p].noted /\ p \notin race.done
  /\ hall' = [hall EXCEPT !.floor[p] = "changing"]
  /\ UNCHANGED <<race, races, arrivals, logVars>>

\* runFailed: its own ending is on screen
RunFails(p) ==
  /\ Races(hall, p) /\ FloorStands(hall, p) /\ ~hall.player[p].ended
  /\ Loses([hall EXCEPT !.player[p].over = TRUE, !.player[p].ended = TRUE, !.floor[p] = "over"],
           IF p \in hall.racing THEN race ELSE NoRace, p)
  /\ UNCHANGED arrivals

\* The way out is taken: no floor ends any more
StartsLeaving(p) ==
  /\ FloorStands(hall, p) /\ hall' = [hall EXCEPT !.floor[p] = "leaving"]
  /\ UNCHANGED <<race, races, arrivals, logVars>>

\* runLeft: out of the dungeon, or dropped, at any time
WalksOut(p) ==
  /\ hall.player[p].phase # "out"
  /\ LET h == [hall EXCEPT !.player[p] = Away, !.floor[p] = "none"]
     IN Loses(IF Waits(hall, p) THEN LeaveQueue(h, p) ELSE h, race, p)
  /\ UNCHANGED arrivals

\* idle: the floor's watch (afk.js) marks whoever stands still and clears the mark at the next move.
\* A floor's watch starts unmarked and tells the adapter nothing of it.
Idles(p) ==
  /\ Waits(hall, p) /\ FloorStands(hall, p)
  /\ LET me == hall.player[p]
         mark == ~me.marked
         h == [hall EXCEPT !.player[p].idle = mark, !.player[p].marked = mark]
     IN hall' = IF me.queued THEN SetReady(h, p, ~mark)
                ELSE IF ~mark /\ me.ring = "in" THEN Enqueue(h, p) ELSE h
  /\ UNCHANGED <<race, races, arrivals, logVars>>

\* Mutant of SweepEndsRun: an ending that could not be given is not tried again
NeverAgain(p) == FALSE
\* sweep: an ending that found the player between floors is given now
SweepEndsRun(p) == Races(hall, p) /\ hall.player[p].over /\ ~hall.player[p].ended /\ FloorStands(hall, p)

SweepsRun(p) ==
  /\ SweepEndsRun(p) /\ hall' = EndRun(hall, p)
  /\ UNCHANGED <<race, races, arrivals, logVars>>

\* sweep, in a lobby: watchRing, the idle limit, a cooldown that ran out
SweepsLobby(p) ==
  /\ Waits(hall, p)
  /\ LET me == hall.player[p] IN
     \/ \E ring \in {"in", "out"} :
          /\ FloorStands(hall, p) /\ ring # me.ring /\ p \notin hall.racing
          /\ LET h == [hall EXCEPT !.player[p].ring = ring] IN
             hall' = IF ring = "in" THEN IF ~me.queued /\ ~me.idle THEN Enqueue(h, p) ELSE h
                     ELSE [LeaveQueue(h, p) EXCEPT !.player[p].queued = FALSE]
     \/ /\ me.queued /\ me.idle
        /\ hall' = [LeaveQueue(hall, p) EXCEPT !.player[p].queued = FALSE]
     \/ /\ ~me.queued /\ ~me.idle /\ me.ring = "in" /\ me.retry
        /\ hall' = Enqueue([hall EXCEPT !.player[p].retry = FALSE], p)
  /\ UNCHANGED <<race, races, arrivals, logVars>>

CoolsOff(p) ==
  /\ p \in hall.cooling /\ hall' = [hall EXCEPT !.cooling = @ \ {p}]
  /\ UNCHANGED <<race, races, arrivals, logVars>>

-----------------------------------------------------------------------------
(* The match log.                                                          *)

\* Mutant of Keeps: a match is written without a look at those still held
KeepsAnyway(match, taken) ==
  IF taken THEN log' = Append(log, match) /\ UNCHANGED held
  ELSE held' = Append(held, match) /\ UNCHANGED log
\* keep: behind the held ones, or written, or held
Keeps(match, taken) ==
  IF held = <<>> /\ taken THEN log' = Append(log, match) /\ UNCHANGED held
  ELSE held' = Append(held, match) /\ UNCHANGED log

WritesMatch ==
  /\ logQueue # <<>>
  /\ \E taken \in BOOLEAN :
       /\ taken \/ refusals < MaxRefusals
       /\ refusals' = IF taken THEN refusals ELSE refusals + 1
       /\ Keeps(Head(logQueue), taken)
  /\ logQueue' = Tail(logQueue)
  /\ UNCHANGED <<hall, race, races, arrivals>>

\* writeHeld, with no other write out: the oldest first
WritesHeld ==
  /\ held # <<>> /\ logQueue = <<>>
  /\ log' = Append(log, Head(held)) /\ held' = Tail(held)
  /\ UNCHANGED <<hall, race, races, arrivals, refusals, logQueue>>

Racer(p) ==
  \/ EntersLobby(p) \/ HeroInLobby(p) \/ HeroInRace(p) \/ NextFloor(p) \/ Crosses(p) \/ RunFails(p)
  \/ OffersDraw(p) \/ StartsLeaving(p) \/ WalksOut(p) \/ Idles(p) \/ SweepsRun(p) \/ SweepsLobby(p) \/ CoolsOff(p)
RankedNext ==
  \/ Pairs \/ Begins \/ StartsRace \/ TimeDecides \/ WritesMatch \/ WritesHeld
  \/ \E p \in Racers : Racer(p)

RankedSpec == RankedInit /\ [][RankedNext]_rankedVars

-----------------------------------------------------------------------------
(* Properties.                                                             *)

RankedTypeOK ==
  /\ \A p \in Racers : /\ hall.player[p].phase \in {"out", "lobby", "race"}
                       /\ hall.floor[p] \in {"none", "changing", "up", "leaving", "over"}
  /\ hall.queue \subseteq Racers /\ hall.ready \subseteq hall.queue /\ hall.racing \in {{}, Racers}
  /\ race.st \in {"none", "paired", "loading", "running"} /\ (race.st = "none") = (hall.racing = {})

\* Only players who can start now are paired: who is ready stands on a lobby floor, is not away
\* from the keyboard and is in no race. And a run in a race is never without one that will end it.
OnlyWhoCanStartIsReady ==
  /\ \A p \in hall.ready : Waits(hall, p) /\ hall.floor[p] # "changing" /\ ~hall.player[p].idle /\ p \notin hall.racing
  /\ \A p \in Racers : Races(hall, p) => hall.player[p].over \/ p \in hall.racing

\* The log and what waits for it are the decided matches in the order they were decided, which is
\* the order the ratings were moved in and are replayed in.
LogTellsTheRatings ==
  LET decided == log \o held \o logQueue IN
  \A i \in DOMAIN decided : decided[i] = i

\* A race that is over ends the run of whoever is still in it: at once, with the sweep of the next
\* second, or with the one after the floor their client is building.
DecidedRacesEnd ==
  \A p \in Racers :
    Races(hall, p) /\ hall.player[p].over /\ ~hall.player[p].ended =>
      SweepEndsRun(p) \/ ENABLED HeroInRace(p) \/ hall.floor[p] = "leaving"
=============================================================================
