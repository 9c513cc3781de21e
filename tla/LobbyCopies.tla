----------------------------- MODULE LobbyCopies -----------------------------
(***************************************************************************)
(* Who is seen in a world of one's own (copies.js): in each ranked lobby a *)
(* few of the others who wait, and in a race the ghost of the rival who    *)
(* follows (ranked/stock-client/adapter.js).  Copies are kept by the       *)
(* viewer, told of by the one shown, and drawn by the viewer's client      *)
(* until they are disabled or their floor goes.                            *)
(***************************************************************************)
EXTENDS Integers, Sequences, FiniteSets, SequencesExt

CONSTANTS Players, Racing, \* Racing: the two who are paired
          Most,            \* lobbyCopies
          Grace, ShowFor,  \* of the ghost
          Rooms,
          MaxCopyFloors, MaxMoment \* bounds

Worlds == {"lobby", "race"}
ASSUME CopiesAssumption ==
  /\ Racing \subseteq Players /\ Cardinality(Racing) = 2 /\ Most \in Nat \ {0}
  /\ Grace \in Nat /\ ShowFor \in Nat /\ MaxCopyFloors \in Nat /\ MaxMoment \in Nat

VARIABLES
  phase,     \* of a player: out, lobby, race
  closing,   \* those whose connection closes, and whose leave is still to come
  world,     \* floorDoid of each one's world
  finished,  \* floorFinished
  requested, \* whose client has built its floor and asked for its hero
  view,      \* views: by kind of world and viewer, the floor its copies stand on and whom it is shown
  watchers,  \* by kind of world and subject, the viewers it is shown to
  sees,      \* what each client draws
  room,      \* rooms: by racer, the room and since when
  past,      \* those over the finish line
  moment

copyVars == <<phase, closing, world, finished, requested, view, watchers, sees, room, past, moment>>
shownVars == <<view, watchers, sees>>
raceVars == <<room, past>>

NoView == [floor |-> 0, shown |-> {}, kept |-> FALSE]
NoRoom == [tile |-> "none", since |-> 0, floor |-> 0]
Live(p) == phase[p] # "out" /\ p \notin closing

-----------------------------------------------------------------------------
(* The views, as one record: they change together.                         *)

Seen == [view |-> view, watchers |-> watchers, sees |-> sees]
Shows(s) == view' = s.view /\ watchers' = s.watchers /\ sees' = s.sees

\* standing: the floor the copies were made on is up
StandsFor(s, w, v) ==
  Live(v) /\ s.view[w][v].floor # 0 /\ s.view[w][v].floor = world[v] /\ v \notin finished
\* make, watch
Makes(s, w, v, who) ==
  [s EXCEPT !.view[w][v].shown = @ \cup who, !.sees[v] = @ \cup ({w} \X who),
            !.watchers[w] = [p \in Players |-> IF p \in who THEN @[p] \cup {v} ELSE @[p]]]
Unwatched(s, w, v, who) ==
  [s EXCEPT !.view[w][v].shown = @ \ who, !.watchers[w] = [p \in Players |-> IF p \in who THEN @[p] \ {v} ELSE @[p]]]
\* Mutant of Unmakes: the disables are not sent
UnmakesSilently(s, w, v, who) == Unwatched(s, w, v, who)
\* unmake: by their own disables, if the floor is still there
Unmakes(s, w, v, who) ==
  IF StandsFor(s, w, v) THEN [Unwatched(s, w, v, who) EXCEPT !.sees[v] = @ \ ({w} \X who)] ELSE Unwatched(s, w, v, who)
\* forget: unsent, their floor takes them
Forgets(s, w, v) == Unwatched(s, w, v, s.view[w][v].shown)

\* Mutant of FollowsIn: anybody in the room
SharesRoom(v, p) == room[v].tile = room[p].tile
\* ghostVisible: who came into the room after one, and for a moment ...
FollowsIn(v, p) ==
  /\ room[v].tile = room[p].tile /\ room[p].since - room[v].since > Grace /\ moment - room[p].since <= ShowFor
\* ... and over the line, wherever the rival is
Visible(w, v, p) ==
  w = "race" =>
    /\ phase[v] = "race" /\ phase[p] = "race" /\ {v, p} = Racing
    /\ room[v] # NoRoom /\ room[p] # NoRoom /\ room[v].floor = room[p].floor
    /\ v \in past \/ FollowsIn(v, p)
PlacesIn(w) == IF w = "lobby" THEN Most ELSE 1

\* choose: of those whose floor is up, the ones seen least, at random among equals
Candidates(s, w, v, here) ==
  {p \in here \ ({v} \cup s.view[w][v].shown) : s.view[w][p].floor # 0 /\ Visible(w, v, p)}
Chosen(s, w, v, here, free) ==
  LET all == Candidates(s, w, v, here)
  IN {some \in SUBSET all : /\ Cardinality(some) = IF free < Cardinality(all) THEN free ELSE Cardinality(all)
                            /\ \A p \in some, q \in all \ some : Cardinality(s.watchers[w][p]) <= Cardinality(s.watchers[w][q])}

\* sync, of one viewer: every way its free places may be filled
Synced(s, w, v, here) ==
  IF ~s.view[w][v].kept THEN {s}
  ELSE IF v \notin here \/ ~Live(v) THEN {[Forgets(s, w, v) EXCEPT !.view[w][v] = NoView]}
  ELSE IF world[v] # s.view[w][v].floor THEN {[Forgets(s, w, v) EXCEPT !.view[w][v].floor = 0]}
  ELSE IF v \in finished THEN {s}
  ELSE LET gone == {p \in s.view[w][v].shown : ~(p \in here /\ s.view[w][p].floor # 0 /\ Visible(w, v, p) /\ Live(p))}
           left == Unmakes(s, w, v, gone)
           free == PlacesIn(w) - Cardinality(left.view[w][v].shown)
       IN {Makes(left, w, v, {p \in some : Live(p)}) : some \in IF free <= 0 THEN {{}} ELSE Chosen(left, w, v, here, free)}
SyncedAll(ss, w, order) ==
  LET here == {p \in Players : phase[p] = w}
  IN FoldLeft(LAMBDA set, v : UNION {Synced(s, w, v, here) : s \in set}, ss, order)

\* leave
Left(s, w, p) ==
  LET own == [Forgets(s, w, p) EXCEPT !.view[w][p] = NoView]
      told == FoldLeft(LAMBDA t, v : Unmakes(t, w, v, {p}), own, SetToSeq({v \in own.watchers[w][p] : own.view[w][v].kept}))
  IN [told EXCEPT !.watchers[w][p] = {}]
\* Mutant of Undrawn: forgotten with the floor that is still to go
ForgottenOnly(s, w, v) == [Forgets(s, w, v) EXCEPT !.view[w][v].floor = 0]
\* clear
Undrawn(s, w, v) ==
  IF s.view[w][v].kept THEN [Unmakes(s, w, v, s.view[w][v].shown) EXCEPT !.view[w][v].floor = 0] ELSE s

-----------------------------------------------------------------------------
CopyInit ==
  /\ phase = [p \in Players |-> "out"] /\ closing = {} /\ world = [p \in Players |-> 0]
  /\ finished = {} /\ requested = {} /\ moment = 0 /\ past = {} /\ room = [p \in Players |-> NoRoom]
  /\ view = [w \in Worlds |-> [p \in Players |-> NoView]] /\ watchers = [w \in Worlds |-> [p \in Players |-> {}]]
  /\ sees = [p \in Players |-> {}]

\* planFor, and the floor is sent
TakesPlace(p) ==
  /\ phase[p] = "out" /\ world[p] = 0
  /\ phase' = [phase EXCEPT ![p] = "lobby"] /\ world' = [world EXCEPT ![p] = 1]
  /\ UNCHANGED <<closing, finished, requested, shownVars, raceVars, moment>>
\* heroRequested, floorUp: once a floor
AsksForHero(p) ==
  /\ Live(p) /\ p \notin requested /\ requested' = requested \cup {p}
  /\ Shows([Forgets(Seen, phase[p], p) EXCEPT !.view[phase[p]][p] = [floor |-> world[p], shown |-> {}, kept |-> TRUE]])
  /\ room' = IF phase[p] = "race" THEN [room EXCEPT ![p] = NoRoom] ELSE room
  /\ UNCHANGED <<phase, closing, world, finished, past, moment>>
\* sweep: the lobbies, then the races, viewer after viewer
Kept(w) == {p \in Players : view[w][p].kept}
SweepsCopies ==
  /\ Kept("lobby") \cup Kept("race") # {}
  /\ \E order \in SetToSeqs(Kept("lobby")) : \E s \in SyncedAll({Seen}, "lobby", order) :
       \E t \in SyncedAll({s}, "race", SetToSeq(Kept("race"))) : Shows(t)
  /\ UNCHANGED <<phase, closing, world, finished, requested, raceVars, moment>>
\* start: whose floor cannot end stays in the lobby
RaceStarts ==
  /\ \A p \in Racing : phase[p] = "lobby" /\ Live(p) /\ p \in requested
  /\ LET ready == {p \in Racing : p \notin finished}
     IN /\ phase' = [p \in Players |-> IF p \in ready THEN "race" ELSE phase[p]]
        /\ finished' = finished \cup ready
  /\ Shows(FoldLeft(LAMBDA s, p : Left(s, "lobby", p), Seen, SetToSeq(Racing)))
  /\ UNCHANGED <<closing, world, requested, raceVars, moment>>
\* A floor ends into the next: a lobby renewed, a race's door
FloorFinishes(p) ==
  /\ Live(p) /\ p \in requested \ (finished \cup past) /\ world[p] < MaxCopyFloors /\ finished' = finished \cup {p}
  /\ UNCHANGED <<phase, closing, world, requested, shownVars, raceVars, moment>>
\* ... and takes with it what stands on it
FloorGoes(p) ==
  /\ Live(p) /\ p \in finished /\ world[p] < MaxCopyFloors /\ world' = [world EXCEPT ![p] = @ + 1]
  /\ finished' = finished \ {p} /\ requested' = requested \ {p} /\ sees' = [sees EXCEPT ![p] = {}]
  /\ UNCHANGED <<phase, closing, view, watchers, raceVars, moment>>
\* noteRoom
EntersRoom(p, r) ==
  /\ Live(p) /\ phase[p] = "race" /\ p \in requested \ finished
  /\ room[p].tile # r \/ room[p].floor # world[p]
  /\ room' = [room EXCEPT ![p] = [tile |-> r, since |-> moment, floor |-> world[p]]]
  /\ UNCHANGED <<phase, closing, world, finished, requested, shownVars, past, moment>>
\* finishLine: not decided, the floor holds and the ghost stays
CrossesLine(p) ==
  /\ Live(p) /\ phase[p] = "race" /\ p \in requested \ (finished \cup past) /\ past' = past \cup {p}
  /\ UNCHANGED <<phase, closing, world, finished, requested, shownVars, room, moment>>
\* endRun, runFailed, finishLine of the winner: the ghost first; that the floor ends may not be heard
RunEnds(p) ==
  /\ Live(p) /\ phase[p] = "race" /\ p \in requested \ finished
  /\ Shows(Undrawn(Seen, "race", p)) /\ finished' \in {finished, finished \cup {p}}
  /\ UNCHANGED <<phase, closing, world, requested, raceVars, moment>>
\* A connection is closing: its client draws no more
Disconnects(p) ==
  /\ Live(p) /\ closing' = closing \cup {p} /\ sees' = [sees EXCEPT ![p] = {}]
  /\ UNCHANGED <<phase, world, finished, requested, view, watchers, raceVars, moment>>
\* runLeft
LeavesRace(p) ==
  /\ phase[p] # "out" /\ phase' = [phase EXCEPT ![p] = "out"] /\ closing' = closing \ {p}
  /\ LET s == Left(Left(Seen, "lobby", p), "race", p) IN Shows([s EXCEPT !.sees[p] = {}])
  /\ room' = [room EXCEPT ![p] = NoRoom] /\ past' = past \ {p} /\ finished' = finished \ {p} /\ requested' = requested \ {p}
  /\ UNCHANGED <<world, moment>>
MomentPasses ==
  moment < MaxMoment /\ moment' = moment + 1 /\ UNCHANGED <<phase, closing, world, finished, requested, shownVars, raceVars>>

CopyNext ==
  \/ \E p \in Players :
       \/ TakesPlace(p) \/ AsksForHero(p) \/ FloorFinishes(p) \/ FloorGoes(p) \/ CrossesLine(p) \/ RunEnds(p)
       \/ Disconnects(p) \/ LeavesRace(p) \/ \E r \in Rooms : EntersRoom(p, r)
  \/ SweepsCopies \/ RaceStarts \/ MomentPasses
CopySpec == CopyInit /\ [][CopyNext]_copyVars

-----------------------------------------------------------------------------
(* Properties.                                                             *)

\* Types: a viewer is shown others, as many as there are places, and only where it keeps a view.
CopyTypeOK ==
  /\ phase \in [Players -> {"out", "lobby", "race"}] /\ closing \subseteq Players /\ finished \subseteq Players
  /\ \A w \in Worlds, p \in Players :
       /\ view[w][p].shown \subseteq Players \ {p} /\ Cardinality(view[w][p].shown) <= PlacesIn(w)
       /\ view[w][p].kept \/ view[w][p] = NoView

\* Who is shown somewhere is told where, and nobody else is (watch, unwatch, forget, leave).
WatchersMirrorViews == \A w \in Worlds, p \in Players : watchers[w][p] = {v \in Players : p \in view[w][v].shown}

\* As long as a floor stands, its client draws exactly whom the server thinks it shows (unmake and forget).
OnlyTheShownAreDrawn ==
  \A v \in Players : Live(v) /\ v \in requested \ finished => sees[v] = UNION {{w} \X view[w][v].shown : w \in Worlds}

\* Nobody tails the leader: short of the line, two racers never see each other's ghosts (ghostVisible).
NobodyTailsTheLeader ==
  \A p \in Players : \A q \in view["race"][p].shown : p \in view["race"][q].shown => {p, q} \cap past # {}
=============================================================================
