----------------------------- MODULE WorldJoin -----------------------------
(***************************************************************************)
(* One match's world (match-world.js): built by its first member, replayed *)
(* to whoever joins later (match-runtime.js), swapped floor by floor       *)
(* (floor-exit.js) and left.  Joins and floor changes take turns           *)
(* (runExclusive); leaving waits for nobody.                               *)
(*                                                                         *)
(* What a client holds is its `view`: whose player and hero objects, which *)
(* floor, which of the floor object's own fields (its tiles, when a secret *)
(* room opens) and which of the objects on it.  The last two are versions. *)
(* A step ends where the code awaits a client, a timer or a file.          *)
(***************************************************************************)
EXTENDS Naturals, Sequences, FiniteSets, SequencesExt

CONSTANTS Joiners,
          Nobody,      \* has no turn
          MaxEntries,  \* bound: entries per member
          Floors,      \* floorCount of the run
          MaxMoves   \* bound: rooms opened and monsters changed per run

ASSUME WorldAssumption ==
  /\ Nobody \notin Joiners
  /\ {MaxEntries, MaxMoves} \subseteq Nat /\ Floors \in Nat \ {0}

VARIABLES
  world,     \* phase, floor, the two versions, whether its ending has begun, changes made
  stage,     \* how far each member's entry is
  present,      \* liveMembers
  turns,     \* operationTail: whose operations wait, the running one first
  party,     \* the members a floor change set out with
  view,      \* what each client holds
  answers,   \* entryHandshake.pending: what each client asked for, and in which entry
  entries    \* entries of each member so far

worldVars == <<world, stage, present, turns, party, view, answers, entries>>

Empty == [players |-> {}, heroes |-> {}, floor |-> 0, tiles |-> 0, things |-> 0]
NoWorld == [phase |-> "none", floor |-> 0, tiles |-> 0, things |-> 0, exit |-> "shut", changes |-> 0]
Bound == {m \in Joiners : stage[m] \notin {"town", "gone"}}   \* match.members
Running == IF turns = <<>> THEN [who |-> Nobody, op |-> "none"] ELSE Head(turns)
HasTurn(m, op) == Running = [who |-> m, op |-> op]

Turn == [who : Joiners, op : {"build", "join", "advance"}]
View == [players : SUBSET Joiners, heroes : SUBSET Joiners, floor : 0..Floors, tiles : Nat, things : Nat]
World == [phase : {"none", "building", "ready", "finished", "destroyed"}, floor : 0..Floors, tiles : Nat,
          things : Nat, exit : {"shut", "reached", "read", "left"}, changes : Nat]
EntryStages == {"town", "gone", "building", "queued", "area", "floor", "heroes", "present"}
WorldTypeOK ==
  /\ world \in World
  /\ stage \in [Joiners -> EntryStages]
  /\ present \subseteq Joiners /\ party \subseteq Joiners /\ turns \in Seq(Turn)
  /\ view \in [Joiners -> View]
  /\ answers \in [Joiners -> SUBSET [what : {"entry", "hero"}, entry : Nat]] /\ entries \in [Joiners -> Nat]

WorldInit ==
  /\ world = NoWorld /\ present = {} /\ turns = <<>> /\ party = {}
  /\ stage = [m \in Joiners |-> "town"]
  /\ view = [m \in Joiners |-> Empty]
  /\ answers = [m \in Joiners |-> {}]
  /\ entries = [m \in Joiners |-> 0]

-----------------------------------------------------------------------------
(* Entering.                                                               *)

\* joinDungeonMatch, once an entry of its own that was given up has ended
\* (session-transitions.js): the first member makes the world and is live in it at once
ComesIn(m) ==
  /\ stage[m] = "town" /\ entries[m] < MaxEntries
  /\ world.phase \in {"none", "building", "ready"}
  /\ \A i \in DOMAIN turns : turns[i].who = m => turns[i].op = "advance"
  /\ entries' = [entries EXCEPT ![m] = @ + 1]
  /\ IF world.phase = "none"
     THEN /\ world' = [world EXCEPT !.phase = "building"]
          /\ present' = {m} /\ stage' = [stage EXCEPT ![m] = "building"]
          /\ turns' = <<[who |-> m, op |-> "build"]>>
     ELSE /\ stage' = [stage EXCEPT ![m] = "queued"]
          /\ turns' = Append(turns, [who |-> m, op |-> "join"])
          /\ UNCHANGED <<world, present>>
  /\ UNCHANGED <<party, view, answers>>

\* PLAYER_REQUEST_ENTRY once the area is there, PLAYER_REQUEST_HERO once a floor is
Asks(m, what) ==
  /\ m \in Bound /\ view[m].players # {}
  /\ what = "hero" => view[m].floor > 0
  /\ answers' = [answers EXCEPT ![m] = @ \cup {[what |-> what, entry |-> entries[m]]}]
  /\ UNCHANGED <<world, stage, present, turns, party, view, entries>>

\* Mutant of Waited: the wait has no timer
WaitedForever(m, what) ==
  \E a \in answers[m] : a.what = what /\ answers' = [answers EXCEPT ![m] = @ \ {a}]
\* waitForEntryHandshake: answered already, answered in time, or timed out
Waited(m, what) ==
  \/ \E a \in answers[m] : a.what = what /\ answers' = [answers EXCEPT ![m] = @ \ {a}]
  \/ (\A a \in answers[m] : a.what # what) /\ UNCHANGED answers

\* buildFirstMember: the owner player and the area
BuildsArea(m) ==
  /\ HasTurn(m, "build") /\ stage[m] = "building" /\ view[m].players = {}
  /\ view' = [view EXCEPT ![m].players = {m}]
  /\ UNCHANGED <<world, stage, present, turns, party, answers, entries>>
BuildsFloor(m) ==
  /\ HasTurn(m, "build") /\ stage[m] = "building" /\ view[m].players # {} /\ world.floor = 0
  /\ Waited(m, "entry")
  /\ world' = [world EXCEPT !.floor = 1]
  /\ view' = [view EXCEPT ![m].floor = 1]
  /\ UNCHANGED <<stage, present, turns, party, entries>>
\* buildFloorWorld and markReady; a host that walked out is not asked about, one that
\* disconnected is
BuildsWorld(m) ==
  /\ HasTurn(m, "build") /\ stage[m] # "gone" /\ world.phase = "building"
  /\ stage[m] = "building" => world.floor = 1 /\ Waited(m, "hero")
  /\ stage[m] # "building" => UNCHANGED answers
  /\ world' = [world EXCEPT !.phase = "ready", !.floor = 1, !.things = 1]
  /\ stage' = [stage EXCEPT ![m] = IF @ = "building" THEN "present" ELSE @]
  /\ view' = [v \in Joiners |-> IF v \in present
                THEN [view[v] EXCEPT !.heroes = @ \cup present, !.things = 1] ELSE view[v]]
  /\ turns' = Tail(turns)
  /\ UNCHANGED <<present, party, entries>>

\* destroy: everybody still bound is let go of; what waits for a turn fails
Abandoned ==
  /\ world' = [NoWorld EXCEPT !.phase = "destroyed"]
  /\ stage' = [m \in Joiners |-> IF m \in Bound THEN "town" ELSE stage[m]]
  /\ present' = {} /\ turns' = <<>>
  /\ view' = [m \in Joiners |-> Empty] /\ answers' = [m \in Joiners |-> {}]
BuildFails(m) ==
  /\ HasTurn(m, "build") /\ world.phase = "building" /\ stage[m] \in {"building", "gone"}
  /\ Abandoned
  /\ UNCHANGED <<party, entries>>

-----------------------------------------------------------------------------
(* Joining late: every step asks requireOpenMember and requireJoinableWorld *)
(* again.                                                                   *)

\* Mutant of Cleared: what was asked for stays noted
Kept(m) == answers
\* clearEntryHandshake
Cleared(m) == [answers EXCEPT ![m] = {}]
Joinable(m) == world.phase = "ready" /\ m \in Bound

\* The joiner's player, the area, everybody else's
JoinsArea(m) ==
  /\ HasTurn(m, "join") /\ stage[m] = "queued" /\ Joinable(m)
  /\ stage' = [stage EXCEPT ![m] = "area"]
  /\ view' = [view EXCEPT ![m].players = present \cup {m}]
  /\ UNCHANGED <<world, present, turns, party, answers, entries>>
JoinsFloor(m) ==
  /\ HasTurn(m, "join") /\ stage[m] = "area" /\ Joinable(m)
  /\ Waited(m, "entry")
  /\ stage' = [stage EXCEPT ![m] = "floor"]
  /\ view' = [view EXCEPT ![m].floor = world.floor, ![m].tiles = world.tiles]
  /\ UNCHANGED <<world, present, turns, party, entries>>
\* Its hero, and everybody else's; then its pet is looked up
JoinsHeroes(m) ==
  /\ HasTurn(m, "join") /\ stage[m] = "floor" /\ Joinable(m)
  /\ Waited(m, "hero")
  /\ stage' = [stage EXCEPT ![m] = "heroes"]
  /\ view' = [view EXCEPT ![m].heroes = present \cup {m}]
  /\ UNCHANGED <<world, present, turns, party, entries>>
\* Mutant of NewcomerTo: those already there are not told
StrangerTo(m, v) == view[v]
NewcomerTo(m, v) == [view[v] EXCEPT !.players = @ \cup {m}, !.heroes = @ \cup {m}]
\* What is on the floor, everybody else is told, and live traffic begins: one turn
JoinsLive(m) ==
  /\ HasTurn(m, "join") /\ stage[m] = "heroes" /\ Joinable(m)
  /\ stage' = [stage EXCEPT ![m] = "present"]
  /\ present' = present \cup {m}
  /\ view' = [v \in Joiners |-> IF v = m THEN [view[v] EXCEPT !.things = world.things]
                                ELSE IF v \in present THEN NewcomerTo(m, v) ELSE view[v]]
  /\ turns' = Tail(turns)
  /\ UNCHANGED <<world, party, answers, entries>>
\* Whoever asked is sent home
JoinFails(m) ==
  /\ HasTurn(m, "join") /\ ~Joinable(m) /\ world.phase # "building"
  /\ turns' = Tail(turns)
  /\ stage' = [stage EXCEPT ![m] = IF @ = "gone" THEN @ ELSE "town"]
  /\ view' = [view EXCEPT ![m] = Empty] /\ answers' = Cleared(m)
  /\ UNCHANGED <<world, present, party, entries>>

-----------------------------------------------------------------------------
(* Leaving, at any moment: by walking out or by the connection going.      *)

Dropped(m, v) == [view[v] EXCEPT !.players = @ \ {m}, !.heroes = @ \ {m}]
\* leaveDungeonSession: those who are live are told; the last to leave closes the match
GoesOut(m) ==
  /\ m \in Bound
  /\ IF Bound = {m} THEN Abandoned
     ELSE /\ present' = present \ {m}
          /\ view' = [v \in Joiners |-> IF v = m THEN Empty
                                        ELSE IF v \in present THEN Dropped(m, v) ELSE view[v]]
          /\ answers' = Cleared(m)
          /\ \E to \in {"town", "gone"} : stage' = [stage EXCEPT ![m] = to]
          /\ UNCHANGED <<world, turns>>
  /\ UNCHANGED <<party, entries>>

-----------------------------------------------------------------------------
(* The run.                                                                *)

\* A secret room opens (the floor's tiles, then what stands in it), or a monster changes:
\* published to those who are live, and kept for a late joiner
Changes(opens) ==
  /\ world.phase = "ready" /\ world.things > 0 /\ world.changes < MaxMoves
  /\ LET t == IF opens THEN world.tiles + 1 ELSE world.tiles
         n == world.things + 1
     IN /\ world' = [world EXCEPT !.tiles = t, !.things = n, !.changes = @ + 1]
        /\ view' = [v \in Joiners |-> IF v \in present
                      THEN [view[v] EXCEPT !.tiles = IF opens THEN t ELSE @, !.things = n]
                      ELSE view[v]]
  /\ UNCHANGED <<stage, present, turns, party, answers, entries>>

\* checkFloorExit and completeFloor: the next floor, or the end of the run
ReachesExit(m) ==
  /\ world.phase = "ready" /\ m \in present /\ stage[m] = "present" /\ world.exit = "shut" /\ world.things > 0
  /\ IF world.floor < Floors
     THEN /\ turns' = Append(turns, [who |-> m, op |-> "advance"])
          /\ world' = [world EXCEPT !.exit = "reached"]
     ELSE /\ world' = [world EXCEPT !.exit = "reached", !.phase = "finished"]
          /\ UNCHANGED turns
  /\ UNCHANGED <<stage, present, party, view, answers, entries>>

\* The party is read, and the next floor's file is waited for
AdvanceBegins(m) ==
  /\ HasTurn(m, "advance") /\ world.phase = "ready" /\ world.exit = "reached"
  /\ party' = present /\ world' = [world EXCEPT !.exit = "read"]
  /\ UNCHANGED <<stage, present, turns, view, answers, entries>>
\* The old floor goes from every client with all that is on it, and the new one comes bare
AdvanceSwaps(m) ==
  /\ HasTurn(m, "advance") /\ world.phase = "ready" /\ world.exit = "read"
  /\ world' = [world EXCEPT !.floor = @ + 1, !.tiles = 0, !.things = 0, !.exit = "left"]
  /\ view' = [v \in Joiners |-> IF v \in present
                THEN [view[v] EXCEPT !.heroes = @ \ party, !.floor = world.floor + 1,
                                     !.tiles = 0, !.things = 0] ELSE view[v]]
  /\ party' = {}
  /\ UNCHANGED <<stage, present, turns, answers, entries>>
\* buildPartyHeroes and the builders: the members there are by now
AdvanceBuilds(m) ==
  /\ HasTurn(m, "advance") /\ world.phase = "ready" /\ world.exit = "left"
  /\ world' = [world EXCEPT !.things = 1, !.exit = "shut"]
  /\ view' = [v \in Joiners |-> IF v \in present
                THEN [view[v] EXCEPT !.heroes = @ \cup present, !.things = 1] ELSE view[v]]
  /\ turns' = Tail(turns)
  /\ UNCHANGED <<stage, present, party, answers, entries>>

OperationStep(m) ==
  \/ BuildsArea(m) \/ BuildsFloor(m) \/ BuildsWorld(m) \/ BuildFails(m)
  \/ JoinsArea(m) \/ JoinsFloor(m) \/ JoinsHeroes(m) \/ JoinsLive(m) \/ JoinFails(m)
  \/ AdvanceBegins(m) \/ AdvanceSwaps(m) \/ AdvanceBuilds(m)
WorldNext ==
  \/ \E m \in Joiners : ComesIn(m) \/ GoesOut(m) \/ ReachesExit(m) \/ OperationStep(m)
  \/ \E m \in Joiners : \E what \in {"entry", "hero"} : Asks(m, what)
  \/ \E opens \in BOOLEAN : Changes(opens)

WorldSpec == WorldInit /\ [][WorldNext]_worldVars

\* Timers fire, files are read and turns are passed on; clients and players may do nothing
WorldFairness == \A m \in Joiners : WF_worldVars(OperationStep(m))

-----------------------------------------------------------------------------
(* Properties.                                                             *)

Settled == world.phase = "ready" /\ world.exit # "left"

\* Nobody is missed: whoever is live holds everybody else who is, on the floor the run is
\* on, with all that is on it as it is.
EveryoneIsSeen ==
  Settled => \A m \in present : stage[m] = "present" =>
    /\ present \subseteq view[m].players /\ present \subseteq view[m].heroes
    /\ view[m].floor = world.floor /\ view[m].things = world.things

\* "A late join needs the world as it is now, not the create history that led to it"
\* (match-world.js).
LateJoinSeesTheWorldAsItIs ==
  Settled => \A m \in present : stage[m] = "present" =>
    view[m] = [players |-> present, heroes |-> present, floor |-> world.floor,
               tiles |-> world.tiles, things |-> world.things]

\* An answer belongs to the entry it was given in.
AnswersAreFresh == \A m \in Bound : \A a \in answers[m] : a.entry = entries[m]

\* Turns are taken: nobody builds or joins twice at once, whoever is on the way in has the turn, and
\* a floor is between two while the change of floors has it; a world half built has no exit yet.
Waits(m) == \E i \in DOMAIN turns : turns[i].who = m /\ turns[i].op # "advance"
NobodyWaitsTwice ==
  \A i, j \in DOMAIN turns :
    turns[i].who = turns[j].who /\ turns[i].op # "advance" /\ turns[j].op # "advance" => i = j
TurnsAreTaken ==
  /\ NobodyWaitsTwice
  /\ \A m \in Joiners : stage[m] = "building" => world.phase = "building" /\ HasTurn(m, "build")
  /\ \A m \in Joiners : stage[m] \in {"area", "floor", "heroes"} => HasTurn(m, "join")
  /\ world.exit \in {"read", "left"} => Running.op = "advance"
  /\ world.phase = "ready" /\ world.exit \in {"reached", "read"} => world.floor < Floors
  /\ world.phase = "building" => world.exit = "shut"

\* Who is live is in: it has built the world or joined it, and has no entry to wait for.
TheLiveAreIn ==
  /\ world.phase = "none" => world = NoWorld /\ turns = <<>> /\ \A m \in Joiners : stage[m] = "town"
  /\ \A m \in present : IF world.phase = "building" THEN stage[m] = "building" ELSE stage[m] = "present" /\ ~Waits(m)

\* What a client holds on its way in, as far as it is: at least everybody who is live by now, though
\* nobody tells it of those who come to the floor or leave it meanwhile.
EntriesAreUnderWay ==
  \A m \in Joiners :
    /\ stage[m] \in {"town", "gone", "queued"} => view[m] = Empty
    /\ stage[m] \in {"town", "gone"} => answers[m] = {}
    /\ stage[m] = "building" => view[m].players \subseteq {m}
    /\ stage[m] = "building" /\ world.floor = 1 => view[m].players = {m} /\ view[m].floor = 1
    /\ stage[m] \in {"area", "floor", "heroes"} => present \cup {m} \subseteq view[m].players
    /\ stage[m] \in {"floor", "heroes"} => view[m].floor = world.floor
    /\ stage[m] = "heroes" => present \cup {m} \subseteq view[m].heroes

\* Nobody is missed, between two floors neither: the inductive form of EveryoneIsSeen.
TheLiveSeeEachOther ==
  world.phase = "ready" => \A m \in present :
    /\ present \subseteq view[m].players
    /\ view[m].floor = world.floor /\ view[m].things = world.things
    /\ world.exit # "left" => present \subseteq view[m].heroes

WorldInv == TurnsAreTaken /\ TheLiveAreIn /\ EntriesAreUnderWay /\ TheLiveSeeEachOther /\ AnswersAreFresh

\* Whoever enters gets in or home, whatever the others do and whatever clients leave unsaid.
EntriesEnd ==
  \A m \in Joiners : stage[m] \in {"building", "queued", "area", "floor", "heroes"}
                       ~> stage[m] \in {"present", "town", "gone"}
=============================================================================
