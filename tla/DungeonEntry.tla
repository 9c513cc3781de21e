---------------------------- MODULE DungeonEntry ----------------------------
(***************************************************************************)
(* How a connection gets into a dungeon, through a door and out again,     *)
(* when dungeons run in worker threads: the transitions of                 *)
(* session-transitions.js, the places of the match registry (matches.js),  *)
(* the routes of the worker pool (match-worker-pool.js) and the members of *)
(* a worker (match-worker-thread.js).                                      *)
(*                                                                         *)
(* A connection has at most one entry or door under way (`job`), cancelled *)
(* or not, and at most one exit, which cancels it.  The main thread counts *)
(* the connection in a match from the reservation on, routes it to the     *)
(* match's worker, and hears from there over a FIFO channel.               *)
(*                                                                         *)
(* One action is one macrotask of one thread: what runs because a promise  *)
(* was settled in it (an exit answered once the run has been left, an      *)
(* entry given up) belongs to it.  Accounts, their leases and their saves  *)
(* are AccountLease's; here an admission is granted or refused.            *)
(***************************************************************************)
EXTENDS Naturals, Sequences, FiniteSets

CONSTANTS Conns,       \* connections, each made once
          Accounts, AccountOf,
          Workers,     \* slots of the worker pool
          MatchIds,    \* ids of matches, never used twice
          Capacity,    \* players of a match
          Callers,     \* the connections whose dungeon may send them on, or home
          Droppers,    \* those that may close on their own
          Offenders,   \* those a worker may ask to have closed
          NoWorker, NoMatch,
          MaxEntries,  \* how often each connection may be routed
          MaxCrashes   \* how many times a worker may die

ASSUME EntryAssumption ==
  /\ AccountOf \in [Conns -> Accounts]
  /\ Callers \subseteq Conns /\ Droppers \subseteq Conns /\ Offenders \subseteq Conns
  /\ MatchIds \subseteq Nat
  /\ NoWorker \notin Workers /\ NoMatch \notin MatchIds
  /\ MaxEntries \in [Conns -> Nat]
  /\ Capacity \in Nat \ {0} /\ MaxCrashes \in Nat

VARIABLES
  \* each connection: whether its socket is open; its entry or door under way, and
  \* whether that is cancelled; its exit; its matchGeneration and matchRoute
  online, job, cancelled, exit, gen, route,
  \* the registry: the state of each match, the match of each connection
  \* (session.dungeonMatch, and that match's members), and matchByAccount
  state, in, byAccount,
  \* the workers: which run, their members, and entries whose member has left
  running, member, late,
  \* the channels: worker to main thread, main thread to worker
  up, down,
  \* the clients: which hold objects of a dungeon, which were last sent home
  shown, home,
  crashes

connVars     == <<online, job, cancelled, exit, gen, route>>
registryVars == <<state, in, byAccount>>
workerVars   == <<running, member, late>>
clientVars   == <<shown, home>>
vars == <<connVars, registryVars, workerVars, up, down, clientVars, crashes>>

-----------------------------------------------------------------------------
NoJob    == [kind |-> "none", phase |-> "none"]
NoRoute  == [at |-> NoWorker, to |-> NoMatch, state |-> "none"]
NoMember == [gen |-> 0, to |-> NoMatch, phase |-> "none", leaving |-> "no"]

Jobs ==
  {NoJob} \cup [kind : {"entry"}, phase : {"admitting", "loading", "unwinding", "failing"}]
          \cup [kind : {"door"}, phase : {"checking", "leaving", "admitting", "loading",
                                          "unwinding", "failing"}]
Routes == {NoRoute} \cup [at : Workers, to : MatchIds, state : {"joining", "entered", "leaving"}]
Members ==
  {NoMember} \cup [gen : Nat \ {0}, to : MatchIds, phase : {"entering", "shown", "in", "failed"},
                   leaving : {"no", "disables", "dropped"}]
DownMsg == [op : {"join"}, who : Conns, gen : Nat \ {0}, to : MatchIds]
             \cup [op : {"leave"}, who : Conns, gen : Nat \ {0},
                   note : {"disables", "closed"}]
UpMsg ==
  [op : {"ready", "joined", "failed", "door", "home", "close"}, who : Conns, gen : Nat \ {0}]
    \cup [op : {"left"}, who : Conns, gen : Nat \ {0}, note : {"disables", "silent"}]
    \cup [op : {"finished", "matchFailed"}, to : MatchIds]

\* One type invariant: what each variable holds.
TypeOK ==
  /\ online \in [Conns -> {"off", "on", "closing", "gone"}]
  /\ job \in [Conns -> Jobs] /\ cancelled \subseteq Conns
  /\ exit \in [Conns -> {"none", "leaving", "waiting"}]
  /\ gen \in [Conns -> Nat] /\ route \in [Conns -> Routes]
  /\ state \in [MatchIds -> {"unused", "active", "finished", "failed", "closed"}]
  /\ in \in [Conns -> MatchIds \cup {NoMatch}]
  /\ byAccount \in [Accounts -> MatchIds \cup {NoMatch}]
  /\ running \subseteq Workers
  /\ member \in [Workers -> [Conns -> Members]]
  /\ late \in [Workers -> SUBSET (Conns \X (Nat \ {0}))]
  /\ up \in [Workers -> Seq(UpMsg)] /\ down \in [Workers -> Seq(DownMsg)]
  /\ shown \subseteq Conns /\ home \subseteq Conns
  /\ crashes \in 0..MaxCrashes

Init ==
  /\ online = [c \in Conns |-> "off"]
  /\ job = [c \in Conns |-> NoJob] /\ cancelled = {}
  /\ exit = [c \in Conns |-> "none"]
  /\ gen = [c \in Conns |-> 0] /\ route = [c \in Conns |-> NoRoute]
  /\ state = [m \in MatchIds |-> "unused"]
  /\ in = [c \in Conns |-> NoMatch] /\ byAccount = [a \in Accounts |-> NoMatch]
  /\ running = Workers
  /\ member = [w \in Workers |-> [c \in Conns |-> NoMember]]
  /\ late = [w \in Workers |-> {}]
  /\ up = [w \in Workers |-> <<>>] /\ down = [w \in Workers |-> <<>>]
  /\ shown = {} /\ home = {}
  /\ crashes = 0

Post(ch, w, msg) == [ch EXCEPT ![w] = Append(@, msg)]
Open(c) == online[c] = "on"
MembersOf(m) == {c \in Conns : in[c] = m}
Routed(c) == route[c] # NoRoute
\* inDungeon: in a match, as far as the main thread can tell
InDungeon(c) == in[c] # NoMatch \/ Routed(c)
\* `current` of the connection's SessionTransitions
Busy(c) == job[c] # NoJob \/ exit[c] # "none"

-----------------------------------------------------------------------------
(* The registry's places.                                                  *)

\* canJoin
CanJoin(m) == state[m] = "active" /\ Cardinality(MembersOf(m)) < Capacity
\* add: no other session of the account is in the match its index names
AccountIsFree(c) ==
  LET m == byAccount[AccountOf[c]]
  IN m = NoMatch \/ \A d \in MembersOf(m) : AccountOf[d] # AccountOf[c]
\* create: ids are handed out in order
NextMatch(m) == state[m] = "unused" /\ \A n \in MatchIds : state[n] = "unused" => m <= n

\* reserve: a place in match m, which is joined or made for it
Reserved(c, m) ==
  /\ CanJoin(m) \/ NextMatch(m)
  /\ AccountIsFree(c)
  /\ state' = [state EXCEPT ![m] = "active"]
  /\ in' = [in EXCEPT ![c] = m]
  /\ byAccount' = [byAccount EXCEPT ![AccountOf[c]] = m]

\* remove: the match a session is taken out of - its own, or the one its account is in
MatchOf(c) == IF in[c] # NoMatch THEN in[c] ELSE byAccount[AccountOf[c]]

\* Mutant of RemovedAndClosed: matchByAccount is left alone
RemovedKeepingIndex(S, M) ==
  /\ in' = [c \in Conns |-> IF c \in S \/ in[c] \in M THEN NoMatch ELSE in[c]]
  /\ state' = [m \in MatchIds |->
       IF m \in M \/ (m \in {MatchOf(c) : c \in S} /\ MembersOf(m) \subseteq S)
       THEN "closed" ELSE state[m]]
  /\ UNCHANGED byAccount
\* remove, for each of the sessions in S, then close of the matches in M
RemovedAndClosed(S, M) ==
  /\ in' = [c \in Conns |-> IF c \in S \/ in[c] \in M THEN NoMatch ELSE in[c]]
  /\ byAccount' = [a \in Accounts |->
       IF \/ \E c \in S : AccountOf[c] = a /\ MatchOf(c) = byAccount[a]
          \/ \E c \in Conns : AccountOf[c] = a /\ in[c] \in M /\ in[c] = byAccount[a]
       THEN NoMatch ELSE byAccount[a]]
  /\ state' = [m \in MatchIds |->
       IF m \in M \/ (m \in {MatchOf(c) : c \in S} /\ MembersOf(m) \subseteq S)
       THEN "closed" ELSE state[m]]
Removed(S) == RemovedAndClosed(S, {})

-----------------------------------------------------------------------------
(* Leaving a run, and what it settles.                                     *)

\* Mutant of Leave: the place is only given back without a route
LeaveKeepingPlace(c, note) ==
  IF ~Routed(c) THEN Removed({c}) /\ UNCHANGED <<route, down>>
  ELSE IF route[c].state = "leaving" THEN UNCHANGED <<registryVars, route, down>>
  ELSE /\ route' = [route EXCEPT ![c].state = "leaving"]
       /\ UNCHANGED registryVars
       /\ down' = Post(down, route[c].at,
            [op |-> "leave", who |-> c, gen |-> gen[c],
             note |-> IF Open(c) THEN note ELSE "closed"])
\* WorkerMatchExecutor.leave: out of the registry and towards the worker, once
Leave(c, note) ==
  IF ~Routed(c) THEN Removed({c}) /\ UNCHANGED <<route, down>>
  ELSE IF route[c].state = "leaving" THEN UNCHANGED <<registryVars, route, down>>
  ELSE /\ route' = [route EXCEPT ![c].state = "leaving"]
       /\ Removed({c})
       /\ down' = Post(down, route[c].at,
            [op |-> "leave", who |-> c, gen |-> gen[c],
             note |-> IF Open(c) THEN note ELSE "closed"])

\* A transition is over: an exit that only waited for it is over too
JobEnds(c) ==
  /\ job' = [job EXCEPT ![c] = NoJob]
  /\ cancelled' = cancelled \ {c}
  /\ exit' = [exit EXCEPT ![c] = IF @ = "waiting" THEN "none" ELSE @]

\* What a transition does once its run has been left: a door goes on unless it is
\* cancelled, an entry being let in or given up is over, any other does not wait for it
JobAfterLeft(c) ==
  CASE job[c].phase = "leaving" /\ c \notin cancelled -> [job[c] EXCEPT !.phase = "admitting"]
    [] job[c].phase \in {"admitting", "checking"} -> job[c]
    [] OTHER -> NoJob

\* settleLeft, for the connections in S: their routes end, their transitions go on, and
\* an exit is answered
Settled(S) ==
  /\ route' = [c \in Conns |-> IF c \in S THEN NoRoute ELSE route[c]]
  /\ job' = [c \in Conns |-> IF c \in S THEN JobAfterLeft(c) ELSE job[c]]
  /\ cancelled' = cancelled \ {c \in S : JobAfterLeft(c) = NoJob}
  /\ exit' = [c \in Conns |->
       IF c \notin S \/ exit[c] # "leaving" THEN exit[c]
       ELSE IF JobAfterLeft(c) = NoJob THEN "none" ELSE "waiting"]

-----------------------------------------------------------------------------
(* The connection: logging in, closing, and what it asks for.              *)

\* Displaced: closed before the newcomer does anything else
Displaced(c) == {d \in Conns \ {c} : Open(d) /\ AccountOf[d] = AccountOf[c]}

\* SessionTransitions.disconnect, of a connection that has just closed
Disconnect(c) ==
  /\ cancelled' = IF job[c] # NoJob THEN cancelled \cup {c} ELSE cancelled
  /\ Leave(c, "closed")

Login(c) ==
  /\ online[c] = "off"
  /\ IF Displaced(c) = {}
     THEN /\ online' = [online EXCEPT ![c] = "on"]
          /\ UNCHANGED <<cancelled, route, down, registryVars>>
     ELSE \E d \in Displaced(c) :
          /\ online' = [online EXCEPT ![c] = "on", ![d] = "closing"]
          /\ Disconnect(d)
  /\ UNCHANGED <<job, exit, gen, workerVars, up, clientVars, crashes>>

\* closeSession for another reason: an idle timeout, a full queue
Closes(c) ==
  /\ Open(c) /\ c \in Droppers
  /\ online' = [online EXCEPT ![c] = "closing"]
  /\ Disconnect(c)
  /\ UNCHANGED <<job, exit, gen, workerVars, up, clientVars, crashes>>

\* The socket's close event: after closeSession, or because the client went away.  It
\* disconnects a second time
SocketCloses(c) ==
  /\ online[c] = "closing" \/ (Open(c) /\ c \in Droppers)
  /\ online' = [online EXCEPT ![c] = "gone"]
  /\ Disconnect(c)
  /\ UNCHANGED <<job, exit, gen, workerVars, up, clientVars, crashes>>

\* ClientRequestEntry; the client has read the last ExitComplete
RequestEntry(c) ==
  /\ Open(c) /\ ~Busy(c) /\ ~InDungeon(c)
  /\ gen[c] < MaxEntries[c]
  /\ job' = [job EXCEPT ![c] = [kind |-> "entry", phase |-> "admitting"]]
  /\ home' = home \ {c}
  /\ UNCHANGED <<online, cancelled, exit, gen, route, registryVars, workerVars, up, down, shown,
                 crashes>>

\* Mutant of Exits: ExitComplete is sent without waiting for the worker's last frame
ExitsAtOnce(c) ==
  /\ exit[c] = "none"
  /\ cancelled' = IF job[c] # NoJob THEN cancelled \cup {c} ELSE cancelled
  /\ Leave(c, "disables")
  /\ exit' = [exit EXCEPT ![c] = IF Routed(c) THEN "leaving"
                                 ELSE IF job[c] # NoJob THEN "waiting" ELSE "none"]
  /\ home' = IF ~Open(c) THEN home ELSE home \cup {c}
\* requestExit: what is under way is cancelled, the run left, and ExitComplete sent -
\* at once if there was no run, else once the worker has sent its last frame
Exits(c) ==
  /\ exit[c] = "none"
  /\ cancelled' = IF job[c] # NoJob THEN cancelled \cup {c} ELSE cancelled
  /\ Leave(c, "disables")
  /\ exit' = [exit EXCEPT ![c] = IF Routed(c) THEN "leaving"
                                 ELSE IF job[c] # NoJob THEN "waiting" ELSE "none"]
  /\ home' = IF Routed(c) \/ ~Open(c) THEN home ELSE home \cup {c}

\* RequestExit of the client, or the end of a finished match's time (expire)
RequestExit(c) ==
  /\ Open(c)
  /\ Exits(c)
  /\ UNCHANGED <<online, job, gen, workerVars, up, shown, crashes>>

-----------------------------------------------------------------------------
(* An entry or a door: admission, and the run loaded.                      *)

\* Mutant of WorkersFor: by load alone
WorkersByLoad(m) == running
\* workerFor: the worker that runs the match, or for a new match one that runs
WorkersFor(m) ==
  LET assigned == {route[c].at : c \in {d \in Conns : route[d].to = m}}
  IN IF assigned # {} THEN assigned ELSE running

\* admitEntry refuses or throws, or the transition is cancelled, or joining finds no
\* worker or a closed session: a place reserved is given back in the same step
AdmissionEnds(c) ==
  /\ job[c].phase = "admitting"
  /\ JobEnds(c)
  /\ UNCHANGED <<online, gen, route, registryVars, workerVars, up, down, clientVars, crashes>>
\* A door's admission that throws leaves a second time
DoorAdmissionThrows(c) ==
  /\ job[c] = [kind |-> "door", phase |-> "admitting"] /\ c \notin cancelled
  /\ Leave(c, "disables")
  /\ JobEnds(c)
  /\ UNCHANGED <<online, gen, workerVars, up, clientVars, crashes>>

\* A place is reserved, and WorkerMatchExecutor.join posts the member to the worker
Admitted(c, m, w) ==
  /\ job[c].phase = "admitting" /\ c \notin cancelled /\ Open(c)
  /\ Reserved(c, m)
  /\ w \in WorkersFor(m)
  /\ gen' = [gen EXCEPT ![c] = @ + 1]
  /\ route' = [route EXCEPT ![c] = [at |-> w, to |-> m, state |-> "joining"]]
  /\ down' = Post(down, w, [op |-> "join", who |-> c, gen |-> gen'[c], to |-> m])
  /\ job' = [job EXCEPT ![c].phase = "loading"]
  /\ UNCHANGED <<online, cancelled, exit, workerVars, up, clientVars, crashes>>

\* walkThrough asks about the destination: refused or cancelled, the hero stays; else
\* the run is left, and the next one asked for once that is done
DoorStays(c) ==
  /\ job[c].phase = "checking"
  /\ JobEnds(c)
  /\ UNCHANGED <<online, gen, route, registryVars, workerVars, up, down, clientVars, crashes>>
DoorLeaves(c) ==
  /\ job[c].phase = "checking" /\ c \notin cancelled
  /\ Leave(c, "disables")
  /\ job' = [job EXCEPT ![c].phase = IF Routed(c) THEN "leaving" ELSE "admitting"]
  /\ UNCHANGED <<online, cancelled, exit, gen, workerVars, up, clientVars, crashes>>

-----------------------------------------------------------------------------
(* What the main thread hears from a worker.                               *)

Hears(w, op) == up[w] # <<>> /\ Head(up[w]).op = op /\ up' = [up EXCEPT ![w] = Tail(@)]
\* Mutant of IsCurrent: the generation is not compared
IsRouted(w, msg) == route[msg.who].at = w
\* routeOf: frames and markers count only for the route of their generation
IsCurrent(w, msg) == route[msg.who].at = w /\ gen[msg.who] = msg.gen

\* Frames of the run and the marker "ready": the entry is accepted
ReadyArrives(w) ==
  /\ Hears(w, "ready")
  /\ LET msg == Head(up[w])
     IN shown' = IF IsCurrent(w, msg) /\ Open(msg.who) THEN shown \cup {msg.who} ELSE shown
  /\ UNCHANGED <<connVars, registryVars, workerVars, down, home, crashes>>

\* "joined": the reservation is used; a cancelled entry leaves what it has got
JoinedArrives(w) ==
  /\ Hears(w, "joined")
  /\ LET c == Head(up[w]).who
     IN IF ~IsCurrent(w, Head(up[w])) THEN UNCHANGED connVars
        ELSE IF c \in cancelled
        THEN /\ job' = [job EXCEPT ![c].phase = "unwinding"]
             /\ UNCHANGED <<online, cancelled, exit, gen, route>>
        ELSE /\ route' = [route EXCEPT ![c].state = "entered"]
             /\ JobEnds(c)
             /\ UNCHANGED <<online, gen>>
  /\ UNCHANGED <<registryVars, workerVars, down, clientVars, crashes>>

\* "failed": the run is torn down, then the place given back and the client answered;
\* a cancelled entry is over
FailedArrives(w) ==
  /\ Hears(w, "failed")
  /\ LET c == Head(up[w]).who
     IN IF ~IsCurrent(w, Head(up[w])) THEN UNCHANGED <<connVars, registryVars, down>>
        ELSE IF c \in cancelled
        THEN JobEnds(c) /\ UNCHANGED <<online, gen, route, registryVars, down>>
        ELSE /\ job' = [job EXCEPT ![c].phase = "failing"]
             /\ Leave(c, "disables")
             /\ UNCHANGED <<online, cancelled, exit, gen>>
  /\ UNCHANGED <<workerVars, clientVars, crashes>>

\* "left", after the last frames of the run
LeftArrives(w) ==
  /\ Hears(w, "left")
  /\ LET msg == Head(up[w])
         c == msg.who
     IN IF ~IsCurrent(w, msg) THEN UNCHANGED <<connVars, clientVars>>
        ELSE /\ Settled({c})
             /\ shown' = IF msg.note = "disables" /\ Open(c) THEN shown \ {c} ELSE shown
             /\ home' = IF exit[c] = "leaving" /\ Open(c) THEN home \cup {c} ELSE home
             /\ UNCHANGED <<online, gen>>
  /\ UNCHANGED <<registryVars, workerVars, down, crashes>>

\* The dungeon asks for a door: not while anything else is under way
DoorArrives(w) ==
  /\ Hears(w, "door")
  /\ LET c == Head(up[w]).who
     IN job' = IF IsCurrent(w, Head(up[w])) /\ ~Busy(c) /\ gen[c] < MaxEntries[c]
               THEN [job EXCEPT ![c] = [kind |-> "door", phase |-> "checking"]] ELSE job
  /\ UNCHANGED <<online, cancelled, exit, gen, route, registryVars, workerVars, down, clientVars,
                 crashes>>

\* The dungeon sends its player home: an exit on the player's behalf
HomeArrives(w) ==
  /\ Hears(w, "home")
  /\ LET c == Head(up[w]).who
     IN IF IsCurrent(w, Head(up[w])) /\ exit[c] = "none" THEN Exits(c)
        ELSE UNCHANGED <<cancelled, exit, route, registryVars, down, home>>
  /\ UNCHANGED <<online, job, gen, workerVars, shown, crashes>>

\* "close" or "terminate": the worker asks for the connection to be closed
CloseArrives(w) ==
  /\ Hears(w, "close")
  /\ LET c == Head(up[w]).who
     IN IF IsCurrent(w, Head(up[w])) /\ Open(c)
        THEN online' = [online EXCEPT ![c] = "closing"] /\ Disconnect(c)
        ELSE UNCHANGED <<online, cancelled, route, registryVars, down>>
  /\ UNCHANGED <<job, exit, gen, workerVars, clientVars, crashes>>

\* updateMatch: the run is over, or its world could not be built
MatchArrives(w) ==
  /\ \E op \in {"finished", "matchFailed"} :
       /\ Hears(w, op)
       /\ LET m == Head(up[w]).to
          IN state' = IF state[m] \in {"unused", "closed"} THEN state
                      ELSE [state EXCEPT ![m] = IF op = "finished" THEN "finished" ELSE "failed"]
  /\ UNCHANGED <<connVars, in, byAccount, workerVars, down, clientVars, crashes>>

-----------------------------------------------------------------------------
(* A worker: its members come and go.                                      *)

Runs(w) == w \in running
Takes(w, op) == Runs(w) /\ down[w] # <<>> /\ Head(down[w]).op = op
                /\ down' = [down EXCEPT ![w] = Tail(@)]
Marker(op, c, g) == [op |-> op, who |-> c, gen |-> g]
Left(c, g, note) == [op |-> "left", who |-> c, gen |-> g, note |-> note]
Entering(w, c) == member[w][c].phase \in {"entering", "shown"}
\* The world of the match is ready: somebody of it is in
HasWorld(w, m) == \E d \in Conns : member[w][d].to = m /\ member[w][d].phase = "in"

\* join; or abandonJoin, of one that threw before its dungeon code ran
MemberJoins(w) ==
  /\ Takes(w, "join")
  /\ LET msg == Head(down[w])
     IN \/ /\ member' = [member EXCEPT ![w][msg.who] =
                [gen |-> msg.gen, to |-> msg.to, phase |-> "entering", leaving |-> "no"]]
           /\ UNCHANGED up
        \/ up' = Post(up, w, Marker("failed", msg.who, msg.gen)) /\ UNCHANGED member
  /\ UNCHANGED <<connVars, registryVars, running, late, clientVars, crashes>>

\* joinDungeonMatch: the owner player created, the rest of the run, or a failure
EntryReady(w, c) ==
  /\ Runs(w) /\ member[w][c].phase = "entering"
  /\ member' = [member EXCEPT ![w][c].phase = "shown"]
  /\ up' = Post(up, w, Marker("ready", c, member[w][c].gen))
  /\ UNCHANGED <<connVars, registryVars, running, late, down, clientVars, crashes>>
EntryJoins(w, c) ==
  /\ Runs(w) /\ member[w][c].phase = "shown"
  /\ member' = [member EXCEPT ![w][c].phase = "in"]
  /\ up' = Post(up, w, Marker("joined", c, member[w][c].gen))
  /\ UNCHANGED <<connVars, registryVars, running, late, down, clientVars, crashes>>
EntryFails(w, c) ==
  /\ Runs(w) /\ Entering(w, c)
  /\ member' = [member EXCEPT ![w][c].phase = "failed"]
  /\ LET m == member[w][c].to
         failed == Marker("failed", c, member[w][c].gen)
     IN \/ up' = Post(up, w, failed)
        \/ /\ ~HasWorld(w, m)
           /\ up' = [up EXCEPT ![w] = @ \o <<[op |-> "matchFailed", to |-> m], failed>>]
  /\ UNCHANGED <<connVars, registryVars, running, late, down, clientVars, crashes>>

\* Mutant of Finishes: a member still entering stays until its entry ends
FinishesAfterEntry(w, c, note) ==
  /\ member' = IF Entering(w, c) THEN [member EXCEPT ![w][c].leaving = "no"]
               ELSE [member EXCEPT ![w][c] = NoMember]
  /\ up' = Post(up, w, Left(c, member[w][c].gen, note))
  /\ UNCHANGED late
\* finishLeaving: an entry still in flight is left to end by itself
Finishes(w, c, note) ==
  /\ member' = [member EXCEPT ![w][c] = NoMember]
  /\ late' = IF Entering(w, c) THEN [late EXCEPT ![w] = @ \cup {<<c, member[w][c].gen>>}] ELSE late
  /\ up' = Post(up, w, Left(c, member[w][c].gen, note))

\* Mutant of MemberLeaves: no answer for a member that is not here
MemberLeavesIfHere(w) ==
  /\ Takes(w, "leave")
  /\ LET msg == Head(down[w])
         c == msg.who
     IN IF member[w][c].gen # msg.gen THEN UNCHANGED <<member, late, up>>
        ELSE IF msg.note = "closed" THEN Finishes(w, c, "silent")
        ELSE member' = [member EXCEPT ![w][c].leaving = "disables"] /\ UNCHANGED <<late, up>>
  /\ UNCHANGED <<connVars, registryVars, running, clientVars, crashes>>
\* leave: at once for a connection that has closed, in turn for any other, and an
\* answer all the same for a member that is not here
MemberLeaves(w) ==
  /\ Takes(w, "leave")
  /\ LET msg == Head(down[w])
         c == msg.who
     IN IF member[w][c].gen # msg.gen
        THEN up' = Post(up, w, Left(c, msg.gen, "silent")) /\ UNCHANGED <<member, late>>
        ELSE IF msg.note = "closed" THEN Finishes(w, c, "silent")
        ELSE member' = [member EXCEPT ![w][c].leaving = "disables"] /\ UNCHANGED <<late, up>>
  /\ UNCHANGED <<connVars, registryVars, running, clientVars, crashes>>

\* Mutant of LeaveTurn: the client's objects are not taken down
LeaveTurnSilent(w, c) ==
  /\ Runs(w) /\ member[w][c].leaving = "disables"
  /\ Finishes(w, c, "silent")
  /\ UNCHANGED <<connVars, registryVars, running, down, clientVars, crashes>>
\* Its turn in the member's queue, and the reward written down
LeaveTurn(w, c) ==
  /\ Runs(w) /\ member[w][c].leaving = "disables"
  /\ Finishes(w, c, "disables")
  /\ UNCHANGED <<connVars, registryVars, running, down, clientVars, crashes>>

\* A malformed packet, or a violation too many, empties the member's queue - a leave that
\* waits in it goes with the rest - and asks for the connection to be closed.  To ask
\* twice, or when it has closed, changes nothing.  The bound of Calls holds here too
QueueDropped(w, c) ==
  /\ Runs(w) /\ c \in Offenders /\ member[w][c] # NoMember
  /\ member' = [member EXCEPT ![w][c].leaving = IF @ = "disables" THEN "dropped" ELSE @]
  /\ ~\E i \in DOMAIN up[w] : up[w][i].op \in {"door", "home"}
  /\ LET asks == Marker("close", c, member[w][c].gen)
     IN up' = IF ~Open(c) \/ \E i \in DOMAIN up[w] : up[w][i] = asks THEN up
              ELSE Post(up, w, asks)
  /\ UNCHANGED <<connVars, registryVars, running, late, down, clientVars, crashes>>

\* An entry ends whose member has left: clearAfterEntry, and a marker nobody waits for
LateEntryEnds(w, c, g) ==
  /\ Runs(w) /\ <<c, g>> \in late[w]
  /\ late' = [late EXCEPT ![w] = @ \ {<<c, g>>}]
  /\ \E op \in {"joined", "failed"} : up' = Post(up, w, Marker(op, c, g))
  /\ UNCHANGED <<connVars, registryVars, running, member, down, clientVars, crashes>>

\* What a dungeon does on its own: it ends; a member steps through a door, or is sent
\* home.  A bound: one such message of a kind is on its way at a time
RunFinishes(w, m) ==
  /\ Runs(w) /\ HasWorld(w, m) /\ state[m] = "active"
  /\ ~\E i \in DOMAIN up[w] : up[w][i].op = "finished"
  /\ up' = Post(up, w, [op |-> "finished", to |-> m])
  /\ UNCHANGED <<connVars, registryVars, workerVars, down, clientVars, crashes>>
Calls(w, c, op) ==
  /\ Runs(w) /\ c \in Callers /\ member[w][c].phase = "in"
  /\ ~\E i \in DOMAIN up[w] : up[w][i].op \in {"door", "home", "close"}
  /\ up' = Post(up, w, Marker(op, c, member[w][c].gen))
  /\ UNCHANGED <<connVars, registryVars, workerVars, down, clientVars, crashes>>

-----------------------------------------------------------------------------
(* A worker dies.                                                          *)

\* recover: every route is evacuated - what the client holds taken down, the place given
\* back, the run settled, and one who was playing sent home - and its matches are closed
WorkerDies(w) ==
  /\ Runs(w) /\ crashes < MaxCrashes
  /\ crashes' = crashes + 1
  /\ running' = running \ {w}
  /\ member' = [member EXCEPT ![w] = [c \in Conns |-> NoMember]]
  /\ late' = [late EXCEPT ![w] = {}]
  /\ up' = [up EXCEPT ![w] = <<>>] /\ down' = [down EXCEPT ![w] = <<>>]
  /\ LET S == {c \in Conns : route[c].at = w}
     IN /\ Settled(S)
        /\ RemovedAndClosed({c \in S : route[c].state # "leaving"}, {route[c].to : c \in S})
        /\ shown' = shown \ {c \in S : Open(c)}
        /\ home' = home \cup {c \in S : /\ route[c].state = "entered" \/ exit[c] = "leaving"
                                        /\ Open(c)}
  /\ UNCHANGED <<online, gen>>

\* replace: a fresh worker in the dead one's slot
WorkerReplaced(w) ==
  /\ ~Runs(w)
  /\ running' = running \cup {w}
  /\ UNCHANGED <<connVars, registryVars, member, late, up, down, clientVars, crashes>>

-----------------------------------------------------------------------------
ConnNext(c) ==
  \/ Login(c) \/ Closes(c) \/ SocketCloses(c) \/ RequestEntry(c) \/ RequestExit(c)
  \/ AdmissionEnds(c) \/ DoorAdmissionThrows(c) \/ DoorStays(c) \/ DoorLeaves(c)
  \/ \E m \in MatchIds, w \in Workers : Admitted(c, m, w)
MainHears(w) ==
  \/ ReadyArrives(w) \/ JoinedArrives(w) \/ FailedArrives(w) \/ LeftArrives(w)
  \/ DoorArrives(w) \/ HomeArrives(w) \/ CloseArrives(w) \/ MatchArrives(w)
WorkerNext(w) ==
  \/ MemberJoins(w) \/ MemberLeaves(w)
  \/ \E c \in Conns : EntryReady(w, c) \/ EntryJoins(w, c) \/ EntryFails(w, c) \/ LeaveTurn(w, c)
                      \/ QueueDropped(w, c)
  \/ \E e \in late[w] : LateEntryEnds(w, e[1], e[2])
  \/ \E m \in MatchIds : RunFinishes(w, m)
  \/ \E c \in Conns, op \in {"door", "home"} : Calls(w, c, op)

Next ==
  \/ \E c \in Conns : ConnNext(c)
  \/ \E w \in Workers : MainHears(w) \/ WorkerNext(w) \/ WorkerDies(w) \/ WorkerReplaced(w)

Spec == Init /\ [][Next]_vars

-----------------------------------------------------------------------------
(* What a connection is promised.                                          *)

Phase(c) ==
  CASE online[c] \in {"closing", "gone"} -> "gone"
    [] Open(c) /\ exit[c] # "none" -> "exiting"
    [] Open(c) /\ exit[c] = "none" /\ job[c].phase \in {"unwinding", "failing"} -> "loading"
    [] Open(c) /\ exit[c] = "none" /\ job[c].phase \notin {"none", "unwinding", "failing"} ->
         job[c].phase
    [] OTHER -> IF InDungeon(c) THEN "active" ELSE "town"

Conn(c) == INSTANCE SessionPhases WITH phase <- Phase(c), dungeon <- c \in shown, home <- c \in home

\* Every connection goes through its phases as SessionPhases promises: an entry starts
\* in town only, nothing of a run is on the client when it is sent home, and no run
\* appears on one that has been.
ConnsFollowPhases ==
  /\ \A c \in Conns : Conn(c)!Init
  /\ [][\A c \in Conns : [Conn(c)!Next]_(Conn(c)!vars)]_vars

-----------------------------------------------------------------------------
(* Properties.                                                             *)

\* A place in a match is held by a route towards it and by nothing else: no entry that
\* was refused, cancelled, lost with its worker or displaced leaves a place taken, and
\* nobody plays without one.
PlacesAreHeld ==
  \A c \in Conns :
    in[c] = IF route[c].state \in {"joining", "entered"} THEN route[c].to ELSE NoMatch

\* A match whose place is held is open, its players' account is in it once, and every
\* account the index sends to a match has a player there.
RegistryAgrees ==
  /\ \A c \in Conns : in[c] # NoMatch => state[in[c]] \in {"active", "finished", "failed"}
  /\ \A c, d \in Conns : c # d /\ AccountOf[c] = AccountOf[d] => NoMatch \in {in[c], in[d]}
  /\ \A a \in Accounts : byAccount[a] # NoMatch =>
       \E c \in Conns : AccountOf[c] = a /\ in[c] = byAccount[a]

\* All of a match runs on one worker, which is alive: those on their way out included.
OneWorkerPerMatch ==
  /\ \A c, d \in Conns : route[c].to = route[d].to => route[c].at = route[d].at
  /\ \A c \in Conns : Routed(c) => route[c].at \in running

\* A member of a worker is the current run of a connection that the main thread still
\* routes there: no ghost stays in a world after its connection has gone elsewhere.
NoGhosts ==
  \A w \in Workers, c \in Conns : member[w][c] # NoMember =>
    /\ route[c].at = w /\ route[c].to = member[w][c].to /\ gen[c] = member[w][c].gen
    /\ member[w][c].leaving # "no" => route[c].state = "leaving"

-----------------------------------------------------------------------------
(* The inductive form of these four.                                       *)

\* A connection that holds a place is open, and the only one of its account.
OnlyTheOpenHavePlaces ==
  /\ \A c \in Conns : in[c] # NoMatch => Open(c)
  /\ \A c, d \in Conns : Open(c) /\ Open(d) /\ AccountOf[c] = AccountOf[d] => c = d

\* What a channel says of a run, the g-th of connection c.
Kind(x) == IF x.op \in {"joined", "failed"} THEN "answer" ELSE x.op
About(x, k, c, g) == Kind(x) = k /\ x.who = c /\ x.gen = g
Says(q, k, c, g)  == \E i \in DOMAIN q : About(q[i], k, c, g)
Once(q, k, c, g)  == \A i, j \in DOMAIN q : About(q[i], k, c, g) /\ About(q[j], k, c, g) => i = j
JoinsFirst(q, c, g) ==
  \A i, j \in DOMAIN q : About(q[i], "join", c, g) /\ About(q[j], "leave", c, g) => i < j

\* Nothing is of a run that is no more, but answers nobody waits for.
Current(w, c, g) == route[c].at = w /\ gen[c] = g
NothingIsStray(c) ==
  \A w \in Workers :
    /\ \A i \in DOMAIN down[w] : down[w][i].who = c =>
         Current(w, c, down[w][i].gen) /\ (down[w][i].op = "join" => down[w][i].to = route[c].to)
    /\ \A i \in DOMAIN up[w] :
         /\ up[w][i].op = "left" /\ up[w][i].who = c => Current(w, c, up[w][i].gen)
         /\ Kind(up[w][i]) = "answer" /\ up[w][i].who = c => up[w][i].gen <= gen[c]
    /\ \A e \in late[w] : e[1] = c => e[2] <= gen[c]
    /\ member[w][c] # NoMember => /\ Current(w, c, member[w][c].gen) /\ route[c].to = member[w][c].to
                                  /\ member[w][c].leaving # "no" => route[c].state = "leaving"

\* A run is joined once, then left once, then over: the worker says so last.
RunEndsOnce(c, w, g) ==
  /\ Once(down[w], "join", c, g) /\ Once(down[w], "leave", c, g) /\ JoinsFirst(down[w], c, g)
  /\ Once(up[w], "left", c, g)
  /\ Says(down[w], "join", c, g) => member[w][c] = NoMember
  /\ Says(down[w], "leave", c, g) => route[c].state = "leaving" /\ member[w][c].leaving = "no"
  /\ Says(up[w], "left", c, g) =>
       /\ route[c].state = "leaving" /\ member[w][c] = NoMember
       /\ ~Says(down[w], "join", c, g) /\ ~Says(down[w], "leave", c, g)

\* An entry is on its way, being made, being made for a member that has left, or answered: one of these,
\* once, and the transition that asked for it waits.
EntryIsAnswered(c, w, g) ==
  LET joins == Says(down[w], "join", c, g)
      enters == Entering(w, c)
      trails == <<c, g>> \in late[w]
      answered == Says(up[w], "answer", c, g)
  IN /\ joins \/ enters \/ trails \/ answered => job[c].phase = "loading"
     /\ joins \/ enters => ~trails /\ ~answered
     /\ trails => ~answered
     /\ Once(up[w], "answer", c, g)

\* A transition being admitted has no run, and one being loaded still has the place it reserved
\* unless it is cancelled.
JobFitsRoute(c) ==
  /\ job[c].phase = "admitting" => ~Routed(c)
  /\ job[c].phase = "loading" /\ c \notin cancelled => route[c].state = "joining"

RunsAreFollowed ==
  \A c \in Conns :
    /\ NothingIsStray(c) /\ JobFitsRoute(c)
    /\ Routed(c) => gen[c] >= 1 /\ RunEndsOnce(c, route[c].at, gen[c]) /\ EntryIsAnswered(c, route[c].at, gen[c])

EntryInv == PlacesAreHeld /\ RegistryAgrees /\ OneWorkerPerMatch /\ OnlyTheOpenHavePlaces /\ RunsAreFollowed

-----------------------------------------------------------------------------
(* What a client holds and is told, in an inductive form.                  *)

\* An exit cancels what is under way, and waits for the run or for the transition; a run that is left is
\* left by an exit, a door or a failed entry.
TransitionFits(c) ==
  /\ online[c] = "off" => /\ route[c] = NoRoute /\ job[c] = NoJob /\ exit[c] = "none"
                          /\ c \notin cancelled /\ c \notin shown /\ c \notin home
  /\ Open(c) =>
       /\ c \in cancelled <=> exit[c] # "none" /\ job[c] # NoJob
       /\ exit[c] = "leaving" => route[c].state = "leaving"
       /\ exit[c] = "waiting" => job[c] # NoJob /\ ~Routed(c)
       /\ route[c].state = "leaving" => exit[c] = "leaving" \/ job[c].phase \in {"leaving", "failing"}
       /\ route[c].state = "joining" => job[c].phase = "loading"
       /\ job[c].phase \in {"loading", "leaving", "failing", "unwinding"} => Routed(c)
       /\ job[c].phase = "checking" /\ exit[c] = "none" => Routed(c) \/ c \in home

\* What a run shows comes before its answer and its end, and is there only for a member the worker shows, or
\* whose end takes it down.
ReadyFirst(q, c, g) ==
  \A i, j \in DOMAIN q :
    About(q[i], "ready", c, g) /\ (About(q[j], "answer", c, g) \/ About(q[j], "left", c, g)) => i < j
TakenDown(q, c, g) == \E i \in DOMAIN q : q[i] = Left(c, g, "disables")
ShownByRun(c, w, g) ==
  /\ ReadyFirst(up[w], c, g)
  /\ Says(up[w], "ready", c, g) => job[c].phase = "loading"
  /\ c \in shown \/ Says(up[w], "ready", c, g) =>
       member[w][c].phase \in {"shown", "in", "failed"} \/ TakenDown(up[w], c, g)
ShownFits(c) == Open(c) => IF Routed(c) THEN ShownByRun(c, route[c].at, gen[c]) ELSE c \notin shown

\* A run that has not begun shows nothing, and a connection is written off as closed only once it is.
NotesFit(c) ==
  \A w \in Workers :
    /\ \A i \in DOMAIN up[w] : About(up[w][i], "ready", c, up[w][i].gen) => up[w][i].gen <= gen[c]
    /\ \A i \in DOMAIN down[w] :
         down[w][i].op = "leave" /\ down[w][i].who = c /\ down[w][i].note = "closed" => ~Open(c)

ClientInv == \A c \in Conns : TransitionFits(c) /\ ShownFits(c) /\ NotesFit(c)

\* Told that it is home, and let in all the same: by the death of a worker only.
Misled(c) == Open(c) /\ c \in home /\ (Routed(c) \/ (job[c] # NoJob /\ c \notin cancelled))
OnlyDeathsMislead == crashes = 0 => \A c \in Conns : ~Misled(c)
\* ConnsFollowPhases without that fault: each step of a connection is a step of its phases, but of one that was
\* told that it is home and goes on.
PhasesUnlessMisled ==
  [][\A c \in Conns : Misled(c) \/ Misled(c)' \/ [Conn(c)!Next]_(Conn(c)!vars)]_vars

\* A client that was sent home and has asked for nothing since sees no dungeon
\* (session-transitions.js: "accepted after ExitComplete had been sent" is the fault the
\* file was written to end).
HomeIsHome == home \cap shown = {}

\* A friend's JOIN finds whoever is in a match ("friend id resolves the friend's match").
FriendsFindYou == \A c \in Conns : in[c] # NoMatch => byAccount[AccountOf[c]] = in[c]

-----------------------------------------------------------------------------
(* Fairness: the threads run, messages are delivered, storage answers an   *)
(* admission, rewards are written down, and an entry ends - its handshakes *)
(* time out (entry-handshake.js).  A worker that hangs is stopped by the   *)
(* watchdog and counts as dead.                                            *)

Fairness ==
  /\ \A w \in Workers :
       /\ WF_vars(MainHears(w)) /\ WF_vars(MemberJoins(w) \/ MemberLeaves(w))
       /\ \A c \in Conns : /\ WF_vars(LeaveTurn(w, c))
                          /\ WF_vars(EntryReady(w, c) \/ EntryJoins(w, c) \/ EntryFails(w, c))
  /\ \A c \in Conns :
       /\ WF_vars(AdmissionEnds(c) \/ \E m \in MatchIds, w \in Workers : Admitted(c, m, w))
       /\ WF_vars(DoorStays(c) \/ DoorLeaves(c))

FairSpec == Spec /\ Fairness

\* Every transition ends: whatever a connection asked for, cancelled, or lost, it comes to
\* rest in town or in a dungeon - but for one whose leave a worker has dropped, and that
\* one is closed.
LeaveIsDropped(c) == \E w \in Workers : member[w][c].leaving = "dropped"
TransitionsEnd == \A c \in Conns : Busy(c) ~> (~Busy(c) \/ (LeaveIsDropped(c) /\ ~Open(c)))
\* Without the exception; and a member leaves whose connection is closed, so that its
\* account's lease comes back ("A connection that closed is gone at once").
EveryTransitionEnds == \A c \in Conns : Busy(c) ~> ~Busy(c)
TheClosedLeave == \A w \in Workers, c \in Conns :
  member[w][c] # NoMember /\ online[c] = "gone" ~> member[w][c] = NoMember
=============================================================================
