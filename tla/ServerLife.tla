----------------------------- MODULE ServerLife -----------------------------
(***************************************************************************)
(* A server on PostgreSQL from its start to its exit, and the next one     *)
(* waiting for its place: index.js, shutdown.js and the advisory lock of   *)
(* storage/postgres.js, which lasts as long as one connection does.        *)
(*                                                                         *)
(* What matters is who writes accounts while somebody else has the lock.   *)
(***************************************************************************)
EXTENDS Naturals, Sequences, FiniteSets

CONSTANTS Servers,
          NoServer,
          MaxStarts,  \* bound: starts of servers
          MaxJobs,    \* bound: jobs of a server at once
          MaxDrops    \* bound: connections lost

ASSUME LifeAssumption == NoServer \notin Servers /\ MaxStarts \in Nat /\ MaxJobs \in Nat /\ MaxDrops \in Nat

VARIABLES
  server,    \* each server: its phase, its connection and the work that may still write
  advisory,      \* the advisory lock: whose connection has it
  ghost,     \* whether PostgreSQL still keeps a connection that is gone
  trespass,  \* what wrote while another server had the lock, and the writer's connection then
  starts, drops

lifeVars == <<server, advisory, ghost, trespass, starts, drops>>

\* The stages of createGracefulShutdown in their order
StopStages == <<"before", "sessions", "settlements", "listeners", "services", "writes",
                "release", "storage", "drain">>
InStop == {StopStages[i] : i \in DOMAIN StopStages}

\* session: a dungeon account to settle; request: a call being answered; cut: one that outlasted
\* the listeners' grace. Each is open until the store has its save.
Kinds == {"session", "request", "cut"}
Jobs == [kind : Kinds, at : {"open", "store"}]
Open(kind) == [kind |-> kind, at |-> "open"]
Connections == {"none", "held", "broken", "retaking", "lost", "released"}

Gone == [phase |-> "off", jobs |-> {}, conn |-> "none"]

LifeInit ==
  /\ server = [s \in Servers |-> Gone]
  /\ advisory = NoServer /\ ghost = FALSE /\ trespass = {} /\ starts = 0 /\ drops = 0

Stage(s) == server[s].phase
Up(s) == Stage(s) # "off"
FreeLock == advisory = NoServer /\ ~ghost
\* s goes on as `next`; the lock stays where it is
Becomes(s, next) == server' = [server EXCEPT ![s] = next] /\ UNCHANGED <<advisory, ghost, starts, drops>>
\* Mutant of LetsGo: the server ends and its connection stays
EndsAlone(s, next) == server' = [server EXCEPT ![s] = next] /\ UNCHANGED <<advisory, ghost, trespass, starts, drops>>
\* s goes on as `next` and has no longer a connection that is the lock
LetsGo(s, next) ==
  /\ server' = [server EXCEPT ![s] = next]
  /\ advisory' = (IF advisory = s THEN NoServer ELSE advisory)
  /\ UNCHANGED <<ghost, trespass, starts, drops>>

-----------------------------------------------------------------------------
(* The start, and what a running server does.                              *)

\* acquireServerProcessLock: a start is refused, and ends, while somebody has the lock
TakesLock(s) ==
  /\ ~Up(s) /\ starts < MaxStarts /\ FreeLock
  /\ server' = [server EXCEPT ![s] = [Gone EXCEPT !.phase = "starting", !.conn = "held"]]
  /\ advisory' = s /\ starts' = starts + 1
  /\ UNCHANGED <<ghost, trespass, drops>>

\* The schema, the tokens, the workers, the listeners: the server serves
StartEnds(s) ==
  /\ Stage(s) = "starting" /\ Becomes(s, [server[s] EXCEPT !.phase = "serving"]) /\ UNCHANGED trespass

\* refuseToStart: the lock is given back and the process ends
RefuseToStart(s) == Stage(s) = "starting" /\ LetsGo(s, Gone)

\* Listeners take new work until they are closed, as the first thing of a stop
WorkComes(s) ==
  /\ Stage(s) = "serving" /\ Cardinality(server[s].jobs) < MaxJobs
  /\ \E kind \in {"session", "request"} : Becomes(s, [server[s] EXCEPT !.jobs = @ \cup {Open(kind)}])
  /\ UNCHANGED trespass

\* A job gives the store its save; a run's account is settled when its connection closes
GivesToStore(s) ==
  /\ \E job \in server[s].jobs :
       /\ job.at = "open" /\ (job.kind = "session" => Stage(s) # "before")
       /\ Becomes(s, [server[s] EXCEPT !.jobs = (@ \ {job}) \cup {[job EXCEPT !.at = "store"]}])
  /\ UNCHANGED trespass

\* What the store was given is written, or fails and is given up
SaveEnds(s) ==
  \E job \in server[s].jobs, written \in BOOLEAN :
    /\ job.at = "store"
    /\ Becomes(s, [server[s] EXCEPT !.jobs = @ \ {job}])
    /\ trespass' = IF written /\ advisory \notin {s, NoServer}
                   THEN trespass \cup {[kind |-> job.kind, conn |-> server[s].conn]} ELSE trespass

-----------------------------------------------------------------------------
(* The lock is the connection.                                             *)

\* It is lost; PostgreSQL lets the lock go at once, or when it has noticed
ConnectionDrops(s) ==
  /\ Up(s) /\ server[s].conn = "held" /\ drops < MaxDrops
  /\ server' = [server EXCEPT ![s].conn = "broken"]
  /\ advisory' = NoServer /\ ghost' \in BOOLEAN /\ drops' = drops + 1
  /\ UNCHANGED <<trespass, starts>>

GhostEnds ==
  /\ ghost /\ ghost' = FALSE
  /\ UNCHANGED <<server, advisory, trespass, starts, drops>>

\* The client's error event: retake begins
HearsOfDrop(s) ==
  /\ server[s].conn = "broken"
  /\ Becomes(s, [server[s] EXCEPT !.conn = "retaking"]) /\ UNCHANGED trespass

\* Mutant of OnLost: a lock that is lost is only said
OnlySays(s) == [server[s] EXCEPT !.conn = "lost"]
\* onLost: the server stops, and one that was starting just ends
OnLost(s) ==
  IF Stage(s) = "starting" THEN Gone
  ELSE [server[s] EXCEPT !.conn = "lost", !.phase = IF @ = "serving" THEN "before" ELSE @]

\* retake: the lock is free, or is somebody's or a ghost's, or the database stays away too long
Retakes(s) ==
  /\ server[s].conn = "retaking"
  /\ \/ /\ FreeLock
        /\ server' = [server EXCEPT ![s].conn = "held"] /\ advisory' = s
     \/ server' = [server EXCEPT ![s] = OnLost(s)] /\ UNCHANGED advisory
  /\ UNCHANGED <<ghost, trespass, starts, drops>>

-----------------------------------------------------------------------------
(* The stop.                                                               *)

\* A signal, an uncaught exception, a listener that fails
StopIsAsked(s) ==
  /\ Stage(s) = "serving" /\ Becomes(s, [server[s] EXCEPT !.phase = "before"]) /\ UNCHANGED trespass

\* Mutant of Waited: the lock is given up without waiting for the writes
SettledOnly(s) == Stage(s) = "settlements" => Open("session") \notin server[s].jobs
\* What a stage waits for: the sessions' settlements, every save the store has been given. The
\* races and the open connections are waited for up to a limit.
Waited(s) ==
  CASE Stage(s) = "settlements" -> Open("session") \notin server[s].jobs
    [] Stage(s) = "writes"      -> \A job \in server[s].jobs : job.at = "open"
    [] OTHER                    -> TRUE

\* closeAllConnections: the answer has nowhere to go, its handler runs on
CutOff(jobs) == {IF job.kind = "request" THEN [job EXCEPT !.kind = "cut"] ELSE job : job \in jobs}

StageEnds(s) ==
  /\ Waited(s)
  /\ \E i \in 1..Len(StopStages) - 1 :
       /\ Stage(s) = StopStages[i] /\ Stage(s) # "release"
       /\ Becomes(s, [server[s] EXCEPT
            !.phase = StopStages[i + 1],
            !.jobs = IF Stage(s) = "listeners" THEN CutOff(@) ELSE @])
  /\ UNCHANGED trespass

\* pg_advisory_unlock, or the connection has gone and the lock with it; a retake gives up
ReleaseProcessLock(s) ==
  /\ Stage(s) = "release"
  /\ LetsGo(s, [server[s] EXCEPT !.phase = "storage", !.conn = "released"])

\* The end of the stop, its deadline, a crash: the process is gone and its connections with it
Exits(s) == Stage(s) \in InStop /\ LetsGo(s, Gone)

ServerStep(s) ==
  \/ TakesLock(s) \/ StartEnds(s) \/ RefuseToStart(s)
  \/ WorkComes(s) \/ GivesToStore(s) \/ SaveEnds(s)
  \/ ConnectionDrops(s) \/ HearsOfDrop(s) \/ Retakes(s)
  \/ StopIsAsked(s) \/ StageEnds(s) \/ ReleaseProcessLock(s) \/ Exits(s)
LifeNext == GhostEnds \/ \E s \in Servers : ServerStep(s)

\* Error events arrive, retakes end, and every stop has a deadline
LifeFairness ==
  \A s \in Servers :
    WF_lifeVars(HearsOfDrop(s)) /\ WF_lifeVars(Retakes(s)) /\ WF_lifeVars(Exits(s))
LifeSpec == LifeInit /\ [][LifeNext]_lifeVars /\ LifeFairness

-----------------------------------------------------------------------------
(* Properties.                                                             *)

LifeTypeOK ==
  /\ server \in [Servers -> [phase : InStop \cup {"off", "starting", "serving"},
                             jobs : SUBSET Jobs, conn : Connections]]
  /\ advisory \in Servers \cup {NoServer} /\ ghost \in BOOLEAN
  /\ \A s \in Servers : (advisory = s) = (server[s].conn = "held")
  /\ trespass \subseteq [kind : Kinds, conn : Connections]
  /\ starts \in 0..MaxStarts /\ drops \in 0..MaxDrops

\* What a stage of the stop waited for is done for good: no session is left to settle behind the
\* settlements, no request has an answer to wait for behind the listeners, and where the lock is
\* given up only a request that was cut short still runs.
After(stage) == {StopStages[i] : i \in {j \in DOMAIN StopStages : \E k \in 1..j - 1 : StopStages[k] = stage}}
StagesAreDone ==
  \A s \in Servers :
    /\ Stage(s) \in {"off", "starting"} => server[s].jobs = {}
    /\ server[s].conn = "none" <=> ~Up(s)
    /\ server[s].conn = "released" => Stage(s) \in After("release")
    /\ Stage(s) \in After("settlements") => Open("session") \notin server[s].jobs
    /\ Stage(s) \in After("listeners") => \A job \in server[s].jobs : job.kind # "request"
    /\ Stage(s) \in After("writes") => \A job \in server[s].jobs : job.kind = "cut"

\* Only what cannot be helped writes beside another server: the work of a server whose connection
\* broke under it, and a request that outlasted the listeners' grace. A stop gives the lock back
\* with everything else written.
OnlyStragglersTrespass ==
  \A t \in trespass : t.conn \in {"broken", "retaking", "lost"} \/ t.kind = "cut"

\* A server that has lost the lock takes it again or ends.
LostLocksEndIt ==
  \A s \in Servers : server[s].conn = "broken" ~> (advisory = s \/ ~Up(s))
=============================================================================
