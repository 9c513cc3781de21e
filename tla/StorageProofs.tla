--------------------------- MODULE StorageProofs ---------------------------
(* What keeps the accounts to one server, for any number of processes and   *)
(* servers.  While nobody stalls, the clocks agree and no process moves     *)
(* aside a lock it has not read, at most one process believes the file      *)
(* store its own; and beside the server that has the advisory lock writes   *)
(* only what cannot be helped.                                              *)
EXTENDS MCStorage, TLAPS

USE ProcessesAssumption, ViewsAssumption, MaxStallsAssumption

\* The invariant holds at the start: no file, and nobody has started.
LEMMA LockInit == Init => LockInv
<1> SUFFICES ASSUME Init PROVE LockInv OBVIOUS
<1>1. TypeOK
  <2>1. at \in [Processes -> Starting \cup Serving \cup {"off", "releasing", "removing", Ended}]
    BY DEF Init
  <2>2. read \in [Processes -> Processes \cup {Nobody}] BY DEF Init
  <2>3. late \in BOOLEAN BY DEF Init
  <2>4. stalls \in 0..MaxStalls BY DEF Init
  <2> QED BY <2>1, <2>2, <2>3, <2>4 DEF Init, TypeOK
<1>2. StallsAreCounted /\ LocksAreByCreators
  BY DEF Init, StallsAreCounted, LocksAreByCreators, NoLock
<1>3. FileIsInPlace /\ JudgedHaveEnded
  BY DEF Init, FileIsInPlace, JudgedHaveEnded, Believes, Serving
<1> QED BY <1>1, <1>2, <1>3 DEF LockInv

\* A step of a starting process keeps the invariant.  The two that could break it are the
\* judgement of the owner read, which for an undisturbed process finds one that has ended,
\* and the rename, which then moves the lock of nobody who uses it.
LEMMA StartupKeepsInv ==
  ASSUME LockInv, NEW p \in Processes, StartupStep(p) \/ Starts(p)
  PROVE  LockInv'
<1> USE DEF LockInv, TypeOK, StallsAreCounted, LocksAreByCreators, FileIsInPlace,
            JudgedHaveEnded, Undisturbed, Believes, Own, NoLock, Creators, Starting, Serving, Ended,
            Runs, Goes, TriesAgain, Refused, beatVars, stallVars
<1>1. CASE Starts(p) BY <1>1 DEF Starts
<1>2. CASE Opens(p)
  <2>1. TypeOK' BY <1>2 DEF Opens, Touches
  <2>2. StallsAreCounted' BY <1>2 DEF Opens, Touches
  <2>3. LocksAreByCreators' BY <1>2 DEF Opens, Touches
  <2>4. ASSUME Undisturbed' PROVE FileIsInPlace' BY <1>2, <2>4 DEF Opens, Touches
  <2>5. ASSUME Undisturbed' PROVE JudgedHaveEnded' BY <1>2, <2>5 DEF Opens, Touches
  <2> QED BY <2>1, <2>2, <2>3, <2>4, <2>5
<1>3. CASE Writes(p)
  <2>1. TypeOK' BY <1>3 DEF Writes, Touches
  <2>2. StallsAreCounted' BY <1>3 DEF Writes, Touches
  <2>3. LocksAreByCreators' BY <1>3 DEF Writes, Touches
  <2>4. ASSUME Undisturbed' PROVE FileIsInPlace' BY <1>3, <2>4 DEF Writes, Touches
  <2>5. ASSUME Undisturbed' PROVE JudgedHaveEnded' BY <1>3, <2>5 DEF Writes, Touches
  <2> QED BY <2>1, <2>2, <2>3, <2>4, <2>5
<1>4. CASE ReadsOwner(p) BY <1>4 DEF ReadsOwner, OwnerState, Alive
<1>5. CASE StatsFirst(p)
  <2>1. TypeOK' BY <1>5 DEF StatsFirst, LooksOld, Running, Alive
  <2>2. StallsAreCounted' BY <1>5 DEF StatsFirst, LooksOld, Running, Alive
  <2>3. LocksAreByCreators' BY <1>5 DEF StatsFirst, LooksOld, Running, Alive
  <2>4. ASSUME Undisturbed' PROVE FileIsInPlace'
    BY <1>5, <2>4 DEF StatsFirst, LooksOld, Running, Alive
  <2>5. ASSUME Undisturbed' PROVE JudgedHaveEnded'
    BY <1>5, <2>5 DEF StatsFirst, LooksOld, Running, Alive
  <2> QED BY <2>1, <2>2, <2>3, <2>4, <2>5
<1>6. CASE Watches(p) BY <1>6 DEF Watches, Running, Alive
<1>7. CASE MovesAside(p)
  <2>1. TypeOK' BY <1>7 DEF MovesAside
  <2>2. StallsAreCounted' BY <1>7 DEF MovesAside
  <2>3. LocksAreByCreators' BY <1>7 DEF MovesAside
  <2>4. ASSUME Undisturbed' PROVE FileIsInPlace' BY <1>7, <2>4 DEF MovesAside
  <2>5. ASSUME Undisturbed' PROVE JudgedHaveEnded' BY <1>7, <2>5 DEF MovesAside
  <2> QED BY <2>1, <2>2, <2>3, <2>4, <2>5
<1> QED BY <1>1, <1>2, <1>3, <1>4, <1>5, <1>6, <1>7 DEF StartupStep

\* A heartbeat keeps the invariant: it tells a process at most that its lock is lost.
LEMMA HeartbeatKeepsInv ==
  ASSUME LockInv, NEW p \in Processes, Heartbeat(p)
  PROVE  LockInv'
<1> USE DEF LockInv, TypeOK, StallsAreCounted, LocksAreByCreators, FileIsInPlace,
            JudgedHaveEnded, Undisturbed, Believes, Own, NoLock, Creators, Starting, Serving, Ended,
            Goes, beatVars, stallVars, FindsNoLock, LosesLock
<1>1. CASE HeartbeatReads(p) BY <1>1 DEF HeartbeatReads
<1>2. CASE HeartbeatTouches(p)
  <2>1. TypeOK' BY <1>2 DEF HeartbeatTouches, Touches, Running, Alive
  <2>2. StallsAreCounted' BY <1>2 DEF HeartbeatTouches, Touches, Running, Alive
  <2>3. LocksAreByCreators' BY <1>2 DEF HeartbeatTouches, Touches, Running, Alive
  <2>4. ASSUME Undisturbed' PROVE FileIsInPlace'
    BY <1>2, <2>4 DEF HeartbeatTouches, Touches, Running, Alive
  <2>5. ASSUME Undisturbed' PROVE JudgedHaveEnded'
    BY <1>2, <2>5 DEF HeartbeatTouches, Touches, Running, Alive
  <2> QED BY <2>1, <2>2, <2>3, <2>4, <2>5
<1> QED BY <1>1, <1>2 DEF Heartbeat

\* Stopping keeps the invariant: what the release removes is its own lock, as it read.
LEMMA ShutdownKeepsInv ==
  ASSUME LockInv, NEW p \in Processes, Stops(p) \/ ShutdownStep(p)
  PROVE  LockInv'
<1> USE DEF LockInv, TypeOK, StallsAreCounted, LocksAreByCreators, FileIsInPlace,
            JudgedHaveEnded, Undisturbed, Believes, Own, NoLock, Creators, Starting, Serving, Ended,
            Runs, Goes, beatVars, stallVars
<1>1. CASE Stops(p) BY <1>1 DEF Stops
<1>2. CASE Flushed(p) BY <1>2 DEF Flushed
<1>3. CASE ReleaseReads(p) BY <1>3 DEF ReleaseReads
<1>4. CASE ReleaseRemoves(p) BY <1>4 DEF ReleaseRemoves
<1> QED BY <1>1, <1>2, <1>3, <1>4 DEF ShutdownStep

\* A crash keeps the invariant, and so does a stall, after which nobody is undisturbed.
LEMMA FailureKeepsInv ==
  ASSUME LockInv, NEW p \in Processes, Crashes(p) \/ Stalls(p) \/ Resumes(p)
  PROVE  LockInv'
<1> USE DEF LockInv, TypeOK, StallsAreCounted, LocksAreByCreators, FileIsInPlace,
            JudgedHaveEnded, Undisturbed, Believes, Own, NoLock, Creators, Starting, Serving, Ended,
            Goes, beatVars, stallVars
<1>1. CASE Crashes(p) BY <1>1 DEF Crashes, Alive
<1>2. CASE Stalls(p) BY <1>2 DEF Stalls
<1>3. CASE Resumes(p) BY <1>3 DEF Resumes
<1> QED BY <1>1, <1>2, <1>3

\* So does every step of the processes, and standing still.
LEMMA LockStepInv == LockInv /\ [Next]_vars => LockInv'
<1> SUFFICES ASSUME LockInv, [Next]_vars PROVE LockInv' OBVIOUS
<1>1. CASE Next
  BY <1>1, StartupKeepsInv, HeartbeatKeepsInv, ShutdownKeepsInv, FailureKeepsInv DEF Next
<1>2. CASE UNCHANGED vars
  BY <1>2
     DEF vars, LockInv, TypeOK, StallsAreCounted, LocksAreByCreators, FileIsInPlace,
         JudgedHaveEnded, Undisturbed, Believes, Own
<1> QED BY <1>1, <1>2

\* In every reachable state: a process whose lock was seen creates no other, and while
\* undisturbed the file names whoever writes it, believes in it or is about to remove it.
THEOREM LockInvHolds == Spec => []LockInv
BY LockInit, LockStepInv, PTL DEF Spec

\* At most one process believes the storage its own, unless somebody stalled, two clocks are
\* far apart, or a process moved aside a lock other than the one it had read.
THEOREM OneServer == Spec => []OneBelieverUnlessOutrun
<1>1. LockInv => OneBelieverUnlessOutrun
  BY DEF LockInv, FileIsInPlace, OneBelieverUnlessOutrun, OneBeliever, Own
<1> QED BY <1>1, LockInvHolds, PTL

(***************************************************************************)
(* The advisory lock: a server's life, and what writes beside another one. *)
(***************************************************************************)

LifeInv == LifeTypeOK /\ StagesAreDone /\ OnlyStragglersTrespass

\* The stages of a stop, and which of them come behind those that wait.
LEMMA Stages ==
  /\ InStop = {"before", "sessions", "settlements", "listeners", "services", "writes", "release", "storage", "drain"}
  /\ After("settlements") = {"listeners", "services", "writes", "release", "storage", "drain"}
  /\ After("listeners") = {"services", "writes", "release", "storage", "drain"}
  /\ After("writes") = {"release", "storage", "drain"}
  /\ After("release") = {"storage", "drain"}
<1>1. DOMAIN StopStages = 1..9 BY DEF StopStages
<1>2. 1..9 = {1, 2, 3, 4, 5, 6, 7, 8, 9} OBVIOUS
<1> QED BY <1>1, <1>2 DEF StopStages, InStop, After

Records == [phase : InStop \cup {"off", "starting", "serving"}, jobs : SUBSET Jobs, conn : Connections]
\* What StagesAreDone says of one server, as it is or as it goes on.
Fine(r) ==
  /\ r.phase \in {"off", "starting"} => r.jobs = {}
  /\ r.conn = "none" <=> r.phase = "off"
  /\ r.conn = "released" => r.phase \in After("release")
  /\ r.phase \in After("settlements") => Open("session") \notin r.jobs
  /\ r.phase \in After("listeners") => \A job \in r.jobs : job.kind # "request"
  /\ r.phase \in After("writes") => \A job \in r.jobs : job.kind = "cut"

\* No server is up at the start, and nothing is written.
LEMMA LifeInvInit == LifeInit => LifeInv
<1> SUFFICES ASSUME LifeInit PROVE LifeInv OBVIOUS
<1>1. Gone \in Records /\ Fine(Gone) /\ Gone.phase = "off" /\ Gone.conn = "none"
  BY Stages DEF Gone, Records, Fine, Connections
<1>2. LifeTypeOK
  <2>1. \A s \in Servers : server[s] = Gone BY DEF LifeInit
  <2>2. server \in [Servers -> Records] BY <1>1 DEF LifeInit
  <2>3. starts \in 0..MaxStarts /\ drops \in 0..MaxDrops BY LifeAssumption DEF LifeInit
  <2> QED BY <1>1, <2>1, <2>2, <2>3, LifeAssumption DEF LifeInit, LifeTypeOK, Records
<1>3. StagesAreDone BY <1>1 DEF LifeInit, StagesAreDone, Fine, Stage, Up
<1> QED BY <1>2, <1>3 DEF LifeInit, LifeInv, OnlyStragglersTrespass

\* A step that takes one server to a record that is as it should be, and leaves the lock to agree
\* with the connections, keeps all that is said of the servers.
LEMMA OneServerGoesOn ==
  ASSUME LifeTypeOK, StagesAreDone, NEW s \in Servers, NEW r \in Records, Fine(r),
         server' = [server EXCEPT ![s] = r],
         advisory' \in Servers \cup {NoServer},
         advisory' = s <=> r.conn = "held",
         \A t \in Servers \ {s} : advisory' = t <=> advisory = t,
         ghost' \in BOOLEAN, starts' \in 0..MaxStarts, drops' \in 0..MaxDrops,
         trespass' \subseteq [kind : Kinds, conn : Connections]
  PROVE  LifeTypeOK' /\ StagesAreDone'
<1>1. \A t \in Servers : server'[t] = IF t = s THEN r ELSE server[t] BY DEF LifeTypeOK
<1>2. LifeTypeOK' BY <1>1 DEF LifeTypeOK, Records
<1>3. StagesAreDone' BY <1>1 DEF StagesAreDone, Fine, Stage, Up
<1> QED BY <1>2, <1>3

\* Each step of a server takes it to such a record.
LEMMA ServerStepInv ==
  ASSUME LifeInv, NEW s \in Servers, ServerStep(s)
  PROVE  LifeInv'
<1> DEFINE was == server[s]
<1>0. /\ LifeTypeOK /\ StagesAreDone
      /\ was \in Records /\ Fine(was) /\ (advisory = s <=> was.conn = "held")
      /\ starts \in 0..MaxStarts /\ drops \in 0..MaxDrops /\ ghost \in BOOLEAN
      /\ trespass \subseteq [kind : Kinds, conn : Connections]
      /\ advisory \in Servers \cup {NoServer} /\ NoServer \notin Servers
  BY LifeAssumption DEF LifeInv, LifeTypeOK, StagesAreDone, Fine, Records, Stage, Up
<1>g. Gone \in Records /\ Fine(Gone) /\ Gone.conn = "none"
  BY Stages DEF Gone, Records, Fine, Connections
<1>1. CASE TakesLock(s)
  <2> DEFINE r == [Gone EXCEPT !.phase = "starting", !.conn = "held"]
  <2>1. r \in Records /\ Fine(r) /\ r.conn = "held"
    BY Stages DEF Gone, Records, Fine, Connections
  <2>0. starts' \in 0..MaxStarts /\ advisory = NoServer /\ advisory' = s /\ server' = [server EXCEPT ![s] = r]
    BY <1>0, <1>1, LifeAssumption DEF TakesLock, FreeLock
  <2>2. LifeTypeOK' /\ StagesAreDone' BY <1>0, <1>1, <2>0, <2>1, OneServerGoesOn DEF TakesLock
  <2> QED BY <1>1, <2>2 DEF TakesLock, LifeInv, OnlyStragglersTrespass
<1>2. CASE StartEnds(s)
  <2> DEFINE r == [was EXCEPT !.phase = "serving"]
  <2>1. r \in Records /\ Fine(r) /\ r.conn = was.conn
    BY <1>0, <1>2, Stages DEF StartEnds, Stage, Records, Fine
  <2>2. LifeTypeOK' /\ StagesAreDone'
    BY <1>0, <1>2, <2>1, OneServerGoesOn DEF StartEnds, Becomes
  <2> QED BY <1>2, <2>2 DEF StartEnds, LifeInv, OnlyStragglersTrespass
<1>3. ASSUME NEW r \in Records, Fine(r), r.conn # "held", LetsGo(s, r)
      PROVE  LifeInv'
  <2>1. LifeTypeOK' /\ StagesAreDone' BY <1>0, <1>3, OneServerGoesOn DEF LetsGo
  <2> QED BY <1>3, <2>1 DEF LetsGo, LifeInv, OnlyStragglersTrespass
<1>4. CASE RefuseToStart(s) \/ Exits(s) BY <1>3, <1>4, <1>g DEF RefuseToStart, Exits
<1>5. CASE WorkComes(s)
  <2>1. PICK kind \in {"session", "request"} : Becomes(s, [was EXCEPT !.jobs = @ \cup {Open(kind)}])
    BY <1>5 DEF WorkComes
  <2> DEFINE r == [was EXCEPT !.jobs = @ \cup {Open(kind)}]
  <2>2. r \in Records /\ Fine(r) /\ r.conn = was.conn
    BY <1>0, <1>5, Stages DEF WorkComes, Stage, Records, Fine, Open, Jobs, Kinds
  <2>3. LifeTypeOK' /\ StagesAreDone'
    BY <1>0, <1>5, <2>1, <2>2, OneServerGoesOn DEF WorkComes, Becomes
  <2> QED BY <1>5, <2>3 DEF WorkComes, LifeInv, OnlyStragglersTrespass
<1>6. CASE GivesToStore(s)
  <2>1. PICK job \in was.jobs :
          /\ job.at = "open" /\ (job.kind = "session" => Stage(s) # "before")
          /\ Becomes(s, [was EXCEPT !.jobs = (@ \ {job}) \cup {[job EXCEPT !.at = "store"]}])
    BY <1>6 DEF GivesToStore
  <2> DEFINE r == [was EXCEPT !.jobs = (@ \ {job}) \cup {[job EXCEPT !.at = "store"]}]
  <2>2. job \in Jobs /\ [job EXCEPT !.at = "store"] \in Jobs /\ [job EXCEPT !.at = "store"].kind = job.kind
        /\ [job EXCEPT !.at = "store"] # Open("session")
    BY <1>0, <2>1 DEF Records, Jobs, Open
  <2>3. r \in Records /\ Fine(r) /\ r.conn = was.conn
    BY <1>0, <2>1, <2>2, Stages DEF Records, Fine
  <2>4. LifeTypeOK' /\ StagesAreDone'
    BY <1>0, <1>6, <2>1, <2>3, OneServerGoesOn DEF GivesToStore, Becomes
  <2> QED BY <1>6, <2>4 DEF GivesToStore, LifeInv, OnlyStragglersTrespass
<1>7. CASE SaveEnds(s)
  <2>1. PICK job \in was.jobs, written \in BOOLEAN :
          /\ job.at = "store"
          /\ Becomes(s, [was EXCEPT !.jobs = @ \ {job}])
          /\ trespass' = IF written /\ advisory \notin {s, NoServer}
                         THEN trespass \cup {[kind |-> job.kind, conn |-> was.conn]} ELSE trespass
    BY <1>7 DEF SaveEnds
  <2> DEFINE r == [was EXCEPT !.jobs = @ \ {job}]
  <2>2. r \in Records /\ Fine(r) /\ r.conn = was.conn /\ job.kind \in Kinds
    BY <1>0, <2>1, Stages DEF Records, Fine, Jobs
  <2>3. trespass' \subseteq [kind : Kinds, conn : Connections] BY <1>0, <2>1, <2>2 DEF Records
  <2>4. LifeTypeOK' /\ StagesAreDone'
    BY <1>0, <2>1, <2>2, <2>3, OneServerGoesOn DEF Becomes
  \* who has let the lock go has only what was cut short left to write
  <2>5. advisory \notin {s, NoServer} => was.conn \in {"broken", "retaking", "lost"} \/ job.kind = "cut"
    BY <1>0, <2>1, Stages DEF Records, Fine, Connections
  <2>6. OnlyStragglersTrespass' BY <2>1, <2>5 DEF LifeInv, OnlyStragglersTrespass
  <2> QED BY <2>4, <2>6 DEF LifeInv
<1>8. CASE ConnectionDrops(s)
  <2> DEFINE r == [was EXCEPT !.conn = "broken"]
  <2>1. r \in Records /\ Fine(r) /\ r.conn = "broken"
    BY <1>0, <1>8, Stages DEF ConnectionDrops, Records, Fine, Connections
  <2>2. drops' \in 0..MaxDrops BY <1>0, <1>8, LifeAssumption DEF ConnectionDrops
  <2>3. LifeTypeOK' /\ StagesAreDone'
    BY <1>0, <1>8, <2>1, <2>2, OneServerGoesOn DEF ConnectionDrops
  <2> QED BY <1>8, <2>3 DEF ConnectionDrops, LifeInv, OnlyStragglersTrespass
<1>9. CASE HearsOfDrop(s)
  <2> DEFINE r == [was EXCEPT !.conn = "retaking"]
  <2>1. r \in Records /\ Fine(r) /\ r.conn = "retaking" /\ was.conn = "broken"
    BY <1>0, <1>9, Stages DEF HearsOfDrop, Records, Fine, Connections
  <2>2. LifeTypeOK' /\ StagesAreDone'
    BY <1>0, <1>9, <2>1, OneServerGoesOn DEF HearsOfDrop, Becomes
  <2> QED BY <1>9, <2>2 DEF HearsOfDrop, LifeInv, OnlyStragglersTrespass
<1>10. CASE Retakes(s)
  <2>1. CASE FreeLock /\ server' = [server EXCEPT ![s].conn = "held"] /\ advisory' = s
    <3> DEFINE r == [was EXCEPT !.conn = "held"]
    <3>1. r \in Records /\ Fine(r) /\ r.conn = "held"
      BY <1>0, <1>10, Stages DEF Retakes, Records, Fine, Connections
    <3>2. LifeTypeOK' /\ StagesAreDone'
      BY <1>0, <1>10, <2>1, <3>1, OneServerGoesOn DEF Retakes, FreeLock
    <3> QED BY <1>10, <3>2 DEF Retakes, LifeInv, OnlyStragglersTrespass
  <2>2. CASE server' = [server EXCEPT ![s] = OnLost(s)] /\ UNCHANGED advisory
    <3>1. OnLost(s) \in Records /\ Fine(OnLost(s)) /\ OnLost(s).conn # "held" /\ was.conn = "retaking"
      BY <1>0, <1>g, <1>10, Stages DEF Retakes, OnLost, Stage, Records, Fine, Connections
    <3>2. LifeTypeOK' /\ StagesAreDone' BY <1>0, <1>10, <2>2, <3>1, OneServerGoesOn DEF Retakes
    <3> QED BY <1>10, <3>2 DEF Retakes, LifeInv, OnlyStragglersTrespass
  <2> QED BY <1>10, <2>1, <2>2 DEF Retakes
<1>11. CASE StopIsAsked(s)
  <2> DEFINE r == [was EXCEPT !.phase = "before"]
  <2>1. r \in Records /\ Fine(r) /\ r.conn = was.conn
    BY <1>0, <1>11, Stages DEF StopIsAsked, Stage, Records, Fine
  <2>2. LifeTypeOK' /\ StagesAreDone'
    BY <1>0, <1>11, <2>1, OneServerGoesOn DEF StopIsAsked, Becomes
  <2> QED BY <1>11, <2>2 DEF StopIsAsked, LifeInv, OnlyStragglersTrespass
<1>12. CASE StageEnds(s)
  <2>0. Len(StopStages) - 1 = 8 BY DEF StopStages
  <2>1. PICK i \in 1..8 :
          /\ was.phase = StopStages[i] /\ was.phase # "release"
          /\ Becomes(s, [was EXCEPT
               !.phase = StopStages[i + 1],
               !.jobs = IF was.phase = "listeners" THEN CutOff(@) ELSE @])
    BY <1>12, <2>0 DEF StageEnds, Stage
  <2> DEFINE jobs == IF was.phase = "listeners" THEN CutOff(was.jobs) ELSE was.jobs
             r == [was EXCEPT !.phase = StopStages[i + 1], !.jobs = jobs]
  <2>2. jobs \in SUBSET Jobs /\ (was.phase = "listeners" => \A job \in jobs : job.kind # "request")
        /\ (was.phase = "listeners" /\ Open("session") \notin was.jobs => Open("session") \notin jobs)
    BY <1>0 DEF CutOff, Records, Jobs, Kinds, Open
  <2>3. Waited(s) BY <1>12 DEF StageEnds
  <2>4. /\ was.phase = "settlements" => Open("session") \notin was.jobs
        /\ was.phase = "writes" => \A job \in was.jobs : job.at = "open"
    BY <2>3 DEF Waited, Stage
  <2>5. was.phase = "writes" => \A job \in was.jobs : job.kind = "cut"
    BY <1>0, <2>4, Stages DEF Fine, Records, Jobs, Kinds, Open
  <2>6. /\ StopStages[i + 1] \in InStop
        /\ i = 1 => was.phase = "before" /\ StopStages[i + 1] = "sessions"
        /\ i = 2 => was.phase = "sessions" /\ StopStages[i + 1] = "settlements"
        /\ i = 3 => was.phase = "settlements" /\ StopStages[i + 1] = "listeners"
        /\ i = 4 => was.phase = "listeners" /\ StopStages[i + 1] = "services"
        /\ i = 5 => was.phase = "services" /\ StopStages[i + 1] = "writes"
        /\ i = 6 => was.phase = "writes" /\ StopStages[i + 1] = "release"
        /\ i # 7
        /\ i = 8 => was.phase = "storage" /\ StopStages[i + 1] = "drain"
        /\ i \in {1, 2, 3, 4, 5, 6, 7, 8}
    BY <2>1, Stages DEF StopStages
  <2>7. r \in Records /\ r.conn = was.conn /\ r.phase = StopStages[i + 1] /\ r.jobs = jobs
    BY <1>0, <2>2, <2>6 DEF Records
  <2>8. Fine(r) BY <1>0, <2>2, <2>4, <2>5, <2>6, <2>7, Stages DEF Fine
  <2>9. LifeTypeOK' /\ StagesAreDone'
    BY <1>0, <1>12, <2>1, <2>7, <2>8, OneServerGoesOn DEF StageEnds, Becomes
  <2> QED BY <1>12, <2>9 DEF StageEnds, LifeInv, OnlyStragglersTrespass
<1>13. CASE ReleaseProcessLock(s)
  <2> DEFINE r == [was EXCEPT !.phase = "storage", !.conn = "released"]
  <2>1. r \in Records /\ Fine(r) /\ r.conn = "released"
    BY <1>0, <1>13, Stages DEF ReleaseProcessLock, Stage, Records, Fine, Connections
  <2> QED BY <1>3, <1>13, <2>1 DEF ReleaseProcessLock
<1> QED
  BY <1>1, <1>2, <1>4, <1>5, <1>6, <1>7, <1>8, <1>9, <1>10, <1>11, <1>12, <1>13 DEF ServerStep

\* So does every step of the servers, and standing still.
LEMMA LifeStepInv == LifeInv /\ [LifeNext]_lifeVars => LifeInv'
<1> SUFFICES ASSUME LifeInv, [LifeNext]_lifeVars PROVE LifeInv' OBVIOUS
<1>1. CASE GhostEnds
  BY <1>1 DEF GhostEnds, LifeInv, LifeTypeOK, StagesAreDone, OnlyStragglersTrespass, Stage, Up
<1>2. CASE UNCHANGED lifeVars
  BY <1>2 DEF lifeVars, LifeInv, LifeTypeOK, StagesAreDone, OnlyStragglersTrespass, Stage, Up
<1> QED BY <1>1, <1>2, ServerStepInv DEF LifeNext

\* In every reachable state, for any servers, jobs and lost connections: the advisory lock and the
\* connections agree, each stage of a stop has left nothing behind, and beside the server that
\* has the lock writes only the work of a broken connection or of a request cut short.
THEOREM ServersAreApart == LifeSpec => [](LifeTypeOK /\ StagesAreDone /\ OnlyStragglersTrespass)
BY LifeInvInit, LifeStepInv, PTL DEF LifeSpec, LifeInv

\* The same of the two together: as a behaviour of either is checked, it is proved.
THEOREM StorageKeepsApart == AllSpec => [](ServersKeepApart /\ LockInv /\ OneBelieverUnlessOutrun)
<1>1. AllInit => LifeInv /\ LockInv BY LifeInvInit, LockInit DEF AllInit
<1>2. [AllNext]_allVars => [LifeNext]_lifeVars /\ [Next]_vars BY DEF AllNext, allVars
<1>3. LockInv => OneBelieverUnlessOutrun
  BY DEF LockInv, FileIsInPlace, OneBelieverUnlessOutrun, OneBeliever, Own
<1>4. LifeInv => ServersKeepApart BY DEF LifeInv, ServersKeepApart
<1> QED BY <1>1, <1>2, <1>3, <1>4, LifeStepInv, LockStepInv, PTL DEF AllSpec
=============================================================================
