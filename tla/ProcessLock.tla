---------------------------- MODULE ProcessLock ----------------------------
(***************************************************************************)
(* One server at a time on one file store: the lock file of                *)
(* process-lock.js, taken at startup, touched while it is held, and        *)
(* removed when the server stops.                                          *)
(*                                                                         *)
(* A process is one run of the program: a server, its replacement after a  *)
(* crash, a maintenance tool.  Its token, its id and its start time are    *)
(* all the process itself, so the lock file is known by who wrote it.      *)
(* Where two processes share a view (boot and pid namespace), one can tell *)
(* whether the other still runs; elsewhere the only evidence is whether    *)
(* the lock is being touched.                                              *)
(*                                                                         *)
(* One action is one file operation, with what the code does until the     *)
(* next one.  Time is not counted.  What the model takes from the clock is *)
(* that a process that is running touches its lock well within             *)
(* staleAfterMs, which is four heartbeats; a process may stall (a paused   *)
(* container, a suspended machine), and then it does not.                  *)
(***************************************************************************)
EXTENDS Naturals, FiniteSets

CONSTANTS Processes,  \* every run of the program on this store
          Views,      \* pairs of a boot and a pid namespace
          View,       \* the view each process has
          ClockAhead, \* <<v, u>>: the clock of v is more than staleAfterMs ahead of that of u
          Nobody,     \* no process
          MaxStalls   \* how many times a process may stall

ASSUME ProcessesAssumption == Nobody \notin Processes
ASSUME ViewsAssumption == View \in [Processes -> Views] /\ ClockAhead \subseteq Views \X Views
ASSUME MaxStallsAssumption == MaxStalls \in Nat

VARIABLES
  \* .server.lock: who created it, and whether its content is written; NoLock, where missing
  lock,
  \* where each process is: starting, holding the lock, stopping, ended
  at,
  \* the owner a starting process read in the file, and the processes for which the
  \* time on the file has changed since they began to watch it
  read, changed,
  \* the heartbeat of each process has read its own token and has yet to touch the file;
  \* the process was told that its lock is lost
  beating, lost,
  \* who is stalled, how often anybody was, and whether a process ever moved aside another
  \* lock than the one it had read
  stalled, stalls, late

vars == <<lock, at, read, changed, beating, lost, stalled, stalls, late>>

NoLock == [owner |-> Nobody, content |-> "empty"]

Starting == {"opening", "writing", "reading", "statting", "watching", "judged"}
\* The lock is this process's, as far as it knows, and it writes accounts
Serving == {"holding", "stopping"}
Ended == "ended"

TypeOK ==
  /\ lock \in [owner : Processes, content : {"empty", "owner"}] \cup {NoLock}
  /\ at \in [Processes -> Starting \cup Serving \cup {"off", "releasing", "removing", Ended}]
  /\ read \in [Processes -> Processes \cup {Nobody}]
  /\ changed \in SUBSET Processes
  /\ beating \in SUBSET Processes /\ lost \in SUBSET Processes
  /\ stalled \in SUBSET Processes
  /\ stalls \in 0..MaxStalls
  /\ late \in BOOLEAN
  /\ \A p \in Processes : read[p] # Nobody => at[p] \in {"statting", "watching", "judged"}

Init ==
  /\ lock = NoLock
  /\ at = [p \in Processes |-> "off"]
  /\ read = [p \in Processes |-> Nobody]
  /\ changed = {} /\ beating = {} /\ lost = {} /\ stalled = {}
  /\ stalls = 0 /\ late = FALSE

-----------------------------------------------------------------------------
(* What the code asks of other processes and of the file.                  *)

Alive(p) == at[p] \notin {"off", Ended}
Running(p) == Alive(p) /\ p \notin stalled
Runs(p, where) == at[p] = where /\ p \notin stalled
Goes(p, where) == at' = [at EXCEPT ![p] = where]

\* Variants of the definition that follows them, each with one plausible mistake, are named
\* for the mistake; no specification uses them.  Here: an id that nobody answers to is taken
\* for a process that is gone, whoever's id it is; and a process that can be seen is not
\* asked for.
OwnerStateById(p, owner) == IF Alive(owner) /\ View[p] = View[owner] THEN "alive" ELSE "gone"
OwnerStateUnasked(p, owner) == IF View[p] # View[owner] THEN "unseen" ELSE "gone"

\* ownerState: a process of another view cannot be seen; one that can is there or is not
OwnerState(p, owner) ==
  IF View[p] # View[owner] THEN "unseen" ELSE IF Alive(owner) THEN "alive" ELSE "gone"

\* Everybody who is watching the file sees a change of its time
Touches == changed' = changed \cup {p \in Processes : at[p] = "watching"}

\* The age abandoned() computes before it watches, from its own clock and the one the
\* owner touched the file with, is more than staleAfterMs
LooksOld(p) == ~Running(lock.owner) \/ <<View[p], View[lock.owner]>> \in ClockAhead

\* The next try to create the file, after the one found was gone or moved aside
TriesAgain(p) ==
  /\ Goes(p, "opening")
  /\ read' = [read EXCEPT ![p] = Nobody]
Refused(p) ==
  /\ Goes(p, Ended)
  /\ read' = [read EXCEPT ![p] = Nobody]

beatVars == <<beating, lost>>
stallVars == <<stalled, stalls>>

-----------------------------------------------------------------------------
(* acquireFileProcessLock                                                  *)

Starts(p) ==
  /\ at[p] = "off"
  /\ Goes(p, "opening")
  /\ UNCHANGED <<lock, read, changed, beatVars, stallVars, late>>

\* fs.open(lockFile, "wx")
Opens(p) ==
  /\ Runs(p, "opening")
  /\ \/ /\ lock = NoLock
        /\ lock' = [owner |-> p, content |-> "empty"]
        /\ Goes(p, "writing")
        /\ Touches
     \/ /\ lock # NoLock
        /\ Goes(p, "reading")
        /\ UNCHANGED <<lock, changed>>
  /\ UNCHANGED <<read, beatVars, stallVars, late>>

\* The open file is written, wherever its name points by now
Writes(p) ==
  /\ Runs(p, "writing")
  /\ Goes(p, "holding")
  /\ IF lock.owner = p
     THEN lock' = [lock EXCEPT !.content = "owner"] /\ Touches
     ELSE UNCHANGED <<lock, changed>>
  /\ UNCHANGED <<read, beatVars, stallVars, late>>

\* The owner is read, and judged at once where it can be seen
ReadsOwner(p) ==
  /\ Runs(p, "reading")
  /\ \/ lock = NoLock /\ TriesAgain(p)
     \/ lock # NoLock /\ lock.content = "empty" /\ Refused(p)
     \/ lock.content = "owner" /\ OwnerState(p, lock.owner) = "alive" /\ Refused(p)
     \/ /\ lock.content = "owner"
        /\ OwnerState(p, lock.owner) \in {"gone", "unseen"}
        /\ read' = [read EXCEPT ![p] = lock.owner]
        /\ Goes(p, IF OwnerState(p, lock.owner) = "gone" THEN "judged" ELSE "statting")
  /\ UNCHANGED <<lock, changed, beatVars, stallVars, late>>

\* abandoned(): the first look at the time on the file, which may be another's by now
StatsFirst(p) ==
  /\ Runs(p, "statting")
  /\ \/ lock = NoLock /\ TriesAgain(p) /\ UNCHANGED changed
     \/ /\ lock # NoLock /\ LooksOld(p)
        /\ Goes(p, "judged")
        /\ UNCHANGED <<read, changed>>
     \/ /\ lock # NoLock
        /\ Goes(p, "watching")
        /\ changed' = changed \ {p}
        /\ UNCHANGED read
  /\ UNCHANGED <<lock, beatVars, stallVars, late>>

\* A later look finds the file gone or touched, or staleAfterMs are over.  Nobody who runs
\* leaves its lock untouched for that long.
Watches(p) ==
  /\ Runs(p, "watching")
  /\ \/ lock = NoLock /\ TriesAgain(p)
     \/ lock # NoLock /\ p \in changed /\ Refused(p)
     \/ /\ lock # NoLock /\ p \notin changed /\ ~Running(lock.owner)
        /\ Goes(p, "judged")
        /\ UNCHANGED read
  /\ changed' = changed \ {p}
  /\ UNCHANGED <<lock, beatVars, stallVars, late>>

\* fs.rename: it moves whatever file has the name
MovesAside(p) ==
  /\ Runs(p, "judged")
  /\ lock' = NoLock
  /\ IF lock.owner \in {read[p], Nobody} THEN UNCHANGED late ELSE late' = TRUE
  /\ TriesAgain(p)
  /\ UNCHANGED <<changed, beatVars, stallVars>>

-----------------------------------------------------------------------------
(* The heartbeat: read the file, then touch it.                            *)

\* onLost: the server is stopped, or exits where there is none to stop yet
LosesLock(p) ==
  /\ lost' = lost \cup {p}
  /\ IF at[p] = "holding" THEN Goes(p, "stopping") \/ Goes(p, Ended) ELSE UNCHANGED at

\* Once the lock is released or lost, what a heartbeat finds is nobody's business
FindsNoLock(p) ==
  IF at[p] \in Serving /\ p \notin lost THEN LosesLock(p) ELSE UNCHANGED <<at, lost>>

Own(p) == lock = [owner |-> p, content |-> "owner"]

\* A heartbeat that takes any lock for its own
HeartbeatReadsAnything(p) ==
  /\ at[p] \in Serving /\ p \notin stalled \cup lost \cup beating
  /\ IF lock # NoLock
     THEN beating' = beating \cup {p} /\ UNCHANGED <<at, lost>>
     ELSE FindsNoLock(p) /\ UNCHANGED beating
  /\ UNCHANGED <<lock, read, changed, stallVars, late>>

HeartbeatReads(p) ==
  /\ at[p] \in Serving /\ p \notin stalled \cup lost \cup beating
  /\ IF Own(p)
     THEN beating' = beating \cup {p} /\ UNCHANGED <<at, lost>>
     ELSE FindsNoLock(p) /\ UNCHANGED beating
  /\ UNCHANGED <<lock, read, changed, stallVars, late>>

\* A heartbeat that leaves the file as it is
HeartbeatOnlyReads(p) ==
  /\ p \in beating /\ Running(p)
  /\ beating' = beating \ {p}
  /\ UNCHANGED <<lock, at, lost, read, changed, stallVars, late>>

\* fs.utimes, on whatever file has the name
HeartbeatTouches(p) ==
  /\ p \in beating /\ Running(p)
  /\ beating' = beating \ {p}
  /\ IF lock # NoLock
     THEN Touches /\ UNCHANGED <<at, lost>>
     ELSE FindsNoLock(p) /\ UNCHANGED changed
  /\ UNCHANGED <<lock, read, stallVars, late>>

-----------------------------------------------------------------------------
(* Stopping and releasing.                                                 *)

\* A signal asks the server to stop; accounts are still written until it has
Stops(p) ==
  /\ Runs(p, "holding")
  /\ Goes(p, "stopping")
  /\ UNCHANGED <<lock, read, changed, beatVars, stallVars, late>>

\* The writes are flushed and the release is called: no further heartbeat
Flushed(p) ==
  /\ Runs(p, "stopping")
  /\ Goes(p, "releasing")
  /\ UNCHANGED <<lock, read, changed, beatVars, stallVars, late>>

\* The release reads the file, and goes on to remove it only if it is its own
ReleaseReads(p) ==
  /\ Runs(p, "releasing")
  /\ Goes(p, IF Own(p) THEN "removing" ELSE Ended)
  /\ UNCHANGED <<lock, read, changed, beatVars, stallVars, late>>

ReleaseRemoves(p) ==
  /\ Runs(p, "removing")
  /\ lock' = NoLock
  /\ Goes(p, Ended)
  /\ UNCHANGED <<read, changed, beatVars, stallVars, late>>

-----------------------------------------------------------------------------
(* What happens to a process: it is killed, or it stalls and goes on.      *)

\* A kill, a power cut, a write that failed: the file stays as it is
Crashes(p) ==
  /\ Alive(p)
  /\ Goes(p, Ended)
  /\ read' = [read EXCEPT ![p] = Nobody]
  /\ UNCHANGED <<lock, changed, beatVars, stallVars, late>>

Stalls(p) ==
  /\ stalls < MaxStalls /\ Running(p)
  /\ stalled' = stalled \cup {p}
  /\ stalls' = stalls + 1
  /\ UNCHANGED <<lock, at, read, changed, beatVars, late>>

Resumes(p) ==
  /\ p \in stalled
  /\ stalled' = stalled \ {p}
  /\ UNCHANGED <<lock, at, read, changed, beatVars, stalls, late>>

StartupStep(p) ==
  Opens(p) \/ Writes(p) \/ ReadsOwner(p) \/ StatsFirst(p) \/ Watches(p) \/ MovesAside(p)
ShutdownStep(p) == Flushed(p) \/ ReleaseReads(p) \/ ReleaseRemoves(p)
Heartbeat(p) == HeartbeatReads(p) \/ HeartbeatTouches(p)

Next ==
  \E p \in Processes :
    \/ Starts(p)
    \/ StartupStep(p)
    \/ Heartbeat(p)
    \/ Stops(p)
    \/ ShutdownStep(p)
    \/ Crashes(p)
    \/ Stalls(p)
    \/ Resumes(p)

\* A process that runs takes its next step: the startup and the shutdown are sequences of
\* awaited file operations, the heartbeat is a timer.  A stalled process resumes.  Nobody
\* has to start, to stop or to crash.
Fairness ==
  \A p \in Processes :
    /\ WF_vars(StartupStep(p))
    /\ WF_vars(HeartbeatReads(p)) /\ WF_vars(HeartbeatTouches(p))
    /\ WF_vars(ShutdownStep(p))
    /\ WF_vars(Resumes(p))

Spec == Init /\ [][Next]_vars /\ Fairness

-----------------------------------------------------------------------------
(* Properties                                                              *)

\* The servers that write accounts and have not been told to stop
Believes(p) == at[p] \in Serving /\ p \notin lost

\* At most one process believes that the storage is its own.  "A crashed owner's file is
\* moved aside atomically before retrying, so two replacements cannot both delete the new
\* owner's lock" (acquireFileProcessLock).
OneBeliever == \A p, q \in Processes : Believes(p) /\ Believes(q) => p = q

\* Nobody has stalled, the clocks agree, and no process has moved aside a lock other than
\* the one it read
Undisturbed == stalls = 0 /\ ClockAhead = {} /\ ~late

\* The lock excludes a second server unless it was outrun in one of these three ways: the
\* judging of the owner, the writing of the file after its creation, the heartbeat and the
\* two steps of the release leave no other gap.
OneBelieverUnlessOutrun == Undisturbed => OneBeliever

\* What makes it so.  A process whose lock was ever seen does not create another one.  While
\* undisturbed, the file is there, and is its own, for whoever writes it, believes in it or is
\* about to remove it; and what a process is about to move aside is the lock of a process
\* that has ended.
Creators == {"writing", "holding", "stopping", "releasing", "removing", Ended}
StallsAreCounted == stalls = 0 => stalled = {}
LocksAreByCreators ==
  /\ lock.owner # Nobody => at[lock.owner] \in Creators
  /\ \A p \in Processes :
       /\ at[p] \in {"statting", "watching", "judged"} => read[p] # Nobody
       /\ read[p] # Nobody => at[read[p]] \in Creators
FileIsInPlace ==
  \A p \in Processes :
    /\ Believes(p) \/ at[p] = "removing" => Own(p)
    /\ at[p] = "writing" => lock = [owner |-> p, content |-> "empty"]
JudgedHaveEnded ==
  \A p \in Processes : at[p] = "judged" => at[read[p]] = Ended \/ lock.owner # read[p]
LockInv ==
  /\ TypeOK
  /\ StallsAreCounted
  /\ LocksAreByCreators
  /\ Undisturbed => FileIsInPlace /\ JudgedHaveEnded

\* "A holder this process cannot see is believed for as long as it keeps its lock fresh"
\* (process-lock.test.js): whoever finds a lock abandoned, finds that of a process that does
\* not run.  The time on the file is judged "by whether it changes, not by what it says".
FreshLocksAreBelieved ==
  [][\A p \in Processes : at[p] \in {"statting", "watching"} /\ at'[p] = "judged"
                            => ~Running(lock.owner)]_vars

\* A process that lost its lock while it was not looking is told so by its heartbeat: two
\* servers that both believe the storage theirs do not go on that way.
SecondBelieverLearns ==
  \A p, q \in Processes :
    p # q => (Believes(p) /\ Believes(q) ~> ~Believes(p) \/ ~Believes(q))

\* Every start is answered: the lock is taken, or the process is told why not and ends.
EveryStartIsAnswered == \A p \in Processes : at[p] \in Starting ~> at[p] \notin Starting
=============================================================================
