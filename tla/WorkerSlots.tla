---------------------------- MODULE WorkerSlots -----------------------------
(***************************************************************************)
(* The slots of the match worker pool (match-worker-pool.js): a thread     *)
(* starts, serves, hangs, is stopped by the watchdog, dies and is replaced *)
(* until it has failed too often; and the lanes of distributed object ids  *)
(* (doids.js) its threads number their objects from, which a client that   *)
(* stays connected across a replacement must never meet twice.             *)
(***************************************************************************)
EXTENDS Naturals, FiniteSets

CONSTANTS Slots,        \* the indices of the workers: 0 .. size - 1
          FirstDoid,    \* FIRST_DOID, and where the allocators start
          LocalFirst, LocalLast,   \* the client's own range of ids
          DoidFloor,    \* where the persistent ids begin
          MaxFailures,  \* maxStartFailures
          MaxDeaths     \* bound: threads that are lost

ASSUME SlotAssumption ==
  /\ Slots = 0 .. Cardinality(Slots) - 1 /\ IsFiniteSet(Slots) /\ Slots # {}
  /\ FirstDoid \in Nat /\ DoidFloor \in Nat /\ MaxFailures \in Nat \ {0} /\ MaxDeaths \in Nat
  /\ {LocalFirst, LocalLast} \subseteq Nat /\ FirstDoid < LocalFirst /\ LocalFirst <= LocalLast

VARIABLES
  slot,    \* each slot's thread, its allocator and what the pool knows of it
  met,     \* the ids a client has been sent
  clash,   \* whether one of them was an id of another object
  lost,    \* how many threads have been lost
  open     \* everReady: the first of every slot has started

slotVars == <<slot, met, clash, lost, open>>

Stride == Cardinality(Slots) + 1
Lane(w) == w + 1                                     \* lane zero is the main thread's

\* inLane: the first id of a lane at or after a value
InLane(first, value) == CHOOSE id \in value .. value + Stride - 1 : id % Stride = first % Stride

LocalIds == LocalFirst .. LocalLast
AfterLocal == LocalLast + 1
\* Mutant of Issued: on past the client's range in another lane
IssuedAfterLocal(next) == IF next \in LocalIds THEN AfterLocal ELSE next
\* createDistributedObjectIdAllocator: what the next id is, skipping the client's own
Issued(next) == IF next \in LocalIds THEN InLane(next, AfterLocal) ELSE next

Thread(first) == [state |-> "starting", next |-> first, unsent |-> {}, asked |-> FALSE]
Slot(w, start, fails) ==
  [thread |-> Thread(start + Lane(w)), high |-> start - 1, fails |-> fails]

SlotInit ==
  /\ slot = [w \in Slots |-> Slot(w, FirstDoid, 0)]
  /\ met = {} /\ clash = FALSE /\ lost = 0 /\ open = FALSE

State(w) == slot[w].thread.state

-----------------------------------------------------------------------------
(* A thread.                                                               *)

Starts(w) ==
  /\ State(w) = "starting"
  /\ slot' = [slot EXCEPT ![w].thread.state = "ready"]
  /\ open' = (open \/ \A v \in Slots \ {w} : State(v) = "ready")
  /\ UNCHANGED <<met, clash, lost>>

\* allocateDistributedObjectId: nothing is numbered at or past the persistent ids
Numbers(w) ==
  /\ State(w) = "ready"
  /\ LET id == Issued(slot[w].thread.next)
     IN /\ id < DoidFloor
        /\ slot' = [slot EXCEPT ![w].thread.next = id + Stride, ![w].thread.unsent = @ \cup {id}]
  /\ UNCHANGED <<met, clash, lost, open>>

Highest(ids, least) == IF ids = {} THEN least ELSE CHOOSE id \in ids : \A other \in ids : other <= id

\* Mutant of Heard: the mark that is not sent along with the frames
Unheard(w) == slot[w].high
\* writeStreams: the mark a flush carries
Heard(w) == Highest(slot[w].thread.unsent \cup {slot[w].high}, 0)

\* flushOutbox: the frames and the highest id issued, in one message
Flushes(w) ==
  /\ State(w) = "ready" /\ slot[w].thread.unsent # {}
  /\ clash' = (clash \/ slot[w].thread.unsent \cap met # {})
  /\ met' = met \cup slot[w].thread.unsent
  /\ slot' = [slot EXCEPT ![w].high = Heard(w), ![w].thread.unsent = {}]
  /\ UNCHANGED <<lost, open>>

Hangs(w) ==
  /\ State(w) \in {"starting", "ready"} /\ lost < MaxDeaths
  /\ slot' = [slot EXCEPT ![w].thread.state = IF @ = "ready" THEN "hung" ELSE "stuck"]
  /\ lost' = lost + 1
  /\ UNCHANGED <<met, clash, open>>

-----------------------------------------------------------------------------
(* The pool: checkWorkers, the startup limit, and replace.                 *)

\* ceil to the stride, so that every lane keeps its place
RoundUp(n) == ((n + Stride - 1) \div Stride) * Stride
Above(high) == IF high + 1 > FirstDoid THEN high + 1 - FirstDoid ELSE 0
ReplacementStart(w) == FirstDoid + RoundUp(Above(slot[w].high))

\* Mutant of Lost: it is tried again however often it failed
LostForNow(w) ==
  [slot EXCEPT ![w].fails = IF State(w) \in {"ready", "hung"} THEN 0 ELSE @ + 1,
               ![w].thread = [Thread(0) EXCEPT !.state = IF open THEN "dead" ELSE "unmade"]]
\* exit, recover and replace; the first start is not papered over
Lost(w) ==
  LET fails == IF State(w) \in {"ready", "hung"} THEN 0 ELSE slot[w].fails + 1
  IN [slot EXCEPT ![w].fails = fails,
                  ![w].thread = [Thread(0) EXCEPT !.state =
                       IF ~open THEN "unmade" ELSE IF fails >= MaxFailures THEN "down" ELSE "dead"]]

Dies(w) ==
  /\ State(w) \in {"starting", "ready"} /\ lost < MaxDeaths
  /\ slot' = Lost(w)
  /\ lost' = lost + 1
  /\ UNCHANGED <<met, clash, open>>

\* A thread that does not answer is asked once, and ended at its limit
IsAsked(w) ==
  /\ State(w) \in {"ready", "hung"} /\ ~slot[w].thread.asked
  /\ slot' = [slot EXCEPT ![w].thread.asked = TRUE]
  /\ UNCHANGED <<met, clash, lost, open>>

Answers(w) ==
  /\ State(w) = "ready" /\ slot[w].thread.asked
  /\ slot' = [slot EXCEPT ![w].thread.asked = FALSE]
  /\ UNCHANGED <<met, clash, lost, open>>

Terminated(w) ==
  /\ (State(w) = "hung" /\ slot[w].thread.asked) \/ State(w) = "stuck"
  /\ slot' = Lost(w)
  /\ UNCHANGED <<met, clash, lost, open>>

\* the respawn timer
Replaces(w) ==
  /\ State(w) = "dead"
  /\ slot' = [slot EXCEPT ![w] = Slot(w, ReplacementStart(w), slot[w].fails)]
  /\ UNCHANGED <<met, clash, lost, open>>

Recovers(w) == Starts(w) \/ IsAsked(w) \/ Terminated(w) \/ Replaces(w)
SlotNext == \E w \in Slots : Recovers(w) \/ Answers(w) \/ Numbers(w) \/ Flushes(w) \/ Hangs(w) \/ Dies(w)
SlotSpec == SlotInit /\ [][SlotNext]_slotVars

\* Threads start, the watchdog asks and its limits run out; nothing else need happen
SlotFairness ==
  \A w \in Slots : /\ WF_slotVars(Starts(w)) /\ WF_slotVars(IsAsked(w))
                   /\ WF_slotVars(Terminated(w)) /\ WF_slotVars(Replaces(w))

-----------------------------------------------------------------------------
(* Properties.                                                             *)

SlotTypeOK ==
  /\ \A w \in Slots : /\ State(w) \in {"starting", "ready", "hung", "stuck", "dead", "down", "unmade"}
                      /\ slot[w].fails \in 0..MaxFailures /\ slot[w].high \in Nat
                      /\ State(w) = "dead" => slot[w].fails < MaxFailures
  /\ met \subseteq Nat /\ clash \in BOOLEAN /\ lost \in 0..MaxDeaths /\ open \in BOOLEAN

\* However often threads are replaced, no client is sent two objects under one number, nor
\* one of its own or of the persistent ids; and every lane stays its own.
NumbersAreNew ==
  /\ ~clash /\ met \cap LocalIds = {} /\ \A id \in met : id < DoidFloor
  /\ \A w \in Slots : State(w) = "ready" => slot[w].thread.next % Stride = (FirstDoid + Lane(w)) % Stride

\* A slot whose thread hangs or dies has a thread again or is left down.
SlotsComeBack ==
  \A w \in Slots : (State(w) \in {"hung", "stuck", "dead"}) ~> (State(w) \in {"ready", "down", "unmade"})
=============================================================================
