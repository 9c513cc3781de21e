------------------------------ MODULE Powerups ------------------------------
(***************************************************************************)
(* The powerups of one account: the bag and the two slots of its hero      *)
(* (consumables.js), what a run drinks of them (buster.js), the requests   *)
(* that move them (rpc-handlers.js, store.js) and the settling of a run    *)
(* that is over (settle-account.js).                                       *)
(*                                                                         *)
(* The thread that plays the run has the account, and a new row of the bag *)
(* needs an id of the main thread: an operation that adds one waits in the *)
(* middle.  Requests keep the account's lock for as long, the run and its  *)
(* settling do not ask for it.                                             *)
(***************************************************************************)
EXTENDS Integers, Sequences, FiniteSets, SequencesExt, Functions

CONSTANTS Stacks, NoStack, \* kinds of powerup
          CarryLimit,      \* how many a slot holds
          Stock,           \* how many of each the account begins with
          MaxRequests, MaxPowerRuns \* bounds

ASSUME PowerupsAssumption == {CarryLimit, Stock, MaxRequests, MaxPowerRuns} \subseteq Nat \ {0} /\ NoStack \notin Stacks

VARIABLES
  bag,      \* account_stackables: rows of a stack and how many, one array after another
  slots,    \* the hero's two slots
  carried,  \* heroConsumables: what the run believes it has; empty without a run
  drunk,    \* by stack: how many were used
  work,     \* by worker, the request or the settling: what it still has to do, and the row it waits to add
  running,  \* whether a run is on
  asked, runs, bought, \* requests, runs, and what was bought of each stack
  crossed   \* whether somebody touched the powerups while another waited for an id

powerVars == <<bag, slots, carried, drunk, work, running, asked, runs, bought, crossed>>

Places == {1, 2}
Workers == {"request", "settling"}
Empty == [stack |-> NoStack, count |-> 0]
NoRow == [stack |-> NoStack, count |-> 0, array |-> 0]
NoWork == [todo |-> <<>>, row |-> NoRow]
Other(p) == 3 - p

PowerInit ==
  /\ bag = [array |-> 1, rows |-> SetToSeq([stack : Stacks, count : {Stock}])]
  /\ slots = [p \in Places |-> Empty] /\ carried = [p \in Places |-> Empty]
  /\ drunk = [s \in Stacks |-> 0] /\ bought = [s \in Stacks |-> 0]
  /\ work = [w \in Workers |-> NoWork]
  /\ running = FALSE /\ asked = 0 /\ runs = 0 /\ crossed = FALSE

-----------------------------------------------------------------------------
(* The bag.                                                                *)

RowOf(s) == {i \in DOMAIN bag.rows : bag.rows[i].stack = s}
Bagged(s) == IF RowOf(s) = {} THEN 0 ELSE bag.rows[Min(RowOf(s))].count

\* setBagged, where the stack has a row, or nothing is left of it
Puts(s, count) ==
  bag' = IF RowOf(s) = {} THEN bag
         ELSE IF count = 0 THEN [bag EXCEPT !.rows = RemoveAt(@, Min(RowOf(s)))]
         ELSE [bag EXCEPT !.rows[Min(RowOf(s))].count = count]
\* where it has none: the row is pushed once its id is there
AwaitsId(s, count) == RowOf(s) = {} /\ count > 0
RowFor(s, count) == [stack |-> s, count |-> count, array |-> bag.array]

\* Who waits for an id lets the others run; who does not runs on
Waiting(w) == work[w].row # NoRow
MayRun(w) == \A v \in Workers \ {w} : work[v] = NoWork \/ Waiting(v)
TouchesOthers(w) == \E v \in Workers \ {w} : Waiting(v)

\* One step of a worker: it puts count of s into the bag, and goes on with what is left to do
Steps(w, s, count, left) ==
  /\ crossed' = (crossed \/ TouchesOthers(w))
  /\ IF AwaitsId(s, count)
     THEN work' = [work EXCEPT ![w] = [todo |-> left, row |-> RowFor(s, count)]] /\ UNCHANGED bag
     ELSE work' = [work EXCEPT ![w] = [todo |-> left, row |-> NoRow]] /\ Puts(s, count)

\* The id is there: the row is pushed to the array it was meant for, which may be the bag no more
IdComes(w) ==
  /\ Waiting(w) /\ MayRun(w)
  /\ bag' = IF work[w].row.array = bag.array
            THEN [bag EXCEPT !.rows = Append(@, [stack |-> work[w].row.stack, count |-> work[w].row.count])] ELSE bag
  /\ work' = [work EXCEPT ![w].row = NoRow]
  /\ UNCHANGED <<slots, carried, drunk, running, asked, runs, bought, crossed>>

Doing(w, what) == ~Waiting(w) /\ MayRun(w) /\ work[w].todo # <<>> /\ Head(work[w].todo)[1] = what

-----------------------------------------------------------------------------
(* The carry rule.                                                         *)

Reconciling == <<<<"slot", 1>>, <<"slot", 2>>, <<"sweep", 0>>>>
LeastOf(a, b) == IF a < b THEN a ELSE b

\* reconcileConsumables, one slot: filled from the bag as far as it may be, and freed when nothing is left
ReconcilesSlot(w) ==
  /\ Doing(w, "slot")
  /\ LET p == Head(work[w].todo)[2]
         s == slots[p].stack
         total == slots[p].count + Bagged(s)
         keeps == LeastOf(CarryLimit, total)
     IN IF s = NoStack
        THEN /\ slots' = [slots EXCEPT ![p] = Empty]
             /\ work' = [work EXCEPT ![w].todo = Tail(@)] /\ UNCHANGED <<bag, crossed>>
        ELSE /\ slots' = [slots EXCEPT ![p] = IF total = 0 THEN Empty ELSE [stack |-> s, count |-> keeps]]
             /\ Steps(w, s, total - keeps, Tail(work[w].todo))
  /\ UNCHANGED <<carried, drunk, running, asked, runs, bought>>
\* sweepEmptyRows makes a new array of the rows that are not empty
Sweeps(w) ==
  /\ Doing(w, "sweep")
  /\ bag' = [array |-> bag.array + 1, rows |-> SelectSeq(bag.rows, LAMBDA r : r.count > 0)]
  /\ work' = [work EXCEPT ![w].todo = Tail(@)] /\ crossed' = (crossed \/ TouchesOthers(w))
  /\ UNCHANGED <<slots, carried, drunk, running, asked, runs, bought>>

-----------------------------------------------------------------------------
(* The requests, one at a time.                                            *)

Request == work["request"] = NoWork /\ MayRun("request") /\ asked < MaxRequests /\ asked' = asked + 1
Holding(p, s) == IF slots[p].stack = s THEN slots[p].count ELSE 0

\* equipConsumableOnAvatar: what is in the slot goes back to the bag, and the stack is taken from
\* wherever it is; how much the slots held of it is looked at first
Equips(s, p) ==
  /\ Request /\ Bagged(s) + Holding(p, s) + Holding(Other(p), s) > 0
  /\ LET filling == <<<<"fill", p, s, Holding(Other(p), s), Holding(p, s)>>>> \o Reconciling
         old == slots[p]
     IN IF old.stack \notin {NoStack, s}
        THEN Steps("request", old.stack, Bagged(old.stack) + old.count, filling)
        ELSE work' = [work EXCEPT !["request"].todo = filling] /\ crossed' = (crossed \/ TouchesOthers("request")) /\ UNCHANGED bag
  /\ UNCHANGED <<slots, carried, drunk, running, runs, bought>>
\* Mutant of FilledWith: what the slot held already is not counted
FilledFromOther(inOther, inTarget) == inOther
FilledWith(inOther, inTarget) == inOther + inTarget
Fills ==
  /\ Doing("request", "fill")
  /\ LET t == Head(work["request"].todo)
         freed == IF t[4] > 0 THEN [slots EXCEPT ![Other(t[2])] = Empty] ELSE slots
     IN slots' = [freed EXCEPT ![t[2]] = [stack |-> t[3], count |-> FilledWith(t[4], t[5])]]
  /\ work' = [work EXCEPT !["request"].todo = Tail(@)] /\ crossed' = (crossed \/ TouchesOthers("request"))
  /\ UNCHANGED <<bag, carried, drunk, running, asked, runs, bought>>

\* unequipConsumableOffAvatar
Unequips(p) ==
  /\ Request /\ slots[p].count > 0
  /\ Steps("request", slots[p].stack, Bagged(slots[p].stack) + slots[p].count, <<<<"clear", p>>>>)
  /\ UNCHANGED <<slots, carried, drunk, running, runs, bought>>
Clears ==
  /\ Doing("request", "clear") /\ slots' = [slots EXCEPT ![Head(work["request"].todo)[2]] = Empty]
  /\ work' = [work EXCEPT !["request"].todo = Tail(@)] /\ crossed' = (crossed \/ TouchesOthers("request"))
  /\ UNCHANGED <<bag, carried, drunk, running, asked, runs, bought>>

\* A purchase, or a grant of one
Buys(s) ==
  /\ Request /\ Steps("request", s, Bagged(s) + 1, <<>>) /\ bought' = [bought EXCEPT ![s] = @ + 1]
  /\ UNCHANGED <<slots, carried, drunk, running, runs>>

-----------------------------------------------------------------------------
(* The run.                                                                *)

Unworked(w) == work[w] = NoWork
\* consumablesForAvatar
RunBegins ==
  /\ ~running /\ Unworked("settling") /\ MayRun("settling") /\ runs < MaxPowerRuns /\ runs' = runs + 1 /\ running' = TRUE
  /\ carried' = [p \in Places |-> IF slots[p].count > 0 THEN slots[p] ELSE Empty]
  /\ UNCHANGED <<bag, slots, drunk, work, asked, bought, crossed>>

\* Mutant of BagAfterDrink: one is taken off the bag as well
TakenFromBoth(s) == [bag EXCEPT !.rows = [i \in DOMAIN @ |-> IF i \in RowOf(s) THEN [@[i] EXCEPT !.count = @ - 1] ELSE @[i]]]
BagAfterDrink(s) == bag
\* useConsumable and spendStackable: the run and the slot must agree on what is there
Drinks(p) ==
  /\ running /\ MayRun("settling") /\ carried[p].count > 0
  /\ slots[p].stack = carried[p].stack /\ slots[p].count > 0
  /\ slots' = [slots EXCEPT ![p].count = @ - 1] /\ carried' = [carried EXCEPT ![p].count = @ - 1]
  /\ drunk' = [drunk EXCEPT ![slots[p].stack] = @ + 1]
  /\ bag' = BagAfterDrink(slots[p].stack)
  /\ crossed' = (crossed \/ Waiting("request"))
  /\ UNCHANGED <<work, running, asked, runs, bought>>

\* settleDungeonAccount, by whatever ends the run
Leaves ==
  /\ running /\ MayRun("settling") /\ running' = FALSE /\ carried' = [p \in Places |-> Empty]
  /\ work' = [work EXCEPT !["settling"].todo = Reconciling]
  /\ UNCHANGED <<bag, slots, drunk, asked, runs, bought, crossed>>

PowerNext ==
  \/ \E w \in Workers : IdComes(w) \/ ReconcilesSlot(w) \/ Sweeps(w)
  \/ \E s \in Stacks, p \in Places : Equips(s, p)
  \/ \E s \in Stacks : Buys(s)
  \/ \E p \in Places : Unequips(p) \/ Drinks(p)
  \/ Fills \/ Clears \/ RunBegins \/ Leaves
PowerSpec == PowerInit /\ [][PowerNext]_powerVars

-----------------------------------------------------------------------------
Rows(s) == SelectSeq(bag.rows, LAMBDA r : r.stack = s)
InBag(s) == FoldFunction(LAMBDA r, sum : r.count + sum, 0, Rows(s))
InSlots(s) == Holding(1, s) + Holding(2, s)
AfterSettle == \A w \in Workers : Unworked(w)

PowerTypeOK ==
  /\ bag.array \in Nat \ {0} /\ \A i \in DOMAIN bag.rows : bag.rows[i].stack \in Stacks /\ bag.rows[i].count \in Nat
  /\ slots \in [Places -> [stack : Stacks \cup {NoStack}, count : Nat]]
  /\ carried \in [Places -> [stack : Stacks \cup {NoStack}, count : Nat]]
  /\ drunk \in [Stacks -> Nat] /\ bought \in [Stacks -> Nat]
  /\ {running, crossed} \subseteq BOOLEAN /\ asked \in 0..MaxRequests /\ runs \in 0..MaxPowerRuns
  /\ \A w \in Workers : work[w].row.stack \in Stacks \cup {NoStack} /\ work[w].row.count \in Nat

\* Powerups are neither lost nor doubled by moving, buying and drinking them: unless somebody touched them
\* while another waited for the id of a row, what the account began with and bought is what is in its
\* bag and its slots and what was drunk, and every stack has one row.
PotionsAddUp ==
  AfterSettle /\ ~crossed =>
    \A s \in Stacks : /\ Stock + bought[s] = InBag(s) + InSlots(s) + drunk[s]
                      /\ Cardinality(RowOf(s)) <= 1

\* The carry rule: whatever was moved, a slot holds no more than it may, and no stack is in both of them.
SlotsKeepTheirLimit ==
  AfterSettle => /\ \A p \in Places : slots[p].count <= CarryLimit
                 /\ ~crossed => (slots[1].count > 0 /\ slots[2].count > 0 => slots[1].stack # slots[2].stack)

\* Does not hold: "taking one from both would charge the player twice" is kept, but a drink while a move
\* of the same stack waits for its row is not charged at all, for the move puts back what it had counted
\* (consumables.js setBagged, rpc-handlers.js returnToBag).
DrinksArePaidFor == AfterSettle => \A s \in Stacks : Stock + bought[s] >= InBag(s) + InSlots(s) + drunk[s]
\* Does not hold either: a settling sweeps the bag into a new array while a request waits to push to the old.
NothingIsLost == AfterSettle => \A s \in Stacks : Stock + bought[s] <= InBag(s) + InSlots(s) + drunk[s]
=============================================================================
