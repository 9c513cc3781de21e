------------------------------ MODULE Economy ------------------------------
(***************************************************************************)
(* What moves between two accounts: a trade (trade.js), a listing put up,  *)
(* bought, taken down and claimed (market.js), a gift sent and accepted    *)
(* (gifts.js and its calls in rpc-handlers.js), over the locks and the     *)
(* two-file write of accounts.js.  Accounts in play are the objects their  *)
(* runs hold, which those runs also save.                                  *)
(*                                                                         *)
(* A request is one call.  Its steps are where the code awaits: the first  *)
(* look, each lock, the change inside the locks (everything between the    *)
(* last load and the save is one turn), the snapshot when the write's turn *)
(* has come, and each rename.  What refuses a request besides what it is   *)
(* about (barred, restricted, not yet up, over the ceiling, equipped) is a *)
(* free refusal.                                                           *)
(***************************************************************************)
EXTENDS Naturals, FiniteSets, FiniteSetsExt

CONSTANTS Accounts,   \* ids; locks are taken in their order
          Weapons,
          Requests,
          Nobody,     \* holds no lock
          Price, Tax, \* of a listing, and what the market keeps of it
          Purse,      \* the gold of each account at the start
          StorageSlots,      \* storageLimit
          MaxAsks,    \* bound: calls made
          MaxFaults,  \* bound: crashes and failed writes
          MaxStays    \* bound: runs entered

ASSUME EconomyAssumption ==
  /\ Accounts \subseteq Nat /\ Accounts # {} /\ IsFiniteSet(Accounts)
  /\ Nobody \notin Requests
  /\ Price \in Nat /\ Tax \in 0..Price /\ {Purse, StorageSlots, MaxAsks, MaxFaults, MaxStays} \subseteq Nat

VARIABLES
  filed,     \* the account files
  object,    \* the object an account's run or request has in its hands
  played,    \* the accounts in a dungeon
  locked,    \* accountChains: who holds each account
  request,   \* each request: what it asks for, how far it is, what its write renames into place
  asks, stays, faults,
  torn       \* whether a write of two accounts was cut in half

economyVars == <<filed, object, played, locked, request, asks, stays, faults, torn>>

Idle == [op |-> "none", me |-> 0, you |-> 0, weapon |-> "none", at |-> "idle", shared |-> FALSE,
         staged |-> <<>>]
TwoPartyOps == {"trade", "buy", "gift"}
Parties(r) ==
  IF request[r].op \in TwoPartyOps THEN {request[r].me, request[r].you} ELSE {request[r].me}

\* One type invariant: what an account holds, and who may hold a lock.
EconomyTypeOK ==
  /\ \A a \in Accounts : \A f \in {filed[a], object[a]} :
       /\ f.gold \in Nat /\ f.bag \subseteq Weapons /\ f.up \subseteq Weapons
       /\ Cardinality(f.bag) <= StorageSlots
       /\ {f.sold, f.sales, f.pile, f.stock} \subseteq Nat /\ f.sent \subseteq Accounts
  /\ played \subseteq Accounts
  /\ \A a \in Accounts : locked[a] = Nobody \/ a \in Parties(locked[a])

\* Every weapon in the first account's bag
EconomyInit ==
  /\ filed = [a \in Accounts |->
       [gold |-> Purse, bag |-> IF \A b \in Accounts : a <= b THEN Weapons ELSE {}, up |-> {},
        sold |-> 0, sales |-> 0, pile |-> 0, stock |-> 0, sent |-> {}]]
  /\ object = filed /\ played = {}
  /\ locked = [a \in Accounts |-> Nobody]
  /\ request = [r \in Requests |-> Idle]
  /\ asks = 0 /\ stays = 0 /\ faults = 0 /\ torn = FALSE

\* loadAccount: the live object if there is one.  A read joined in flight (readAccount), begun
\* without the lock and before the last rename, is left out
Loaded(a) == IF a \in played THEN object[a] ELSE filed[a]

-----------------------------------------------------------------------------
(* Asking, and the locks.                                                  *)

\* The first look: refuseIfPlaying, and for a purchase the scan for who sells it
Asks(r) ==
  /\ request[r].at = "idle" /\ asks < MaxAsks /\ asks' = asks + 1
  /\ \E op \in {"trade", "list", "buy", "cancel", "claim", "gift", "accept"},
        me, you \in Accounts, w \in Weapons :
       /\ op \in TwoPartyOps => me # you
       /\ op \notin TwoPartyOps => me = you
       /\ op \notin {"gift", "accept"} => me \notin played
       /\ op = "trade" => you \notin played
       /\ op = "buy" => w \in Loaded(you).up
       /\ op \in {"claim", "gift", "accept"} => w = CHOOSE v \in Weapons : TRUE
       /\ request' = [request EXCEPT ![r] =
            [op |-> op, me |-> me, you |-> you, weapon |-> w, at |-> "asks",
             shared |-> FALSE, staged |-> <<>>]]
  /\ UNCHANGED <<filed, object, played, locked, stays, faults, torn>>

Unlocked(r) == [a \in Accounts |-> IF locked[a] = r THEN Nobody ELSE locked[a]]
Goes(r, at) == request' = [request EXCEPT ![r].at = at]
Ends(r) == request' = [request EXCEPT ![r] = Idle] /\ locked' = Unlocked(r)

\* Mutant of NextLock: whoever asks is locked first
OwnLockFirst(r) ==
  IF locked[request[r].me] # r THEN request[r].me ELSE request[r].you
\* withTwoAccountLocks: the lower id first
NextLock(r) == Min({a \in Parties(r) : locked[a] # r})

Locks(r) ==
  /\ request[r].at = "asks" /\ \E a \in Parties(r) : locked[a] # r
  /\ locked[NextLock(r)] = Nobody
  /\ locked' = [locked EXCEPT ![NextLock(r)] = r]
  /\ UNCHANGED <<filed, object, played, request, asks, stays, faults, torn>>

-----------------------------------------------------------------------------
(* The change, inside the locks.  `m` is who asks, `y` the other party.    *)

\* Mutant of TradeChanges: hands the weapon over and leaves it where it was
TradeCopies(m, y, w) ==
  [me |-> [m EXCEPT !.gold = @ + 1], you |-> [y EXCEPT !.gold = @ - 1, !.bag = @ \cup {w}]]
\* hand: the weapon one way, a piece of gold the other
TradeChanges(m, y, w) ==
  [me  |-> [m EXCEPT !.bag = @ \ {w}, !.gold = @ + 1],
   you |-> [y EXCEPT !.bag = @ \cup {w}, !.gold = @ - 1]]
ListChanges(m, w) == [m EXCEPT !.bag = @ \ {w}, !.up = @ \cup {w}]
CancelChanges(m, w) == [m EXCEPT !.bag = @ \cup {w}, !.up = @ \ {w}]
\* The listing stays with the seller, sold, and what is owed is settled now
BuyChanges(m, y, w) ==
  [me  |-> [m EXCEPT !.bag = @ \cup {w}, !.gold = @ - Price],
   you |-> [y EXCEPT !.up = @ \ {w}, !.sold = @ + 1, !.sales = @ + 1]]
ClaimChanges(m) == [m EXCEPT !.gold = @ + (Price - Tax) * m.sold, !.sold = 0]
\* sendGift: on the recipient's pile, and in the sender's log
GiftChanges(m, y, me, you) ==
  [me |-> [m EXCEPT !.sent = @ \cup {you}], you |-> [y EXCEPT !.pile = @ + 1]]
\* takeGift: off the pile before it is granted
TakeChanges(m) == [m EXCEPT !.pile = @ - 1]

Room(f) == Cardinality(f.bag) < StorageSlots
\* What each call refuses inside the locks
Agreed(r, m, y) ==
  LET q == request[r]
  IN CASE q.op = "trade"  -> {q.me, q.you} \cap played = {} /\ q.weapon \in m.bag
                             /\ y.gold > 0 /\ Room(y)
       [] q.op = "list"   -> q.me \notin played /\ q.weapon \in m.bag
       [] q.op = "buy"    -> q.me \notin played /\ q.weapon \in y.up /\ m.gold >= Price /\ Room(m)
       [] q.op = "cancel" -> q.me \notin played /\ q.weapon \in m.up /\ Room(m)
       [] q.op = "claim"  -> q.me \notin played /\ m.sold > 0
       [] q.op = "gift"   -> q.you \notin m.sent
       [] q.op = "accept" -> m.pile > 0

Changed(r, m, y) ==
  LET q == request[r]
      alone(f) == [me |-> f, you |-> f]
  IN CASE q.op = "trade"  -> TradeChanges(m, y, q.weapon)
       [] q.op = "list"   -> alone(ListChanges(m, q.weapon))
       [] q.op = "buy"    -> BuyChanges(m, y, q.weapon)
       [] q.op = "cancel" -> alone(CancelChanges(m, q.weapon))
       [] q.op = "claim"  -> alone(ClaimChanges(m))
       [] q.op = "gift"   -> GiftChanges(m, y, q.me, q.you)
       [] q.op = "accept" -> alone(TakeChanges(m))

\* Mutant of HasLocks: only the lock of whoever asks
HasOwnLock(r) == request[r].at = "asks" /\ locked[request[r].me] = r
HasLocks(r) == request[r].at = "asks" /\ \A a \in Parties(r) : locked[a] = r

Changes(r) ==
  /\ HasLocks(r)
  /\ LET q == request[r]
         c == Changed(r, Loaded(q.me), Loaded(q.you))
     IN /\ Agreed(r, Loaded(q.me), Loaded(q.you))
        /\ object' = [object EXCEPT ![q.you] = c.you, ![q.me] = c.me]
        /\ request' = [request EXCEPT ![r].at = IF q.op = "accept" THEN "grants" ELSE "changed",
                                      ![r].shared = Parties(r) \cap played # {}]
  /\ UNCHANGED <<filed, played, locked, asks, stays, faults, torn>>

Refused(r) ==
  /\ HasLocks(r)
  /\ Ends(r)
  /\ UNCHANGED <<filed, object, played, asks, stays, faults, torn>>

\* grantGift, or returnGift when what is in it does not fit
GrantsGift(r) ==
  /\ request[r].at = "grants"
  /\ \/ /\ object' = [object EXCEPT ![request[r].me].stock = @ + 1]
        /\ Goes(r, "changed") /\ UNCHANGED locked
     \/ /\ object' = [object EXCEPT ![request[r].me].pile = @ + 1]
        /\ Ends(r)
  /\ UNCHANGED <<filed, played, asks, stays, faults, torn>>

-----------------------------------------------------------------------------
(* The write: a snapshot of all of them, then one rename after the other.  *)

InWrite(a) == \E r \in Requests : request[r].at \in {"staged", "half"} /\ a \in Parties(r)

\* The order the call hands them over in
FirstOf(r) ==
  IF request[r].op \in {"buy", "gift"} THEN request[r].you ELSE request[r].me

Stages(r) ==
  /\ request[r].at = "changed"
  /\ request' = [request EXCEPT ![r].at = "staged", ![r].staged = object]
  /\ UNCHANGED <<filed, object, played, locked, asks, stays, faults, torn>>

FirstLands(r) ==
  /\ request[r].at = "staged"
  /\ filed' = [filed EXCEPT ![FirstOf(r)] = request[r].staged[FirstOf(r)]]
  /\ IF Cardinality(Parties(r)) = 2 THEN Goes(r, "half") /\ UNCHANGED locked ELSE Ends(r)
  /\ UNCHANGED <<object, played, asks, stays, faults, torn>>

SecondLands(r) ==
  /\ request[r].at = "half"
  /\ \E a \in Parties(r) \ {FirstOf(r)} : filed' = [filed EXCEPT ![a] = request[r].staged[a]]
  /\ Ends(r)
  /\ UNCHANGED <<object, played, asks, stays, faults, torn>>

\* What a fault leaves half done: one file, or a live object that was changed already
Halved(r) ==
  /\ request[r].op \in TwoPartyOps
  /\ request[r].at = "half" \/ (request[r].at \in {"changed", "staged"} /\ request[r].shared)

\* The call is told that nothing was saved
WriteFails(r) ==
  /\ request[r].at \in {"staged", "half"} /\ faults < MaxFaults
  /\ faults' = faults + 1
  /\ torn' = (torn \/ Halved(r))
  /\ Ends(r)
  /\ UNCHANGED <<filed, object, played, asks, stays>>

-----------------------------------------------------------------------------
(* The runs, and the end of the process.                                   *)

\* acquireAccount, under the account's lock
EntersRun(a) ==
  /\ a \notin played /\ locked[a] = Nobody /\ stays < MaxStays
  /\ played' = played \cup {a} /\ stays' = stays + 1
  /\ object' = [object EXCEPT ![a] = filed[a]]
  /\ UNCHANGED <<filed, locked, request, asks, faults, torn>>

\* A reward is saved, under no lock but the write chain
RunIsSaved(a) ==
  /\ a \in played /\ ~InWrite(a)
  /\ filed' = [filed EXCEPT ![a] = object[a]]
  /\ UNCHANGED <<object, played, locked, request, asks, stays, faults, torn>>

\* Let go once written
ComesBack(a) ==
  /\ a \in played /\ ~InWrite(a)
  /\ filed' = [filed EXCEPT ![a] = object[a]]
  /\ played' = played \ {a}
  /\ UNCHANGED <<object, locked, request, asks, stays, faults, torn>>

Crashes ==
  /\ faults < MaxFaults /\ faults' = faults + 1
  /\ torn' = (torn \/ \E r \in Requests : Halved(r))
  /\ request' = [r \in Requests |-> Idle]
  /\ locked' = [a \in Accounts |-> Nobody]
  /\ object' = filed /\ played' = {}
  /\ UNCHANGED <<filed, asks, stays>>

RequestStep(r) ==
  \/ Locks(r) \/ Changes(r) \/ Refused(r) \/ GrantsGift(r) \/ Stages(r)
  \/ FirstLands(r) \/ SecondLands(r)
EconomyNext ==
  \/ \E r \in Requests : Asks(r) \/ RequestStep(r) \/ WriteFails(r)
  \/ \E a \in Accounts : EntersRun(a) \/ RunIsSaved(a) \/ ComesBack(a)
  \/ Crashes

EconomySpec == EconomyInit /\ [][EconomyNext]_economyVars

\* Locks are handed on, and file operations end
EconomyFairness == \A r \in Requests : WF_economyVars(RequestStep(r))

-----------------------------------------------------------------------------
(* Properties.                                                             *)

Current == [a \in Accounts |-> Loaded(a)]
Holders(f, w) == {<<a, "bag">> : a \in {b \in Accounts : w \in f[b].bag}}
                 \cup {<<a, "up">> : a \in {b \in Accounts : w \in f[b].up}}
Worth(f) == MapThenSumSet(LAMBDA a : f[a].gold + (Price - Tax) * f[a].sold + Tax * f[a].sales,
                          Accounts)
Whole(f) ==
  /\ \A w \in Weapons : Cardinality(Holders(f, w)) = 1
  /\ Worth(f) = Purse * Cardinality(Accounts)
Moving == \E r \in Requests : request[r].at \in {"grants", "changed", "staged", "half"}

\* Value is lost or doubled in two ways only: a fault between the two renames, and a fault
\* after a live object was changed that its run saves by itself.
OnlyTornPairsLose == torn \/ Moving \/ (Whole(filed) /\ Whole(Current))

\* The day's one gift from each friend is one, however many calls ask for it at once.
GiftsAreRationed ==
  torn \/ \A f \in {filed, Current} : \A a \in Accounts :
            f[a].pile + f[a].stock < Cardinality(Accounts)

\* Two accounts at a time and no deadlock: every call ends.
RequestsEnd == \A r \in Requests : request[r].at # "idle" ~> request[r].at = "idle"
=============================================================================
