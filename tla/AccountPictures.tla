--------------------------- MODULE AccountPictures ---------------------------
(***************************************************************************)
(* Accounts as rows: storage/postgres.js, account-rows.js and              *)
(* account-writes.js. A save sends the difference to a picture of storage  *)
(* that its thread keeps; the picture is trusted as far as its version.    *)
(*                                                                         *)
(* An account is its own row and the weapons it holds. Which thread may    *)
(* change an account is AccountLease's business: here it is `keeper`.      *)
(***************************************************************************)
EXTENDS Naturals, FiniteSets

CONSTANTS Threads, Holders, Weapons, SaveIds,
          NoOne,         \* no account, no thread, no save
          MaxEvents,     \* bound: changes, moves and loads of accounts
          MaxVersion     \* bound: the version up to which saves begin

ASSUME PictureAssumption ==
  NoOne \notin Threads \cup Holders \cup Weapons \cup SaveIds /\ MaxEvents \in Nat /\ MaxVersion \in Nat

VARIABLES
  rows,      \* the account rows: version and value
  child,     \* the child rows: which account a weapon is stored under (its id is a global key)
  rowLock,   \* the transaction that has updated an account row
  live,      \* the accounts as objects, of the thread that keeps each
  picture,   \* snapshots: what a thread believes storage holds
  keeper,    \* the thread an account is with
  save,      \* saves under way: the plans, and how many have passed their account row
  load,      \* a loadAccount between its queries
  events,
  collided   \* whether a weapon was inserted while another row had its id

pictureVars == <<rows, child, rowLock, live, picture, keeper, save, load, events, collided>>

\* What a row and its lists come to
Content(val, arms) == [val |-> val, arms |-> arms]
Blank == Content(0, {})
StoredArms(a) == {w \in Weapons : child[w] = a}
Idle == [at |-> "idle", thread |-> NoOne, plans |-> [a \in {} |-> Blank], passed |-> {}, trade |-> FALSE]
NoLoad == [by |-> NoOne, of |-> NoOne, version |-> 0, val |-> 0]
NoPicture == [version |-> 0, is |-> Blank]

PictureInit ==
  /\ rows = [a \in Holders |-> [version |-> 1, val |-> 0]]
  /\ child = [w \in Weapons |-> CHOOSE a \in Holders : TRUE] /\ rowLock = [a \in Holders |-> NoOne]
  /\ keeper = [a \in Holders |-> CHOOSE t \in Threads : TRUE]
  /\ live = [a \in Holders |-> Content(0, StoredArms(a))]
  /\ picture = [t \in Threads |-> [a \in Holders |-> NoPicture]]
  /\ save = [k \in SaveIds |-> Idle] /\ load = NoLoad
  /\ events = 0 /\ collided = FALSE

Counts == events < MaxEvents /\ events' = events + 1
Saving(a) == \E k \in SaveIds : a \in DOMAIN save[k].plans
Trading(a) == \E k \in SaveIds : a \in DOMAIN save[k].plans /\ save[k].trade

-----------------------------------------------------------------------------
(* The objects of a thread, which go on changing while a save is on its way *)

\* An account changes: coins, experience, what a run brings
Changes(t) ==
  /\ Counts
  /\ \E a \in Holders : keeper[a] = t /\ live' = [live EXCEPT ![a].val = 1 - @]
  /\ UNCHANGED <<rows, child, rowLock, picture, keeper, save, load, collided>>

\* Another thread has the account from here on, once the saves of it are through and storage
\* has all of it
Passes(a, t) ==
  /\ keeper[a] # t /\ ~Saving(a) /\ Counts
  /\ live[a] = Content(rows[a].val, StoredArms(a))
  /\ keeper' = [keeper EXCEPT ![a] = t]
  /\ UNCHANGED <<rows, child, rowLock, live, picture, save, load, collided>>

-----------------------------------------------------------------------------
(* loadAccount: no transaction, so a save may land between its queries.    *)

\* SELECT * FROM accounts: the row and its version
LoadsRow(t, a) ==
  /\ load = NoLoad /\ Counts
  /\ load' = [by |-> t, of |-> a, version |-> rows[a].version, val |-> rows[a].val]
  /\ UNCHANGED <<rows, child, rowLock, live, picture, keeper, save, collided>>

\* Mutant of Taken: the version is the one storage has when the lists are read
TakenLast(t, a) == [version |-> rows[a].version, is |-> Content(load.val, StoredArms(a))]
\* snapshotOf what was read, at the version of the row
Taken(t, a) == [version |-> load.version, is |-> Content(load.val, StoredArms(a))]

LoadsLists(t) ==
  /\ load.by = t
  /\ picture' = [picture EXCEPT ![t][load.of] = Taken(t, load.of)]
  /\ load' = NoLoad
  /\ UNCHANGED <<rows, child, rowLock, live, keeper, save, events, collided>>

-----------------------------------------------------------------------------
(* saveAccounts.                                                           *)

\* planWrite: the account as it is now and the picture it is compared with
PlanWrite(seen, account) == [full |-> seen = NoPicture, seen |-> seen, next |-> account, version |-> 0]

BeginsSave(k, t) ==
  /\ save[k].at = "idle"
  /\ \E a \in Holders :
       /\ keeper[a] = t /\ ~Trading(a) /\ rows[a].version < MaxVersion
       /\ save' = [save EXCEPT ![k] =
         [at |-> "rows", thread |-> t, passed |-> {}, trade |-> FALSE,
          plans |-> [b \in {a} |-> PlanWrite(picture[t][b], live[b])]]]
  /\ UNCHANGED <<rows, child, rowLock, live, picture, keeper, load, events, collided>>

\* A weapon goes from one account to another, both under their locks: one save has them both
SavesTrade(k, t) ==
  /\ save[k].at = "idle" /\ Counts
  /\ \E a, b \in Holders, w \in Weapons :
       /\ a # b /\ rows[a].version < MaxVersion /\ rows[b].version < MaxVersion
       /\ keeper[a] = t /\ keeper[b] = t /\ ~Saving(a) /\ ~Saving(b) /\ w \in live[a].arms
       /\ live' = [live EXCEPT ![a].arms = @ \ {w}, ![b].arms = @ \cup {w}]
       /\ save' = [save EXCEPT ![k] =
            [at |-> "rows", thread |-> t, passed |-> {}, trade |-> TRUE,
             plans |-> [c \in {a, b} |-> PlanWrite(picture[t][c], live'[c])]]]
  /\ UNCHANGED <<rows, child, rowLock, picture, keeper, load, collided>>

\* Mutant of Advances: the version is not looked at
AdvancesAlways(k, a) == ~save[k].plans[a].full
\* advanceAccountRow: storage is still where the picture was taken
Advances(k, a) == ~save[k].plans[a].full /\ save[k].plans[a].seen.version = rows[a].version

\* The first pass of runPlans: each account row, in any order the caller gave; another
\* transaction's row is waited for. A plan whose picture does not hold is made again, from the
\* account as it is by then, to write everything.
PassesRow(k) ==
  /\ save[k].at = "rows"
  /\ \E a \in DOMAIN save[k].plans \ save[k].passed :
       /\ rowLock[a] = NoOne
       /\ rowLock' = [rowLock EXCEPT ![a] = k]
       /\ save' = [save EXCEPT
            ![k].passed = @ \cup {a},
            ![k].plans[a] = [(IF Advances(k, a) THEN @ ELSE PlanWrite(NoPicture, live[a]))
                             EXCEPT !.version = rows[a].version + 1]]
  /\ UNCHANGED <<rows, child, live, picture, keeper, load, events, collided>>

\* What a plan takes out: everything, or the rows that are no longer the account's
Removes(k, a) ==
  LET plan == save[k].plans[a] IN
  IF plan.full THEN StoredArms(a) ELSE (plan.seen.is.arms \ plan.next.arms) \cap StoredArms(a)
\* What it puts in: everything, or the rows the picture has not
Inserts(k, a) ==
  LET plan == save[k].plans[a] IN
  IF plan.full THEN plan.next.arms ELSE plan.next.arms \ plan.seen.is.arms
\* The columns it writes: all, or those that differ from the picture
RowAfter(k, a) ==
  LET plan == save[k].plans[a] IN
  IF plan.full \/ plan.seen.is.val # plan.next.val THEN plan.next.val ELSE rows[a].val

\* Mutant of Cleared: each plan clears its own rows as it comes to be written
ClearedByItself(k, a) == Removes(k, a)
\* The second pass is over every plan before the third begins
Cleared(k, a) == UNION {Removes(k, b) : b \in DOMAIN save[k].plans}

Collides(k) ==
  \E a \in DOMAIN save[k].plans : \E w \in Inserts(k, a) : child[w] # NoOne /\ w \notin Cleared(k, a)

\* The other two passes, and COMMIT: nobody sees them before it
Written(k) == save[k].at = "rows" /\ save[k].passed = DOMAIN save[k].plans
Commit(k) ==
  /\ Written(k) /\ ~Collides(k)
  /\ rows' = [a \in Holders |-> IF a \in save[k].passed
                THEN [version |-> save[k].plans[a].version, val |-> RowAfter(k, a)] ELSE rows[a]]
  /\ child' = [w \in Weapons |->
       IF \E a \in save[k].passed : w \in Inserts(k, a)
       THEN CHOOSE a \in save[k].passed : w \in Inserts(k, a)
       ELSE IF \E a \in save[k].passed : w \in Removes(k, a) THEN NoOne ELSE child[w]]
  /\ rowLock' = [a \in Holders |-> IF rowLock[a] = k THEN NoOne ELSE rowLock[a]]

\* Mutant of Believed: the picture moves with the plan, whatever becomes of it
BelievedAnyway(k, known) ==
  [a \in Holders |-> IF a \in save[k].passed THEN [version |-> save[k].plans[a].version, is |-> save[k].plans[a].next]
                     ELSE picture[save[k].thread][a]]
\* remember, once the commit was answered; a failure, or an answer that never came, leaves none
Believed(k, known) ==
  [a \in Holders |->
    IF a \notin DOMAIN save[k].plans THEN picture[save[k].thread][a]
    ELSE IF known THEN [version |-> save[k].plans[a].version, is |-> save[k].plans[a].next]
    ELSE NoPicture]

\* The answer of a commit is some time on its way: other saves and loads come first
Committed(k) ==
  /\ Commit(k) /\ save' = [save EXCEPT ![k].at = "committed"]
  /\ UNCHANGED <<live, picture, keeper, load, events, collided>>

Answered(k, known) ==
  /\ save[k].at = "committed"
  /\ picture' = [picture EXCEPT ![save[k].thread] = Believed(k, known)]
  /\ save' = [save EXCEPT ![k] = Idle]
  /\ UNCHANGED <<rows, child, rowLock, live, keeper, load, events, collided>>

\* A statement fails, the connection goes, PostgreSQL ends a deadlock: ROLLBACK
FailsSave(k) ==
  /\ save[k].at = "rows" /\ save[k].passed # {}
  /\ collided' = (collided \/ (Written(k) /\ Collides(k)))
  /\ picture' = [picture EXCEPT ![save[k].thread] = Believed(k, FALSE)]
  /\ rowLock' = [a \in Holders |-> IF rowLock[a] = k THEN NoOne ELSE rowLock[a]]
  /\ save' = [save EXCEPT ![k] = Idle]
  \* a trade that was not saved was made on copies
  /\ live' = [a \in Holders |-> IF save[k].trade /\ a \in DOMAIN save[k].plans
                              THEN Content(live[a].val, StoredArms(a)) ELSE live[a]]
  /\ UNCHANGED <<rows, child, keeper, load, events>>

PictureNext ==
  \/ \E t \in Threads : Changes(t) \/ LoadsLists(t)
  \/ \E t \in Threads, a \in Holders : Passes(a, t) \/ LoadsRow(t, a)
  \/ \E k \in SaveIds, t \in Threads : BeginsSave(k, t) \/ SavesTrade(k, t)
  \/ \E k \in SaveIds : PassesRow(k) \/ Committed(k) \/ FailsSave(k)
  \/ \E k \in SaveIds, known \in BOOLEAN : Answered(k, known)
PictureSpec == PictureInit /\ [][PictureNext]_pictureVars

-----------------------------------------------------------------------------
(* Properties.                                                             *)

PictureTypeOK ==
  /\ child \in [Weapons -> Holders \cup {NoOne}]
  /\ rowLock \in [Holders -> SaveIds \cup {NoOne}] /\ keeper \in [Holders -> Threads]
  /\ \A k \in SaveIds : save[k].at \in {"idle", "rows", "committed"} /\ save[k].passed \subseteq Holders
  /\ events \in 0..MaxEvents /\ collided \in BOOLEAN

\* What a save commits is the account as it was planned, whole, whatever picture the plan was
\* made against: a stale picture costs a full write and never a wrong one. And no trade fails on
\* the id of a weapon that changes hands.
CommitsWriteTheAccount ==
  /\ ~collided
  /\ \A k \in SaveIds : Written(k) =>
       \A a \in save[k].passed :
         /\ RowAfter(k, a) = save[k].plans[a].next.val
         /\ (StoredArms(a) \ Removes(k, a)) \cup Inserts(k, a) = save[k].plans[a].next.arms
=============================================================================
