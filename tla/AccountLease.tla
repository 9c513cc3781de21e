---------------------------- MODULE AccountLease ----------------------------
(***************************************************************************)
(* Who may change one account, when dungeons run in worker threads.        *)
(*                                                                         *)
(* The main thread keeps the table of leases and answers the game's RPCs;  *)
(* a match worker that runs a dungeon with the account leases it, holds    *)
(* its only live object, and saves it.  The module follows one account     *)
(* through match-worker-pool.js (the main thread's half of the protocol),  *)
(* match-worker-thread.js (the worker's half), and the lock chains, loads  *)
(* and saves of accounts.js they both stand on.                            *)
(*                                                                         *)
(* The content of the account is the set of updates it contains.  An       *)
(* update is named after what made it: a transaction (an RPC, or an        *)
(* account operation) or a visit (one member's run in a dungeon, whose     *)
(* reward is one update).  Losing an update is then a matter of sets.      *)
(*                                                                         *)
(* Threads exchange messages over two FIFO channels per worker.  One       *)
(* action is one macrotask of one thread: what the code does between two   *)
(* awaits that leave the thread.                                           *)
(***************************************************************************)
EXTENDS Naturals, Sequences, FiniteSets

CONSTANTS Workers,   \* slots of the worker pool
          Txns,      \* transactions on the account, each run at most once
          Social,    \* those that change only friend lists (FIELDS_WRITABLE_FROM_ELSEWHERE)
          Second,    \* those that come from an RPC of another account, in a dungeon
          Visits,    \* dungeon entries with the account, each made at most once
          Main,      \* the main thread
          NoWorker,  \* nobody holds the lease
          MaxCrashes \* how many times a worker may die

ASSUME NamesAssumption ==
  /\ Workers # {}
  /\ Social \subseteq Txns /\ Second \subseteq Txns
  /\ Txns \cap Visits = {}
  /\ Main \notin Workers
  /\ NoWorker \notin Workers
  /\ Main \notin Txns \cup Visits
  /\ Main # NoWorker

ASSUME MaxCrashesAssumption == MaxCrashes \in Nat

Updates == Txns \cup Visits
Values  == SUBSET Updates
\* null, where a copy of the account is expected: no set of updates
NoVal == {Main}

VARIABLES
  \* what is written down
  storage,
  \* the main thread: MatchWorkerPool.leases and .borrowedLocks, and its chain in accountChains
  lease, borrowed, mainChain,
  \* each worker: whether it runs, its live object, `releasing`, its write chain, `acquiring`
  \* (the last lease it asked for, until that is answered), its chain in accountChains,
  \* `remoteHolds`, and the calls from elsewhere it has yet to answer
  alive, live, releasing, writes, acquiring, chain, holds, asked,
  \* the channels: worker to main thread, main thread to worker
  up, down,
  \* each transaction: where it is in its work and on which thread; the worker that owes
  \* the main thread an answer for it; the object it works on, and the working copy it was
  \* lent (`remoteCopies`); whether it has a borrowed lock, whether its worker died while
  \* the lock was being arranged, whether the lease it waits on has come back, whether
  \* a dead worker still has its lock, and the lease its read waits for on the holder
  pc, at, awaiting, ref, copy, base, granted, orphans, handedBack, lost, behind,
  \* each visit
  visit, vat,
  \* how many workers have died; updates reported as saved; whether an object was
  \* saved whose hold had ended
  crashes, acked, stale

mainVars   == <<lease, borrowed, mainChain>>
workerVars == <<alive, live, releasing, writes, acquiring, chain, holds, asked>>
txnVars    == <<pc, at, awaiting, ref, copy, base, granted, orphans, handedBack, lost, behind>>
visitVars  == <<visit, vat>>
ghostVars  == <<crashes, acked, stale>>
vars == <<storage, mainVars, workerVars, up, down, txnVars, visitVars, ghostVars>>

-----------------------------------------------------------------------------
(* Messages, and the questions the code asks of its tables.                *)

Msg(op, who, val) == [op |-> op, who |-> who, val |-> val]

UpMsg ==
  [op : {"lock", "unlock", "account", "retry"}, who : Txns, val : {NoVal}]
    \cup [op : {"held", "live", "patch", "patched"}, who : Txns, val : Values \cup {NoVal}]
    \cup [op : {"lease"}, who : Visits, val : {NoVal}]
    \cup [op : {"release"}, who : {Main}, val : {NoVal}]
DownMsg ==
  [op : {"rpcOwn", "rpcOther", "refused", "hold", "unhold", "account"}, who : Txns, val : {NoVal}]
    \cup [op : {"grant", "live", "patch", "patched"}, who : Txns, val : Values \cup {NoVal}]
    \cup [op : {"leased"}, who : Visits, val : Values \cup {NoVal}]
    \cup [op : {"leaseFailed"}, who : Visits, val : {NoVal}]

Post(ch, w, m) == [ch EXCEPT ![w] = Append(@, m)]
IsHead(x, seq) == seq # <<>> /\ Head(seq) = x
\* A lock chain whose first turn is over
Rest(seq) == SubSeq(seq, 2, Len(seq))

\* heldAccount: some member of this worker is in a dungeon with the account
Held(w) == \E e \in Visits : visit[e] = "in" /\ vat[e] = w
\* The lease asked for has not been answered yet
Asking(e) == e \in Visits /\ visit[e] \in {"asked", "waiting", "woken", "answered"}
\* ownerOf: recover() ends the leases of a worker in the step that finds it dead
OwnerOf == lease

MainTypeOK ==
  /\ storage \in Values
  /\ lease \in Workers \cup {NoWorker}
  /\ borrowed \in [Txns -> Workers \cup {Main, NoWorker}]
  /\ mainChain \in Seq(Txns \cup Visits)
WorkersTypeOK ==
  /\ alive \in [Workers -> BOOLEAN]
  /\ live \in [Workers -> Values]
  /\ releasing \in [Workers -> BOOLEAN]
  /\ writes \in [Workers -> Seq(Txns \cup Visits)]
  /\ acquiring \in [Workers -> Visits \cup {NoWorker}]
  /\ chain \in [Workers -> Seq(Txns)]
  /\ holds \in [Workers -> SUBSET Txns]
  /\ asked \in [Workers -> SUBSET Txns]
ChannelsTypeOK ==
  /\ up \in [Workers -> Seq(UpMsg)]
  /\ down \in [Workers -> Seq(DownMsg)]
TxnStates == {"new", "queued", "asking", "loaded", "forwarded", "arrivedOwn", "arrived",
              "locking", "holding", "awaitRelease", "townQueued", "wqueued", "wasking",
              "wloaded", "writing", "patching", "settled", "refused", "done", "failed"}
TxnsTypeOK ==
  /\ pc \in [Txns -> TxnStates]
  /\ at \in [Txns -> Workers \cup {Main}]
  /\ awaiting \in [Txns -> Workers \cup {NoWorker, Main}]
  /\ ref \in [Txns -> {"none", "live", "ended", "own", "read", "remote"}]
  /\ copy \in [Txns -> Values]
  /\ base \in [Txns -> Values \cup {NoVal}]
  /\ granted \in SUBSET Txns /\ orphans \in SUBSET Txns
  /\ handedBack \in SUBSET Txns /\ lost \in SUBSET Txns
  /\ behind \in [Txns -> Visits \cup {NoWorker}]
VisitsTypeOK ==
  /\ visit \in [Visits -> {"new", "acquiring", "asked", "waiting", "woken", "answered", "in",
                           "out"}]
  /\ vat \in [Visits -> Workers \cup {NoWorker}]
GhostsTypeOK ==
  /\ crashes \in Nat
  /\ acked \in Values
  /\ stale \in BOOLEAN
TypeOK ==
  /\ MainTypeOK /\ WorkersTypeOK /\ ChannelsTypeOK
  /\ TxnsTypeOK /\ VisitsTypeOK /\ GhostsTypeOK

Init ==
  /\ storage = {}
  /\ lease = NoWorker
  /\ borrowed = [t \in Txns |-> NoWorker]
  /\ mainChain = <<>>
  /\ alive = [w \in Workers |-> TRUE]
  /\ live = [w \in Workers |-> {}]
  /\ releasing = [w \in Workers |-> FALSE]
  /\ writes = [w \in Workers |-> <<>>]
  /\ acquiring = [w \in Workers |-> NoWorker]
  /\ chain = [w \in Workers |-> <<>>]
  /\ holds = [w \in Workers |-> {}]
  /\ asked = [w \in Workers |-> {}]
  /\ up = [w \in Workers |-> <<>>]
  /\ down = [w \in Workers |-> <<>>]
  /\ pc = [t \in Txns |-> "new"]
  /\ at = [t \in Txns |-> Main]
  /\ awaiting = [t \in Txns |-> NoWorker]
  /\ ref = [t \in Txns |-> "none"]
  /\ copy = [t \in Txns |-> {}]
  /\ base = [t \in Txns |-> NoVal]
  /\ granted = {}
  /\ orphans = {}
  /\ handedBack = {}
  /\ lost = {}
  /\ behind = [t \in Txns |-> NoWorker]
  /\ visit = [e \in Visits |-> "new"]
  /\ vat = [e \in Visits |-> NoWorker]
  /\ crashes = 0
  /\ acked = {}
  /\ stale = FALSE

-----------------------------------------------------------------------------
(* The main thread: RPCs of accounts in town, and of accounts that turn    *)
(* out to be leased.                                                       *)

UpIs(w, op)   == up[w] # <<>> /\ Head(up[w]).op = op
DownIs(w, op) == down[w] # <<>> /\ Head(down[w]).op = op
TakeUp(w)   == up' = [up EXCEPT ![w] = Tail(@)]
TakeDown(w) == down' = [down EXCEPT ![w] = Tail(@)]

\* Sent whole to the worker holding the account, or queued for its turn here.
DispatchWhereOwned(t) ==
  \/ /\ OwnerOf = NoWorker
     /\ mainChain' = Append(mainChain, t)
     /\ pc' = [pc EXCEPT ![t] = "queued"]
     /\ awaiting' = [awaiting EXCEPT ![t] = NoWorker]
     /\ UNCHANGED down
  \/ /\ OwnerOf # NoWorker
     /\ down' = Post(down, OwnerOf, Msg("rpcOwn", t, NoVal))
     /\ awaiting' = [awaiting EXCEPT ![t] = OwnerOf]
     /\ pc' = [pc EXCEPT ![t] = "forwarded"]
     /\ UNCHANGED mainChain

\* An RPC of the account arrives from its client.
Rpc(t) ==
  /\ pc[t] = "new" /\ t \notin Second
  /\ DispatchWhereOwned(t)
  /\ UNCHANGED <<storage, lease, borrowed, workerVars, up, at, ref, copy, base, granted,
                 orphans, handedBack, lost, behind, visitVars, ghostVars>>

\* The worker answered that the run has ended: dispatched again at home.
RpcRetry(w) ==
  /\ UpIs(w, "retry")
  /\ TakeUp(w)
  /\ DispatchWhereOwned(Head(up[w]).who)
  /\ UNCHANGED <<storage, lease, borrowed, workerVars, at, ref, copy, base, granted,
                 orphans, handedBack, lost, behind, visitVars, ghostVars>>

\* Its turn in the chain.  Leased since it queued: it asks the holder for a copy.
MainLoad(t) ==
  /\ pc[t] = "queued" /\ IsHead(t, mainChain)
  /\ \/ /\ OwnerOf = NoWorker
        /\ copy' = [copy EXCEPT ![t] = storage]
        /\ ref' = [ref EXCEPT ![t] = "own"]
        /\ pc' = [pc EXCEPT ![t] = "loaded"]
        /\ UNCHANGED <<down, awaiting>>
     \/ /\ OwnerOf # NoWorker
        /\ down' = Post(down, OwnerOf, Msg("account", t, NoVal))
        /\ awaiting' = [awaiting EXCEPT ![t] = OwnerOf]
        /\ pc' = [pc EXCEPT ![t] = "asking"]
        /\ UNCHANGED <<copy, ref>>
  /\ UNCHANGED <<storage, mainVars, workerVars, up, at, base, granted, orphans, handedBack,
                 lost, behind, visitVars, ghostVars>>

\* A copy of the live object, or nobody holds it after all and storage is read.
\* For a transaction on another worker the answer is passed on.
AccountAnswered(w) ==
  /\ UpIs(w, "live")
  /\ TakeUp(w)
  /\ LET t == Head(up[w]).who
         v == Head(up[w]).val
     IN /\ awaiting' = [awaiting EXCEPT ![t] = IF @ = w THEN NoWorker ELSE @]
        /\ \/ /\ pc[t] = "asking"
              /\ copy' = [copy EXCEPT ![t] = IF v = NoVal THEN storage ELSE v]
              /\ ref' = [ref EXCEPT ![t] = IF v = NoVal THEN "own" ELSE "read"]
              /\ pc' = [pc EXCEPT ![t] = "loaded"]
              /\ UNCHANGED down
           \/ /\ pc[t] = "wasking"
              /\ down' = Post(down, at[t], Msg("live", t, v))
              /\ UNCHANGED <<copy, ref, pc>>
           \/ /\ pc[t] \notin {"asking", "wasking"}
              /\ UNCHANGED <<copy, ref, pc, down>>
  /\ UNCHANGED <<storage, mainVars, workerVars, at, base, granted, orphans, handedBack,
                 lost, behind, visitVars, ghostVars>>

\* Saving checks once more who holds the account (beforeSave): leased by now, the whole
\* call is sent to the holder and starts again there.
MainSave(t) ==
  /\ pc[t] = "loaded" /\ IsHead(t, mainChain)
  /\ mainChain' = Rest(mainChain)
  /\ ref' = [ref EXCEPT ![t] = "none"]
  /\ \/ /\ OwnerOf = NoWorker
        /\ storage' = copy[t] \cup {t}
        /\ acked' = acked \cup {t}
        /\ stale' = (stale \/ ref[t] = "read")
        /\ pc' = [pc EXCEPT ![t] = "done"]
        /\ UNCHANGED <<down, awaiting>>
     \/ /\ OwnerOf # NoWorker
        /\ down' = Post(down, OwnerOf, Msg("rpcOther", t, NoVal))
        /\ awaiting' = [awaiting EXCEPT ![t] = OwnerOf]
        /\ pc' = [pc EXCEPT ![t] = "forwarded"]
        /\ UNCHANGED <<storage, acked, stale>>
  /\ UNCHANGED <<lease, borrowed, workerVars, up, at, copy, base, granted, orphans,
                 handedBack, lost, behind, visitVars, crashes>>

-----------------------------------------------------------------------------
(* The main thread: leases.                                                *)

\* A worker asks for the account: decided under the main thread's lock for it.
LeaseAsked(w) ==
  /\ UpIs(w, "lease")
  /\ TakeUp(w)
  /\ mainChain' = Append(mainChain, Head(up[w]).who)
  /\ UNCHANGED <<storage, lease, borrowed, workerVars, down, txnVars, visitVars, ghostVars>>

\* Mutant: the lease is recorded for a worker that died while the account was read.
LeaseTurnForTheDead(e) ==
  /\ IsHead(e, mainChain) /\ lease = NoWorker
  /\ mainChain' = Rest(mainChain)
  /\ lease' = vat[e]
  /\ IF visit[e] = "out" THEN UNCHANGED <<visit, down>>
     ELSE /\ visit' = [visit EXCEPT ![e] = "answered"]
          /\ down' = Post(down, vat[e], Msg("leased", e, storage))
  /\ UNCHANGED <<storage, borrowed, workerVars, up, txnVars, vat, ghostVars>>

\* The lease is this worker's already, another's - it waits, or its time is up, which is
\* left open - or nobody's: then it is recorded and the account sent.  A worker that has
\* died meanwhile gets nothing.
LeaseTurn(e) ==
  /\ IsHead(e, mainChain)
  /\ mainChain' = Rest(mainChain)
  /\ LET w == vat[e]
     IN \/ /\ visit[e] = "out"
           /\ UNCHANGED <<lease, down, visit>>
        \/ /\ visit[e] = "asked" /\ lease = w
           /\ visit' = [visit EXCEPT ![e] = "answered"]
           /\ down' = Post(down, w, Msg("leased", e, NoVal))
           /\ UNCHANGED lease
        \/ /\ visit[e] = "asked" /\ lease \notin {w, NoWorker}
           /\ visit' = [visit EXCEPT ![e] = "waiting"]
           /\ UNCHANGED <<lease, down>>
        \/ /\ visit[e] = "asked" /\ lease \notin {w, NoWorker}
           /\ visit' = [visit EXCEPT ![e] = "answered"]
           /\ down' = Post(down, w, Msg("leaseFailed", e, NoVal))
           /\ UNCHANGED lease
        \/ /\ visit[e] = "asked" /\ lease = NoWorker
           /\ visit' = [visit EXCEPT ![e] = "answered"]
           /\ lease' = w
           /\ down' = Post(down, w, Msg("leased", e, storage))
  /\ UNCHANGED <<storage, borrowed, workerVars, up, txnVars, vat, ghostVars>>

\* The lease it waited for has come back, or its time has passed: it takes its turn again.
LeaseAgain(e) ==
  /\ visit[e] = "woken"
  /\ visit' = [visit EXCEPT ![e] = "asked"]
  /\ mainChain' = Append(mainChain, e)
  /\ UNCHANGED <<storage, lease, borrowed, workerVars, up, down, txnVars, vat, ghostVars>>

\* LEASE_HANDOVER_TIMEOUT_MS passed while it waited: it looks once more, as LeaseAgain.
LeaseTimeout(e) ==
  /\ visit[e] = "waiting"
  /\ visit' = [visit EXCEPT ![e] = "woken"]
  /\ UNCHANGED <<storage, mainVars, workerVars, up, down, txnVars, vat, ghostVars>>

\* Everyone who waits on a lease wakes when it ends.
WakeWaiters ==
  /\ visit' = [e \in Visits |-> IF visit[e] = "waiting" THEN "woken" ELSE visit[e]]
  /\ handedBack' = handedBack \cup {t \in Txns : pc[t] \in {"holding", "awaitRelease"}}

LeaseReleased(w) ==
  /\ UpIs(w, "release")
  /\ TakeUp(w)
  /\ \/ /\ lease = w
        /\ lease' = NoWorker
        /\ WakeWaiters
     \/ /\ lease # w
        /\ UNCHANGED <<lease, visit, handedBack>>
  /\ UNCHANGED <<storage, borrowed, mainChain, workerVars, down, pc, at, awaiting, ref, copy,
                 base, granted, orphans, lost, behind, vat, ghostVars>>

-----------------------------------------------------------------------------
(* The main thread: locks borrowed by a worker's transaction.              *)

\* In town the lock is this thread's; in a dungeon elsewhere the holder is asked for its
\* own.  A transaction whose worker has died no longer counts as the holder's own.
BorrowLock(t) ==
  \/ /\ lease = NoWorker
     /\ mainChain' = Append(mainChain, t)
     /\ pc' = [pc EXCEPT ![t] = "townQueued"]
     /\ UNCHANGED <<down, awaiting, handedBack>>
  \/ /\ lease = at[t] /\ t \notin orphans
     /\ down' = Post(down, at[t], Msg("refused", t, NoVal))
     /\ pc' = [pc EXCEPT ![t] = "locking"]
     /\ UNCHANGED <<mainChain, awaiting, handedBack>>
  \/ /\ lease # NoWorker /\ (lease # at[t] \/ t \in orphans)
     /\ down' = Post(down, lease, Msg("hold", t, NoVal))
     /\ awaiting' = [awaiting EXCEPT ![t] = lease]
     /\ pc' = [pc EXCEPT ![t] = "holding"]
     /\ handedBack' = handedBack \ {t}
     /\ UNCHANGED mainChain

LockAsked(w) ==
  /\ UpIs(w, "lock")
  /\ TakeUp(w)
  /\ BorrowLock(Head(up[w]).who)
  /\ UNCHANGED <<storage, lease, borrowed, workerVars, at, ref, copy, base, granted, orphans,
                 lost, behind, visitVars, ghostVars>>

\* The lease was handed back while the hold was being arranged.
BorrowAgain(t) ==
  /\ pc[t] = "awaitRelease" /\ t \in handedBack
  /\ BorrowLock(t)
  /\ UNCHANGED <<storage, lease, borrowed, workerVars, up, at, ref, copy, base, granted,
                 orphans, lost, behind, visitVars, ghostVars>>

\* Mutant: the borrower is not looked at again when its turn comes.
TownTurnUnchecked(t) ==
  /\ pc[t] = "townQueued" /\ IsHead(t, mainChain) /\ borrowed[t] = NoWorker
  /\ borrowed' = [borrowed EXCEPT ![t] = Main]
  /\ down' = IF t \in orphans THEN down ELSE Post(down, at[t], Msg("grant", t, NoVal))
  /\ UNCHANGED <<storage, lease, mainChain, workerVars, up, txnVars, visitVars, ghostVars>>

\* The main thread's lock, for as long as the borrower keeps it.
TownTurn(t) ==
  /\ pc[t] = "townQueued" /\ IsHead(t, mainChain) /\ borrowed[t] = NoWorker
  /\ \/ /\ t \in orphans
        /\ mainChain' = Rest(mainChain)
        /\ pc' = [pc EXCEPT ![t] = "failed"]
        /\ UNCHANGED <<borrowed, down>>
     \/ /\ t \notin orphans
        /\ borrowed' = [borrowed EXCEPT ![t] = Main]
        /\ down' = Post(down, at[t], Msg("grant", t, NoVal))
        /\ UNCHANGED <<mainChain, pc>>
  /\ UNCHANGED <<storage, lease, workerVars, up, at, awaiting, ref, copy, base, granted,
                 orphans, handedBack, lost, behind, visitVars, ghostVars>>

\* The holder's answer: a copy of the live object with its lock, or nothing.
HoldAnswered(w) ==
  /\ UpIs(w, "held")
  /\ TakeUp(w)
  /\ LET t == Head(up[w]).who
         v == Head(up[w]).val
     IN /\ awaiting' = [awaiting EXCEPT ![t] = NoWorker]
        /\ \/ /\ v = NoVal
              /\ pc' = [pc EXCEPT ![t] = "awaitRelease"]
              /\ UNCHANGED <<borrowed, down>>
           \/ /\ v # NoVal /\ t \in orphans
              /\ pc' = [pc EXCEPT ![t] = "failed"]
              /\ down' = Post(down, w, Msg("unhold", t, NoVal))
              /\ UNCHANGED borrowed
           \/ /\ v # NoVal /\ t \notin orphans
              /\ borrowed' = [borrowed EXCEPT ![t] = w]
              /\ down' = Post(down, at[t], Msg("grant", t, v))
              /\ UNCHANGED pc
  /\ UNCHANGED <<storage, lease, mainChain, workerVars, at, ref, copy, base, granted,
                 orphans, handedBack, lost, behind, visitVars, ghostVars>>

\* A borrower's changes, passed on to the holder if it is still there.
PatchHeld(w) ==
  /\ UpIs(w, "patch")
  /\ TakeUp(w)
  /\ LET t == Head(up[w]).who
     IN \/ /\ borrowed[t] \in Workers
           /\ down' = Post(down, borrowed[t], Head(up[w]))
           /\ awaiting' = [awaiting EXCEPT ![t] = borrowed[t]]
        \/ /\ borrowed[t] \notin Workers
           /\ down' = Post(down, w, Msg("patched", t, NoVal))
           /\ UNCHANGED awaiting
  /\ UNCHANGED <<storage, mainVars, workerVars, pc, at, ref, copy, base, granted, orphans,
                 handedBack, lost, behind, visitVars, ghostVars>>

PatchAnswered(w) ==
  /\ UpIs(w, "patched")
  /\ TakeUp(w)
  /\ LET t == Head(up[w]).who
     IN /\ awaiting' = [awaiting EXCEPT ![t] = IF @ = w THEN NoWorker ELSE @]
        /\ down' = IF pc[t] = "patching" THEN Post(down, at[t], Head(up[w])) ELSE down
  /\ UNCHANGED <<storage, mainVars, workerVars, pc, at, ref, copy, base, granted, orphans,
                 handedBack, lost, behind, visitVars, ghostVars>>

\* The read of a worker's transaction: from the holder elsewhere, or from storage.
AccountAsked(w) ==
  /\ UpIs(w, "account")
  /\ TakeUp(w)
  /\ LET t == Head(up[w]).who
     IN \/ /\ OwnerOf \in {NoWorker, w}
           /\ down' = Post(down, w, Msg("live", t, NoVal))
           /\ UNCHANGED awaiting
        \/ /\ OwnerOf \notin {NoWorker, w}
           /\ down' = Post(down, OwnerOf, Msg("account", t, NoVal))
           /\ awaiting' = [awaiting EXCEPT ![t] = OwnerOf]
  /\ UNCHANGED <<storage, mainVars, workerVars, pc, at, ref, copy, base, granted, orphans,
                 handedBack, lost, behind, visitVars, ghostVars>>

\* returnLock: the town lock passes to the next in the chain, a hold is given up.
LockReturned(w) ==
  /\ UpIs(w, "unlock")
  /\ TakeUp(w)
  /\ LET t == Head(up[w]).who
     IN /\ borrowed' = [borrowed EXCEPT ![t] = NoWorker]
        /\ mainChain' = IF borrowed[t] = Main THEN Rest(mainChain) ELSE mainChain
        /\ down' = IF borrowed[t] \in Workers
                    THEN Post(down, borrowed[t], Msg("unhold", t, NoVal))
                    ELSE down
  /\ UNCHANGED <<storage, lease, workerVars, txnVars, visitVars, ghostVars>>

MainReceives(w) ==
  \/ RpcRetry(w) \/ AccountAnswered(w) \/ LeaseAsked(w) \/ LeaseReleased(w) \/ LockAsked(w)
  \/ HoldAnswered(w) \/ PatchHeld(w) \/ PatchAnswered(w) \/ AccountAsked(w) \/ LockReturned(w)

-----------------------------------------------------------------------------
(* A worker: transactions forwarded to it, or reaching for this account    *)
(* from an RPC of another.                                                 *)

\* An RPC of some other account in a dungeon here needs this account too.
SecondAccount(t, w) ==
  /\ pc[t] = "new" /\ t \in Second /\ alive[w]
  /\ at' = [at EXCEPT ![t] = w]
  /\ pc' = [pc EXCEPT ![t] = "arrived"]
  /\ UNCHANGED <<storage, mainVars, workerVars, up, down, awaiting, ref, copy, base, granted,
                 orphans, handedBack, lost, behind, visitVars, ghostVars>>

RpcForwarded(w) ==
  /\ DownIs(w, "rpcOwn") \/ DownIs(w, "rpcOther")
  /\ TakeDown(w)
  /\ LET t == Head(down[w]).who
     IN /\ at' = [at EXCEPT ![t] = w]
        /\ awaiting' = [awaiting EXCEPT ![t] = NoWorker]
        /\ pc' = [pc EXCEPT ![t] = IF DownIs(w, "rpcOwn") THEN "arrivedOwn" ELSE "arrived"]
  /\ UNCHANGED <<storage, mainVars, workerVars, up, ref, copy, base, granted,
                 orphans, handedBack, lost, behind, visitVars, ghostVars>>

\* Once no lease is on its way back: the lock is this worker's if the account is, and
\* borrowed otherwise; a call sent for its own account is sent home instead.
WorkerLock(t) ==
  LET w == at[t]
  IN /\ pc[t] \in {"arrived", "arrivedOwn"} /\ ~releasing[w]
     /\ \/ /\ Held(w)
           /\ chain' = Post(chain, w, t)
           /\ pc' = [pc EXCEPT ![t] = "wqueued"]
           /\ UNCHANGED <<up, at, awaiting>>
        \/ /\ ~Held(w) /\ pc[t] = "arrivedOwn"
           /\ up' = Post(up, w, Msg("retry", t, NoVal))
           /\ at' = [at EXCEPT ![t] = Main]
           /\ awaiting' = [awaiting EXCEPT ![t] = w]
           /\ pc' = [pc EXCEPT ![t] = "forwarded"]
           /\ UNCHANGED chain
        \/ /\ ~Held(w) /\ pc[t] = "arrived"
           /\ up' = Post(up, w, Msg("lock", t, NoVal))
           /\ pc' = [pc EXCEPT ![t] = "locking"]
           /\ UNCHANGED <<chain, at, awaiting>>
     /\ UNCHANGED <<storage, mainVars, alive, live, releasing, writes, acquiring, holds, asked,
                    down, ref, copy, base, granted, orphans, handedBack, lost, behind, visitVars,
                    ghostVars>>

\* The borrowed lock, with a working copy if the account is in a dungeon elsewhere.
LockGranted(w) ==
  /\ DownIs(w, "grant")
  /\ TakeDown(w)
  /\ LET t == Head(down[w]).who
     IN /\ granted' = granted \cup {t}
        /\ base' = [base EXCEPT ![t] = Head(down[w]).val]
        /\ chain' = Post(chain, w, t)
        /\ pc' = [pc EXCEPT ![t] = "wqueued"]
  /\ UNCHANGED <<storage, mainVars, alive, live, releasing, writes, acquiring, holds, asked, up,
                 at, awaiting, ref, copy, orphans, handedBack, lost, behind, visitVars,
                 ghostVars>>

LockRefused(w) ==
  /\ DownIs(w, "refused")
  /\ TakeDown(w)
  /\ pc' = [pc EXCEPT ![Head(down[w]).who] = "failed"]
  /\ UNCHANGED <<storage, mainVars, workerVars, up, at, awaiting, ref, copy, base, granted,
                 orphans, handedBack, lost, behind, visitVars, ghostVars>>

\* loadAccount: the live object, else the working copy, else what the main thread knows.
WorkerLoad(t) ==
  LET w == at[t]
  IN /\ pc[t] = "wqueued" /\ IsHead(t, chain[w])
     /\ \/ /\ Held(w)
           /\ ref' = [ref EXCEPT ![t] = "live"]
           /\ pc' = [pc EXCEPT ![t] = "wloaded"]
           /\ UNCHANGED <<copy, up>>
        \/ /\ ~Held(w) /\ base[t] # NoVal
           /\ ref' = [ref EXCEPT ![t] = "remote"]
           /\ copy' = [copy EXCEPT ![t] = base[t]]
           /\ pc' = [pc EXCEPT ![t] = "wloaded"]
           /\ UNCHANGED up
        \/ /\ ~Held(w) /\ base[t] = NoVal
           /\ up' = Post(up, w, Msg("account", t, NoVal))
           /\ pc' = [pc EXCEPT ![t] = "wasking"]
           /\ UNCHANGED <<ref, copy>>
     /\ UNCHANGED <<storage, mainVars, workerVars, down, at, awaiting, base, granted, orphans,
                    handedBack, lost, behind, visitVars, ghostVars>>

WorkerRead(w) ==
  /\ DownIs(w, "live")
  /\ TakeDown(w)
  /\ LET t == Head(down[w]).who
         v == Head(down[w]).val
     IN /\ copy' = [copy EXCEPT ![t] = IF v = NoVal THEN storage ELSE v]
        /\ ref' = [ref EXCEPT ![t] = IF v = NoVal THEN "own" ELSE "read"]
        /\ pc' = [pc EXCEPT ![t] = "wloaded"]
        /\ stale' = (stale \/ (v = NoVal /\ releasing[w]))
  /\ UNCHANGED <<storage, mainVars, workerVars, up, at, awaiting, base, granted, orphans,
                 handedBack, lost, behind, visitVars, crashes, acked>>

\* The change and its save.  A copy read without its lock may not be written from here,
\* and only friend lists may be changed on a working copy; both end the transaction.
WorkerSave(t) ==
  LET w == at[t]
  IN /\ pc[t] = "wloaded"
     /\ \/ /\ ref[t] = "live"
           /\ live' = [live EXCEPT ![w] = @ \cup {t}]
           /\ writes' = Post(writes, w, t)
           /\ pc' = [pc EXCEPT ![t] = "writing"]
           /\ UNCHANGED <<copy, up>>
        \/ /\ ref[t] \in {"own", "ended"}
           /\ copy' = [copy EXCEPT ![t] = @ \cup {t}]
           /\ writes' = Post(writes, w, t)
           /\ pc' = [pc EXCEPT ![t] = "writing"]
           /\ UNCHANGED <<live, up>>
        \/ /\ ref[t] = "remote" /\ t \in Social
           /\ copy' = [copy EXCEPT ![t] = @ \cup {t}]
           /\ up' = Post(up, w, Msg("patch", t, copy[t] \cup {t}))
           /\ pc' = [pc EXCEPT ![t] = "patching"]
           /\ UNCHANGED <<live, writes>>
        \/ /\ ref[t] = "read" \/ (ref[t] = "remote" /\ t \notin Social)
           /\ pc' = [pc EXCEPT ![t] = "refused"]
           /\ UNCHANGED <<live, writes, copy, up>>
     /\ stale' = (stale \/ ref[t] = "ended" \/ (ref[t] = "own" /\ t \notin granted))
     /\ UNCHANGED <<storage, mainVars, alive, releasing, acquiring, chain, holds, asked, down,
                    at, awaiting, ref, base, granted, orphans, handedBack, lost, behind,
                    visitVars, crashes, acked>>

\* The end of a transaction on worker w: its turn is over, a borrowed lock is given back.
Unlocking(t, w) ==
  /\ chain' = [chain EXCEPT ![w] = Rest(@)]
  /\ granted' = granted \ {t}
  /\ base' = [base EXCEPT ![t] = NoVal]

\* Mutant: the lock is given back when the work succeeds, not in a `finally`.
TransactionEndsKeepingLock(t) ==
  /\ pc[t] \in {"settled", "refused"}
  /\ pc' = [pc EXCEPT ![t] = IF @ = "settled" THEN "done" ELSE "failed"]
  /\ Unlocking(t, at[t])
  /\ up' = IF t \in granted /\ pc[t] = "settled"
            THEN Post(up, at[t], Msg("unlock", t, NoVal))
            ELSE up
  /\ UNCHANGED <<storage, mainVars, alive, live, releasing, writes, acquiring, holds, asked, down,
                 at, awaiting, ref, copy, orphans, handedBack, lost, behind, visitVars, ghostVars>>

TransactionEnds(t) ==
  /\ pc[t] \in {"settled", "refused"}
  /\ pc' = [pc EXCEPT ![t] = IF @ = "settled" THEN "done" ELSE "failed"]
  /\ Unlocking(t, at[t])
  /\ up' = IF t \in granted THEN Post(up, at[t], Msg("unlock", t, NoVal)) ELSE up
  /\ UNCHANGED <<storage, mainVars, alive, live, releasing, writes, acquiring, holds, asked,
                 down, at, awaiting, ref, copy, orphans, handedBack, lost, behind, visitVars,
                 ghostVars>>

PatchSettled(w) ==
  /\ DownIs(w, "patched")
  /\ TakeDown(w)
  /\ LET t == Head(down[w]).who
     IN pc' = [pc EXCEPT ![t] = IF Head(down[w]).val = NoVal THEN "refused" ELSE "settled"]
  /\ UNCHANGED <<storage, mainVars, workerVars, up, at, awaiting, ref, copy, base, granted,
                 orphans, handedBack, lost, behind, visitVars, ghostVars>>

-----------------------------------------------------------------------------
(* A worker: its live object, wanted from elsewhere.                       *)

\* A hold or a read arrives; both wait for a lease on its way back, a read also for the
\* one on its way here.
CallFromElsewhere(w) ==
  /\ DownIs(w, "hold") \/ DownIs(w, "account")
  /\ TakeDown(w)
  /\ LET t == Head(down[w]).who
     IN /\ asked' = [asked EXCEPT ![w] = @ \cup {t}]
        /\ behind' = [behind EXCEPT ![t] = IF DownIs(w, "account") THEN acquiring[w] ELSE NoWorker]
  /\ UNCHANGED <<storage, mainVars, alive, live, releasing, writes, acquiring, chain, holds, up,
                 pc, at, awaiting, ref, copy, base, granted, orphans, handedBack, lost, visitVars,
                 ghostVars>>

LiveForElsewhere(t, w) ==
  /\ t \in asked[w] /\ pc[t] # "holding"
  /\ ~Asking(behind[t]) /\ ~releasing[w]
  /\ asked' = [asked EXCEPT ![w] = @ \ {t}]
  /\ behind' = [behind EXCEPT ![t] = NoWorker]
  /\ up' = Post(up, w, Msg("live", t, IF Held(w) THEN live[w] ELSE NoVal))
  /\ UNCHANGED <<storage, mainVars, alive, live, releasing, writes, acquiring, chain, holds, down,
                 pc, at, awaiting, ref, copy, base, granted, orphans, handedBack, lost, visitVars,
                 ghostVars>>

HoldForElsewhere(t, w) ==
  /\ t \in asked[w] /\ pc[t] = "holding"
  /\ ~releasing[w]
  /\ asked' = [asked EXCEPT ![w] = @ \ {t}]
  /\ \/ /\ Held(w)
        /\ chain' = Post(chain, w, t)
        /\ UNCHANGED up
     \/ /\ ~Held(w)
        /\ up' = Post(up, w, Msg("held", t, NoVal))
        /\ UNCHANGED chain
  /\ UNCHANGED <<storage, mainVars, alive, live, releasing, writes, acquiring, holds, down,
                 txnVars, visitVars, ghostVars>>

\* Its turn in this worker's chain: the lock is kept until it is given up, if the
\* account is still here.
HoldTurn(t, w) ==
  /\ IsHead(t, chain[w]) /\ pc[t] = "holding" /\ awaiting[t] = w /\ t \notin holds[w]
  /\ \/ /\ Held(w)
        /\ holds' = [holds EXCEPT ![w] = @ \cup {t}]
        /\ up' = Post(up, w, Msg("held", t, live[w]))
        /\ UNCHANGED chain
     \/ /\ ~Held(w)
        /\ chain' = [chain EXCEPT ![w] = Rest(@)]
        /\ up' = Post(up, w, Msg("held", t, NoVal))
        /\ UNCHANGED holds
  /\ UNCHANGED <<storage, mainVars, alive, live, releasing, writes, acquiring, asked, down,
                 txnVars, visitVars, ghostVars>>

\* Applied only to friend lists that have not moved since the copy was made, and saved.
PatchForElsewhere(w) ==
  /\ DownIs(w, "patch")
  /\ TakeDown(w)
  /\ LET t == Head(down[w]).who
         v == Head(down[w]).val
     IN \/ /\ t \in holds[w] /\ Held(w) /\ live[w] \cap Social = base[t] \cap Social
           /\ live' = [live EXCEPT ![w] = (@ \ Social) \cup (v \cap Social)]
           /\ writes' = Post(writes, w, t)
           /\ UNCHANGED up
        \/ /\ ~(t \in holds[w] /\ Held(w) /\ live[w] \cap Social = base[t] \cap Social)
           /\ up' = Post(up, w, Msg("patched", t, NoVal))
           /\ UNCHANGED <<live, writes>>
  /\ UNCHANGED <<storage, mainVars, alive, releasing, acquiring, chain, holds, asked, txnVars,
                 visitVars, ghostVars>>

ReleaseForElsewhere(w) ==
  /\ DownIs(w, "unhold")
  /\ TakeDown(w)
  /\ LET t == Head(down[w]).who
     IN \/ /\ t \in holds[w]
           /\ holds' = [holds EXCEPT ![w] = @ \ {t}]
           /\ chain' = [chain EXCEPT ![w] = Rest(@)]
        \/ /\ t \notin holds[w]
           /\ UNCHANGED <<holds, chain>>
  /\ UNCHANGED <<storage, mainVars, alive, live, releasing, writes, acquiring, asked, up, txnVars,
                 visitVars, ghostVars>>

-----------------------------------------------------------------------------
(* A worker: its dungeons.                                                 *)

\* A member arrives with the account, and acquireLease begins.
Enter(e, w) ==
  /\ visit[e] = "new" /\ alive[w]
  /\ visit' = [visit EXCEPT ![e] = "acquiring"]
  /\ vat' = [vat EXCEPT ![e] = w]
  /\ UNCHANGED <<storage, mainVars, workerVars, up, down, txnVars, ghostVars>>

\* Once no lease is on its way back: the object here, or the main thread is asked.
AcquireLease(e) ==
  LET w == vat[e]
  IN /\ visit[e] = "acquiring" /\ ~releasing[w]
     /\ \/ /\ Held(w)
           /\ visit' = [visit EXCEPT ![e] = "in"]
           /\ UNCHANGED <<up, acquiring>>
        \/ /\ ~Held(w)
           /\ visit' = [visit EXCEPT ![e] = "asked"]
           /\ up' = Post(up, w, Msg("lease", e, NoVal))
           /\ acquiring' = [acquiring EXCEPT ![w] = e]
     /\ UNCHANGED <<storage, mainVars, alive, live, releasing, writes, chain, holds, asked, down,
                    txnVars, vat, ghostVars>>

\* Its answer, of whatever kind, is here.
Acquired(e, w) == acquiring' = [acquiring EXCEPT ![w] = IF @ = e THEN NoWorker ELSE @]

\* Mutant: the answer is taken as it comes, null included.
LeaseGrantedUnchecked(w) ==
  /\ DownIs(w, "leased")
  /\ TakeDown(w)
  /\ visit' = [visit EXCEPT ![Head(down[w]).who] = "in"]
  /\ live' = [live EXCEPT ![w] = Head(down[w]).val]
  /\ Acquired(Head(down[w]).who, w)
  /\ UNCHANGED <<storage, mainVars, alive, releasing, writes, chain, holds, asked, up, txnVars,
                 vat, ghostVars>>

\* Another member may have taken it meanwhile: its object is the one.  Told the lease is
\* here when nothing here holds the account, the entry fails.
LeaseGranted(w) ==
  /\ DownIs(w, "leased")
  /\ TakeDown(w)
  /\ LET e == Head(down[w]).who
         v == Head(down[w]).val
     IN \/ /\ Held(w) \/ v # NoVal
           /\ visit' = [visit EXCEPT ![e] = "in"]
           /\ live' = IF Held(w) THEN live ELSE [live EXCEPT ![w] = v]
        \/ /\ ~Held(w) /\ v = NoVal
           /\ visit' = [visit EXCEPT ![e] = "out"]
           /\ UNCHANGED live
        /\ Acquired(e, w)
  /\ UNCHANGED <<storage, mainVars, alive, releasing, writes, chain, holds, asked, up, txnVars,
                 vat, ghostVars>>

LeaseRefused(w) ==
  /\ DownIs(w, "leaseFailed")
  /\ TakeDown(w)
  /\ visit' = [visit EXCEPT ![Head(down[w]).who] = "out"]
  /\ Acquired(Head(down[w]).who, w)
  /\ UNCHANGED <<storage, mainVars, alive, live, releasing, writes, chain, holds, asked, up,
                 txnVars, vat, ghostVars>>

\* The run rewards its player and queues the save.
Reward(e) ==
  LET w == vat[e]
  IN /\ visit[e] = "in" /\ e \notin live[w]
     /\ live' = [live EXCEPT ![w] = @ \cup {e}]
     /\ writes' = Post(writes, w, e)
     /\ UNCHANGED <<storage, mainVars, alive, releasing, acquiring, chain, holds, asked, up,
                    down, txnVars, visitVars, ghostVars>>

\* The member leaves; with the last of them, the lease starts back.
ReleaseLease(e) ==
  LET w == vat[e]
      last == \A f \in Visits \ {e} : ~(visit[f] = "in" /\ vat[f] = w)
  IN /\ visit[e] = "in"
     /\ visit' = [visit EXCEPT ![e] = "out"]
     /\ releasing' = [releasing EXCEPT ![w] = @ \/ last]
     /\ UNCHANGED <<storage, mainVars, alive, live, writes, acquiring, chain, holds, asked, up,
                    down, txnVars, vat, ghostVars>>

\* Transactions of worker w working on its live object
Working(w) == {t \in Txns : at[t] = w /\ ref[t] = "live" /\ pc[t] \in {"wloaded", "writing"}}

\* Mutant: the lease goes back without waiting for the saves.
HandBackUnwritten(w) ==
  /\ releasing[w]
  /\ releasing' = [releasing EXCEPT ![w] = FALSE]
  /\ up' = IF Held(w) THEN up ELSE Post(up, w, Msg("release", Main, NoVal))
  /\ UNCHANGED <<storage, mainVars, alive, live, writes, acquiring, chain, holds, asked, down,
                 txnVars, visitVars, ghostVars>>

\* Every save queued here is written; unless it is held again, the lease goes back.  To a
\* transaction that has the object it is from now on an object of its own.
HandBack(w) ==
  /\ releasing[w] /\ writes[w] = <<>>
  /\ releasing' = [releasing EXCEPT ![w] = FALSE]
  /\ \/ /\ ~Held(w)
        /\ up' = Post(up, w, Msg("release", Main, NoVal))
        /\ ref' = [t \in Txns |-> IF t \in Working(w) THEN "ended" ELSE ref[t]]
        /\ copy' = [t \in Txns |-> IF t \in Working(w) THEN live[w] ELSE copy[t]]
     \/ /\ Held(w)
        /\ UNCHANGED <<up, ref, copy>>
  /\ UNCHANGED <<storage, mainVars, alive, live, writes, acquiring, chain, holds, asked, down,
                 pc, at, awaiting, base, granted, orphans, handedBack, lost, behind, visitVars,
                 ghostVars>>

\* The object the save x of worker w writes
Object(x, w) == IF x \in Txns /\ at[x] = w /\ ref[x] \in {"own", "ended"} THEN copy[x] ELSE live[w]

\* The next write of this worker reaches storage: the object as it then stands.
WriteLands(w) ==
  /\ writes[w] # <<>>
  /\ writes' = [writes EXCEPT ![w] = Tail(@)]
  /\ LET x == Head(writes[w])
     IN /\ storage' = Object(x, w)
        /\ acked' = acked \cup {x}
        /\ pc' = IF x \in Txns /\ at[x] = w THEN [pc EXCEPT ![x] = "settled"] ELSE pc
        /\ up' = IF x \in Txns /\ at[x] # w THEN Post(up, w, Msg("patched", x, {})) ELSE up
  /\ UNCHANGED <<mainVars, alive, live, releasing, acquiring, chain, holds, asked, down, at,
                 awaiting, ref, copy, base, granted, orphans, handedBack, lost, behind,
                 visitVars, crashes, stale>>

WorkerReceives(w) ==
  \/ RpcForwarded(w) \/ LockGranted(w) \/ LockRefused(w) \/ WorkerRead(w) \/ PatchSettled(w)
  \/ CallFromElsewhere(w) \/ PatchForElsewhere(w) \/ ReleaseForElsewhere(w)
  \/ LeaseGranted(w) \/ LeaseRefused(w)

-----------------------------------------------------------------------------
(* A worker dies.                                                          *)

\* Its thread is gone with all it had in memory.  recover() ends its lease and drops the
\* holds it kept for others; the answers it owed and the locks it had borrowed follow in
\* CallFails and LostLockReturned.  A lock still being arranged for it is seen through first.
WorkerDies(w) ==
  LET its      == {t \in Txns \ orphans : at[t] = w /\ pc[t] \notin {"new", "done", "failed"}}
      arranged == {t \in its : \/ pc[t] \in {"awaitRelease", "townQueued"} /\ borrowed[t] = NoWorker
                               \/ pc[t] = "holding" /\ awaiting[t] # NoWorker}
  IN /\ alive[w] /\ crashes < MaxCrashes
     /\ crashes' = crashes + 1
     /\ alive' = [alive EXCEPT ![w] = FALSE]
     /\ live' = [live EXCEPT ![w] = {}]
     /\ releasing' = [releasing EXCEPT ![w] = FALSE]
     /\ writes' = [writes EXCEPT ![w] = <<>>]
     /\ chain' = [chain EXCEPT ![w] = <<>>]
     /\ holds' = [holds EXCEPT ![w] = {}]
     /\ asked' = [asked EXCEPT ![w] = {}]
     /\ acquiring' = [acquiring EXCEPT ![w] = NoWorker]
     /\ behind' = [t \in Txns |-> IF t \in asked[w] THEN NoWorker ELSE behind[t]]
     /\ up' = [up EXCEPT ![w] = <<>>]
     /\ down' = [down EXCEPT ![w] = <<>>]
     /\ lease' = IF lease = w THEN NoWorker ELSE lease
     /\ handedBack' =
          handedBack \cup {t \in Txns : lease = w /\ pc[t] \in {"holding", "awaitRelease"}}
     /\ visit' = [e \in Visits |->
                    IF vat[e] = w /\ visit[e] # "new" THEN "out"
                    ELSE IF lease = w /\ visit[e] = "waiting" THEN "woken" ELSE visit[e]]
     /\ orphans' = orphans \cup arranged
     /\ pc' = [t \in Txns |-> IF t \in its \ arranged THEN "failed" ELSE pc[t]]
     /\ lost' = lost \cup {t \in Txns \ orphans : at[t] = w /\ borrowed[t] \notin {w, NoWorker}}
     /\ awaiting' = [t \in Txns |-> IF t \in its \ arranged THEN NoWorker
                                     ELSE IF awaiting[t] = w THEN Main ELSE awaiting[t]]
     /\ borrowed' = [t \in Txns |-> IF borrowed[t] = w THEN NoWorker ELSE borrowed[t]]
     /\ UNCHANGED <<storage, mainChain, at, ref, copy, base, granted, vat, acked, stale>>

\* failAll: a call the dead worker will not answer.  The read of an account falls back to
\* storage, a lock or a patch is refused, and a forwarded RPC fails.
CallFails(t) ==
  /\ awaiting[t] = Main
  /\ awaiting' = [awaiting EXCEPT ![t] = NoWorker]
  /\ \/ /\ pc[t] = "asking"
        /\ copy' = [copy EXCEPT ![t] = storage]
        /\ ref' = [ref EXCEPT ![t] = "own"]
        /\ pc' = [pc EXCEPT ![t] = "loaded"]
        /\ UNCHANGED down
     \/ /\ pc[t] = "wasking"
        /\ down' = Post(down, at[t], Msg("live", t, NoVal))
        /\ UNCHANGED <<copy, ref, pc>>
     \/ /\ pc[t] = "patching"
        /\ down' = Post(down, at[t], Msg("patched", t, NoVal))
        /\ UNCHANGED <<copy, ref, pc>>
     \/ /\ pc[t] = "holding" /\ t \notin orphans
        /\ down' = Post(down, at[t], Msg("refused", t, NoVal))
        /\ pc' = [pc EXCEPT ![t] = "locking"]
        /\ UNCHANGED <<copy, ref>>
     \/ /\ pc[t] = "forwarded" \/ (pc[t] = "holding" /\ t \in orphans)
        /\ pc' = [pc EXCEPT ![t] = "failed"]
        /\ UNCHANGED <<copy, ref, down>>
  /\ UNCHANGED <<storage, mainVars, workerVars, up, at, base, granted, orphans, handedBack,
                 lost, behind, visitVars, ghostVars>>

\* A lock the dead worker had borrowed goes back.
LostLockReturned(t) ==
  /\ t \in lost
  /\ lost' = lost \ {t}
  /\ borrowed' = [borrowed EXCEPT ![t] = NoWorker]
  /\ mainChain' = IF borrowed[t] = Main THEN Rest(mainChain) ELSE mainChain
  /\ down' = IF borrowed[t] \in Workers
              THEN Post(down, borrowed[t], Msg("unhold", t, NoVal))
              ELSE down
  /\ UNCHANGED <<storage, lease, workerVars, up, pc, at, awaiting, ref, copy, base, granted,
                 orphans, behind, handedBack, visitVars, ghostVars>>

\* replace: a fresh thread in the dead one's slot.
WorkerReplaced(w) ==
  /\ ~alive[w]
  /\ alive' = [alive EXCEPT ![w] = TRUE]
  /\ UNCHANGED <<storage, mainVars, live, releasing, writes, acquiring, chain, holds, asked, up,
                 down, txnVars, visitVars, ghostVars>>

-----------------------------------------------------------------------------

MainStep ==
  \/ \E t \in Txns : MainLoad(t) \/ MainSave(t) \/ BorrowAgain(t) \/ TownTurn(t)
                     \/ CallFails(t) \/ LostLockReturned(t)
  \/ \E e \in Visits : LeaseTurn(e) \/ LeaseAgain(e)
  \/ \E w \in Workers : MainReceives(w) \/ WorkerReplaced(w)

WorkerStep ==
  \/ \E t \in Txns : WorkerLock(t) \/ WorkerLoad(t) \/ WorkerSave(t) \/ TransactionEnds(t)
  \/ \E w \in Workers :
       \/ WorkerReceives(w) \/ HandBack(w) \/ WriteLands(w)
       \/ \E t \in Txns : LiveForElsewhere(t, w) \/ HoldForElsewhere(t, w) \/ HoldTurn(t, w)
  \/ \E e \in Visits : AcquireLease(e)

Players ==
  \/ \E t \in Txns : Rpc(t) \/ \E w \in Workers : SecondAccount(t, w)
  \/ \E e \in Visits : Reward(e) \/ ReleaseLease(e) \/ \E w \in Workers : Enter(e, w)

Next ==
  \/ MainStep \/ WorkerStep \/ Players
  \/ \E e \in Visits : LeaseTimeout(e)
  \/ \E w \in Workers : WorkerDies(w)

Spec == Init /\ [][Next]_vars

-----------------------------------------------------------------------------
(* Properties.                                                             *)

\* What the account is, or will be once its last write has landed
Account ==
  IF lease # NoWorker /\ Held(lease) THEN live[lease]
  ELSE IF lease # NoWorker /\ writes[lease] # <<>>
       THEN Object(writes[lease][Len(writes[lease])], lease)
       ELSE storage

\* Every update somebody was told is saved is in the account: nobody's save takes another's
\* away (rpc.js, "a transaction the player was promised quietly disappears").
NoLostUpdate == acked \subseteq Account

\* The same, for as long as no object has been saved whose hold had ended.
OnlyStaleObjectsLose == ~stale => NoLostUpdate

\* A lease recorded for a worker is in exactly one place: on its way to the worker, with the
\* object there, being handed back, or on its way back.  A worker without it has none of
\* these, so at most one thread has the live object, and no lease is left with nobody to
\* return it.
LeaseGrant(m) == m.op = "leased" /\ m.val # NoVal
Granting(w)   == \E i \in 1..Len(down[w]) : LeaseGrant(down[w][i])
Returning(w)  == \E i \in 1..Len(up[w]) : up[w][i].op = "release"
LeaseIsInOnePlace ==
  \A w \in Workers :
    /\ lease = w <=> Granting(w) \/ Held(w) \/ releasing[w] \/ Returning(w)
    /\ Granting(w) => ~Held(w) /\ ~releasing[w] /\ ~Returning(w)
    /\ Held(w) => ~releasing[w] /\ ~Returning(w)
    /\ releasing[w] => ~Returning(w)

\* What LeaseIsInOnePlace rests on: an entry's lease call gets one answer, which finds the
\* entry waiting for it on its worker; the object and the lease travel once.
LeaseAnswer(m) == m.op \in {"leased", "leaseFailed"}
EntriesHaveWorkers == \A e \in Visits : visit[e] # "new" => vat[e] \in Workers
AnswersAreAwaited ==
  \A w \in Workers : \A i \in 1..Len(down[w]) :
    LeaseAnswer(down[w][i]) => /\ vat[down[w][i].who] = w
                               /\ visit[down[w][i].who] = "answered"
OneAnswerEach ==
  \A w \in Workers : \A i, j \in 1..Len(down[w]) :
    LeaseAnswer(down[w][i]) /\ LeaseAnswer(down[w][j]) /\ down[w][i].who = down[w][j].who => i = j
GrantedOnce ==
  \A w \in Workers : \A i, j \in 1..Len(down[w]) :
    LeaseGrant(down[w][i]) /\ LeaseGrant(down[w][j]) => i = j
ReturnedOnce ==
  \A w \in Workers : \A i, j \in 1..Len(up[w]) :
    up[w][i].op = "release" /\ up[w][j].op = "release" => i = j
LeaseInv ==
  /\ LeaseIsInOnePlace
  /\ EntriesHaveWorkers /\ AnswersAreAwaited /\ OneAnswerEach
  /\ GrantedOnce /\ ReturnedOnce

\* When every thread has done what it can, no transaction is left waiting, no lock is
\* borrowed and nobody is queued for one: a lock is returned on every path.
Quiet == ~ENABLED (MainStep \/ WorkerStep)
EverythingReturned ==
  /\ \A t \in Txns : pc[t] \in {"new", "done", "failed"} /\ borrowed[t] = NoWorker
  /\ mainChain = <<>>
  /\ \A w \in Workers : chain[w] = <<>> /\ holds[w] = {}
NobodyWaitsForever == Quiet => EverythingReturned

\* The same, but for a read of the live object that waits for another entry's lease.
ReadWaitsForLease == \E w \in Workers : \E t \in asked[w] : Asking(behind[t])
OnlyReadsWaitForever == Quiet /\ ~ReadWaitsForLease => EverythingReturned

=============================================================================
