--------------------------- MODULE MCAccountLease ---------------------------
(* Bounds for AccountLease: two workers and two dungeon entries; an RPC of  *)
(* the account and a friend request that reaches it from another dungeon.   *)
(* Workers and entries are interchangeable.                                 *)
EXTENDS AccountLease, SequencesExt, TLC

CONSTANTS w1, w2, rpc, friend1, visit1, visit2

TwoWorkers  == {w1, w2}
TwoVisits   == {visit1, visit2}
RpcAndFriend == {rpc, friend1}
OneFriend   == {friend1}

Symmetry == Permutations(TwoWorkers) \cup Permutations(TwoVisits)

(* States are told apart by what can still be read (VIEW Seen): not by the  *)
(* object and the thread of a transaction that is over or works on none,    *)
(* the worker of an entry that has ended, the object of a worker where      *)
(* nobody holds it or has a write queued, the end of a lease nobody waits   *)
(* for.  Every action writes these before it reads them, and no property    *)
(* of the runs but the types and LeaseInv, which are proved, mentions them. *)
Mentioned(t) ==
  \/ borrowed[t] # NoWorker \/ awaiting[t] # NoWorker
  \/ \E w \in Workers : \/ t \in asked[w] \cup holds[w] \cup ToSet(writes[w]) \cup ToSet(chain[w])
                        \/ \E i \in DOMAIN up[w] : up[w][i].who = t
                        \/ \E i \in DOMAIN down[w] : down[w][i].who = t
Over(t) == pc[t] \in {"done", "failed"} /\ ~Mentioned(t)
Works(t) == pc[t] \in {"loaded", "wloaded", "writing"}
AtRest(w) == ~Held(w) /\ ~releasing[w] /\ writes[w] = <<>> /\ Working(w) = {}
Seen ==
  <<storage, mainVars, alive, releasing, writes, acquiring, chain, holds, asked, up, down,
    pc, awaiting, granted, orphans, lost, behind, visit, crashes, acked, stale,
    [w \in Workers |-> IF AtRest(w) THEN {} ELSE live[w]],
    [t \in Txns |-> IF Over(t) THEN <<>> ELSE <<at[t], base[t]>>],
    [t \in Txns |-> IF Works(t) THEN <<ref[t], IF ref[t] = "live" THEN {} ELSE copy[t]>> ELSE <<>>],
    {t \in handedBack : pc[t] \in {"holding", "awaitRelease"}},
    [e \in Visits |-> IF visit[e] = "out" THEN NoWorker ELSE vat[e]]>>
=============================================================================
