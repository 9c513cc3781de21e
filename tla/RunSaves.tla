------------------------------ MODULE RunSaves ------------------------------
(***************************************************************************)
(* The saves of one account's dungeon runs, on the thread that holds its   *)
(* live object: asked for by the members playing it (rewards.js,           *)
(* settle-account.js), written one at a time (accounts.js), followed until *)
(* they have landed and tried again when storage refuses them              *)
(* (run-saves.js), with the account let go only after that (floor-exit.js).*)
(*                                                                         *)
(* A member is one connection's stay in one dungeon.  An account has two   *)
(* when a door leads from one dungeon to the next while the first is still *)
(* being written down, or when a second login displaces the first.         *)
(*                                                                         *)
(* The content of the account is the number of changes made to it.  One    *)
(* action is one macrotask: what follows a settled write in microtasks     *)
(* belongs to the step that settles it.                                    *)
(***************************************************************************)
EXTENDS Naturals, Sequences

CONSTANTS Members,    \* stays in a dungeon, each made once
          Retry,      \* the write of the account's retry
          MaxChanges  \* a bound: rewards change the account up to here

ASSUME SavesAssumption == Retry \notin Members /\ MaxChanges \in Nat

VARIABLES
  member,    \* each member: not there yet, playing, gone but not let go, let go
  settled,   \* the members whose run is settled (accountSettled)
  queued,    \* each member's saves not yet written, chained on rewardSavePromise
  live,      \* the content of the live object
  stored,    \* the content of the stored account
  writes,    \* the account's write chain; the first is being written
  snap,      \* what the first will write
  healthy,   \* whether storage takes writes
  retry,     \* the entry in `retrying`: none, in its pause, or its save on its way
  written,   \* that entry's `written`
  closing,   \* set at shutdown
  gaveUp,    \* whether a save was given up on at shutdown
  overtaken  \* whether a failed save was handed to an entry that was `written`

memberVars == <<member, settled, queued>>
retryVars  == <<retry, written, gaveUp, overtaken>>
vars == <<memberVars, live, stored, writes, snap, healthy, retryVars, closing>>

\* One type invariant: what each variable holds.
TypeOK ==
  /\ member \in [Members -> {"new", "in", "leaving", "gone"}]
  /\ settled \subseteq Members
  /\ queued \in [Members -> Nat]
  /\ {live, stored, snap} \subseteq Nat
  /\ writes \in Seq(Members \cup {Retry})
  /\ retry \in {"none", "waiting", "trying"}
  /\ {healthy, written, closing, gaveUp, overtaken} \subseteq BOOLEAN

Init ==
  /\ member = [m \in Members |-> "new"] /\ settled = {}
  /\ queued = [m \in Members |-> 0]
  /\ live = 0 /\ stored = 0 /\ snap = 0
  /\ writes = <<>>
  /\ healthy = TRUE
  /\ retry = "none" /\ written = FALSE
  /\ closing = FALSE /\ gaveUp = FALSE /\ overtaken = FALSE

\* heldAccount: somebody is playing the account, or it is still being written down
Held == \E m \in Members : member[m] \in {"in", "leaving"}
\* hasRunSaves, of these saves and this entry
InFlight(q, r) == r # "none" \/ \E m \in Members : q[m] > 0
\* whenRunSaved: those who have left let go as soon as nothing is on its way
LetGo(mem, q, r) ==
  [m \in Members |-> IF mem[m] = "leaving" /\ ~InFlight(q, r) THEN "gone" ELSE mem[m]]

\* serialise: at the end of the write chain; what is written is read when its turn comes
Chained(who, content) ==
  /\ writes' = Append(writes, who)
  /\ snap' = IF writes = <<>> THEN content ELSE snap
\* Mutant of NextTurn: what the next one writes was read when the chain was idle
NextTurnStale(more) == writes' = Tail(writes) \o more /\ snap' = snap
\* The first of the chain is over, and those in `more` follow the others.  Who is in the
\* chain already reads the object first
NextTurn(more) ==
  /\ writes' = Tail(writes) \o more
  /\ snap' = IF Tail(writes) = <<>> THEN live' ELSE live

-----------------------------------------------------------------------------
(* Members.                                                                *)

\* acquireAccount: the live object, or storage.  requestEntry refuses while a save is
\* failing; a door does not
Enters(m) ==
  /\ member[m] = "new" /\ ~closing
  /\ member' = [member EXCEPT ![m] = "in"]
  /\ live' = IF Held THEN live ELSE stored
  /\ UNCHANGED <<settled, queued, stored, writes, snap, healthy, retryVars, closing>>

\* Mutant of SaveQueued: nobody counts it
SaveQueuedUncounted(m) ==
  /\ UNCHANGED queued
  /\ IF queued[m] = 0 THEN Chained(m, live') ELSE UNCHANGED <<writes, snap>>
\* A save behind the member's others: the first of them goes into the write chain
SaveQueued(m) ==
  /\ queued' = [queued EXCEPT ![m] = @ + 1]
  /\ IF queued[m] = 0 THEN Chained(m, live') ELSE UNCHANGED <<writes, snap>>

\* queueAccountSave, of a reward: the object has changed already
Saves(m) ==
  /\ member[m] = "in" /\ m \notin settled
  /\ live < MaxChanges /\ live' = live + 1
  /\ SaveQueued(m)
  /\ UNCHANGED <<member, settled, stored, healthy, retryVars, closing>>

\* settleDungeonAccount, once: the carry rule changes the object when the member's other
\* saves are over, and the result is saved
Settles(m) ==
  /\ settled' = settled \cup {m}
  /\ IF m \in settled THEN UNCHANGED <<live, queued, writes, snap>>
     ELSE /\ live' = IF queued[m] = 0 THEN live + 1 ELSE live
          /\ SaveQueued(m)

\* The report screen
Reports(m) ==
  /\ member[m] = "in" /\ m \notin settled
  /\ Settles(m)
  /\ UNCHANGED <<member, stored, healthy, retryVars, closing>>

\* leaveDungeon: settled if it is not, and the account released once it is written
Leaves(m) ==
  /\ member[m] = "in"
  /\ Settles(m)
  /\ member' = LetGo([member EXCEPT ![m] = "leaving"], queued', retry)
  /\ UNCHANGED <<stored, healthy, retryVars, closing>>

-----------------------------------------------------------------------------
(* Writes, and what follows them.                                          *)

\* What is stored once the write at the head has ended: a failure may still have renamed
Lands == stored' \in IF healthy THEN {snap} ELSE {stored, snap}

\* A save of a member is over, written or not: its next has its turn, the settlement last
NextOf(m) == IF queued[m] > 1 THEN <<m>> ELSE <<>>
SaveEnds(m) ==
  /\ queued' = [queued EXCEPT ![m] = @ - 1]
  /\ live' = IF queued[m] = 2 /\ m \in settled THEN live + 1 ELSE live

\* A member's save has been written: `written` ends a retry that waits, and tells one
\* under way
SaveLands(m) ==
  /\ writes # <<>> /\ Head(writes) = m /\ healthy
  /\ Lands
  /\ SaveEnds(m)
  /\ NextTurn(NextOf(m))
  /\ retry' = IF retry = "waiting" THEN "none" ELSE retry
  /\ written' = (retry = "trying")
  /\ member' = LetGo(member, queued', retry')
  /\ UNCHANGED <<settled, healthy, closing, gaveUp, overtaken>>

\* Mutant of SaveFails: not followed
SaveFailsUnfollowed(m) ==
  /\ writes # <<>> /\ Head(writes) = m /\ ~healthy
  /\ Lands
  /\ SaveEnds(m)
  /\ NextTurn(NextOf(m))
  /\ member' = LetGo(member, queued', retry)
  /\ UNCHANGED <<settled, healthy, closing, retryVars>>
\* A member's save has failed: a retry begins, at once when the server is stopping; one
\* that is there takes this save for its own
SaveFails(m) ==
  /\ writes # <<>> /\ Head(writes) = m /\ ~healthy
  /\ Lands
  /\ SaveEnds(m)
  /\ LET begins == retry = "none" /\ closing
     IN /\ retry' = IF begins THEN "trying" ELSE IF retry = "none" THEN "waiting" ELSE retry
        /\ NextTurn((IF begins THEN <<Retry>> ELSE <<>>) \o NextOf(m))
  /\ overtaken' = (overtaken \/ (retry # "none" /\ written))
  /\ UNCHANGED <<member, settled, healthy, closing, written, gaveUp>>

\* The pause is over
RetryFires ==
  /\ retry = "waiting"
  /\ retry' = "trying"
  /\ Chained(Retry, live)
  /\ UNCHANGED <<memberVars, live, stored, healthy, closing, written, gaveUp, overtaken>>

\* Mutant of RetryEnds: a failed retry goes back to its pause although the server stops
RetryEndsForAnother ==
  /\ writes # <<>> /\ Head(writes) = Retry
  /\ Lands
  /\ UNCHANGED live
  /\ NextTurn(<<>>)
  /\ retry' = IF healthy \/ written THEN "none" ELSE "waiting"
  /\ written' = FALSE
  /\ member' = LetGo(member, queued, retry')
  /\ UNCHANGED <<settled, queued, healthy, closing, gaveUp, overtaken>>
\* Mutant of RetryEnds: those who have left are not told
RetryEndsUnheard ==
  /\ writes # <<>> /\ Head(writes) = Retry
  /\ Lands
  /\ UNCHANGED live
  /\ NextTurn(<<>>)
  /\ retry' = IF healthy \/ written \/ closing THEN "none" ELSE "waiting"
  /\ gaveUp' = (gaveUp \/ (~healthy /\ closing))
  /\ written' = FALSE
  /\ UNCHANGED <<memberVars, healthy, closing, overtaken>>
\* The retry has been written; or has failed, and is over all the same when a save has
\* landed meanwhile or the server is stopping
RetryEnds ==
  /\ writes # <<>> /\ Head(writes) = Retry
  /\ Lands
  /\ UNCHANGED live
  /\ NextTurn(<<>>)
  /\ retry' = IF healthy \/ written \/ closing THEN "none" ELSE "waiting"
  /\ gaveUp' = (gaveUp \/ (~healthy /\ closing))
  /\ written' = FALSE
  /\ member' = LetGo(member, queued, retry')
  /\ UNCHANGED <<settled, queued, healthy, closing, overtaken>>

\* finishRunSaves, once everybody has left
FinishRunSaves ==
  /\ ~closing /\ \A m \in Members : member[m] # "in"
  /\ closing' = TRUE
  /\ IF retry = "waiting" THEN retry' = "trying" /\ Chained(Retry, live)
     ELSE UNCHANGED <<retry, writes, snap>>
  /\ UNCHANGED <<memberVars, live, stored, healthy, written, gaveUp, overtaken>>

\* Storage goes away and comes back
StorageTurns ==
  /\ healthy' = ~healthy
  /\ UNCHANGED <<memberVars, live, stored, writes, snap, retryVars, closing>>

WriteEnds == RetryEnds \/ \E m \in Members : SaveLands(m) \/ SaveFails(m)
Next ==
  \/ \E m \in Members : Enters(m) \/ Saves(m) \/ Reports(m) \/ Leaves(m)
  \/ WriteEnds \/ RetryFires \/ FinishRunSaves \/ StorageTurns

Spec == Init /\ [][Next]_vars

\* Timers fire, and a write ends one way or the other
FairSpec == Spec /\ WF_vars(WriteEnds) /\ WF_vars(RetryFires)

-----------------------------------------------------------------------------
(* Properties.                                                             *)

\* The account stays the one in play until it is written (run-saves.js, "Now the account
\* stays the one in play until it is written"), unless the server stopped first.
KeptUntilWritten == ~Held => stored = live \/ gaveUp

\* It is let go unwritten in one way only: a save failed while a retry that an earlier
\* save had made needless was still on its way, and that retry failed too.
LetGoUnwrittenOnlyIfOvertaken == ~Held => stored = live \/ gaveUp \/ overtaken

\* While anything is on its way the write chain moves: whoever is to be written is in it
\* once, in turn, and a pause never outlasts the last save.
InChain(x) == \E i \in DOMAIN writes : writes[i] = x
EverySaveIsInTurn ==
  /\ \A m \in Members : queued[m] > 0 <=> InChain(m)
  /\ retry = "trying" <=> InChain(Retry)
  /\ \A i, j \in DOMAIN writes : writes[i] = writes[j] => i = j
  /\ written => retry = "trying"

\* Why nothing else is let go unwritten.  What the object holds is stored, or about to be;
\* a change made after the write at the head read the object has a member's save of its own
\* behind it; a retry is needless only when that is so without it; and nobody lets go of the
\* account before.
LostOrStored == overtaken \/ gaveUp \/ stored = live
SaveFollows == \E m \in Members : queued[m] > (IF Head(writes) = m THEN 1 ELSE 0)
SavesInv ==
  /\ EverySaveIsInTurn
  /\ InFlight(queued, retry) \/ LostOrStored
  /\ writes # <<>> => snap = live \/ SaveFollows
  /\ written => LostOrStored \/ \E m \in Members : queued[m] > 0
  /\ InFlight(queued, retry) => Held

\* A member who has left lets the account go, if storage comes back for good or the
\* server stops.
AccountIsLetGo ==
  \A m \in Members : (<>[]healthy \/ <>closing) => (member[m] = "leaving" ~> member[m] = "gone")

\* A server that is stopping does stop: no save is tried for ever.
StoppingEnds == closing ~> ~InFlight(queued, retry)
=============================================================================
