# DRServer in TLA+

DRServer is a game server: one Node.js process that answers the game's JSON-RPC
calls and its socket protocol, and runs dungeons - in the process itself, or in
*match workers*, one thread each. An account is a JSON document that is read
whole and written whole, from files or from PostgreSQL. What is hard about the
program is not any one calculation but that several threads, two or more
connections of one player, timers and a storage that fails all act on the same
account and the same run; and, inside a run, that most of what a player does
awaits something and comes back to a floor that has moved on.

Each module translates code under `src/src/`. `PROJECT.json` has, for each
definition, the file, lines and symbol it stands for (`map`); the runs; a mutant
of the code for each property checked; the hazards the properties are for; what
the work found (`findings`); and the theorems.

## 1. The system

| component (files under `src/src/`) | state it keeps | hard about it | what makes it correct | module |
|---|---|---|---|---|
| Account ownership (`account-registry.js`, `socket/match-worker-pool.js`, `match-worker-thread.js`, `worker-channel.js`) | `leases`, `borrowedLocks`; per worker the live objects, `acquiring`, `releasing`, `remoteHolds` | two threads, messages both ways, a worker that dies half-way | a lease is in one place, updates are not lost, every lock comes back | AccountLease |
| RPC dispatch (`rpc.js`, `rpc-handlers.js`) | none of its own | the owner may change between the look and the call | handled once, by whoever owns the account | AccountLease, Administration, Powerups |
| Account storage (`accounts.js`, `storage/`) | stored accounts, `accountChains`, `writeChains`; on PostgreSQL pictures and versions | snapshots are taken late, two files are two renames, a failed write may have landed | a save writes the account and not a stale picture; two accounts change together | RunSaves, Economy, AccountPictures |
| Process lock (`process-lock.js`) | the lock file, the heartbeat | files without compare-and-swap, clocks, stalls, crashes | one server per store | ProcessLock |
| Startup and shutdown (`index.js`, `shutdown.js`, `storage/postgres.js`) | the stage of closing, the advisory lock | order, limits on waits, a lock that lasts as long as a connection | the lock goes last; what writes beside another server is known | ServerLife |
| Ways in and out (`socket/session-transitions.js`, `match-entry.js`, `matches.js`) | the transition under way, routes and generations, the registry's indices, members of workers | a request while another is under way, late answers, displacement, dying workers | phases are kept, places are given back, no ghosts, every transition ends | SessionPhases, DungeonEntry, ModeEntries |
| A match's world (`match-world.js`, `match-runtime.js`, `floor-exit.js`) | the party, the floor, the clients' views of it | joins and floor changes take turns, leaves do not | who joins is seen by all who are there, entries end | WorldJoin |
| Run saves (`socket/run-saves.js`, `rewards.js`, `settle-account.js`) | `inFlight`, `retrying`, `closing` | storage that fails, two members of one account, shutdown | let go only when written; retries end | RunSaves |
| The report and its chests (`summary-chests.js`, `chests.js`, `store.js`) | owed treasures, requests, rollbacks | a report without the lock beside calls that hold it | a chest is owed or held once, unless two operations crossed | Treasures |
| Floors' ends (`floorstate.js`, `summary.js`, `revive.js`) | completion, failure, countdown, timers | several causes of an end, awaits of a change of floor | one report that says what clients were told; a finished floor leads on | FloorEnding |
| Triggers, gates, generators (`triggers.js`, `floor-generators.js`) | signals, waves | emissions inside emissions, stopped waves that unwind | wiring agrees, generators answer for what they made | FloorSignals |
| Blows and buffs (`combat.js`, `buffs.js`) | lives, buffs, credit | hits in steps beside deaths | credit is what was taken | Blows |
| NPCs (`npc-*.js`, `ai.js`) | target, swing, hiding, timers | turns while a swing is looked up, floors left | one swing at a time, an NPC is shown as it is | NpcTurns |
| Navigation (`pathfind.js`, `route-*.js`) | grid, clearances, memo of routes | stale caches while gates turn | what is remembered is so | RouteCaches |
| Placeables, traps, shots (`placeables.js`, `hazards.js`, `trap-attacks.js`) | tickers, permits, the grid of who stands where | going off, expiring and dying in any order | goes off once; a trap in reach is watched | Placeables, Hazards, TrapShots |
| Casts and potions (`buster.js`, `cooldowns.js`, `cast-audit.js`, `consumables.js`) | budgets, cooldowns, bag and slots | claims after the fact; an id awaited in the middle | a hit belongs to a cast; potions add up | HeroCasts, Powerups |
| Layouts and population (`tilegen.js`, `secrets.js`, `population.js`, `floor-population.js`) | tiles, quota, pets, sizes | what is withheld and revealed; party changes while things are made | layouts are whole; quota and treasures dealt once | FloorLayouts, FloorPeople |
| Loot (`drops.js`, `rewards.js`, `run-xp.js`) | what lies about, what is earned | checkpoints between pick-ups | everybody is paid once | Loot |
| Lifetimes (`lifecycle-scope.js`) | scopes of timers and cleanups | cleanups that register or dispose | nothing outlives its scope | LifecycleScope |
| Worker slots and object ids (`match-worker-pool.js`, `doids.js`) | threads, failures, lanes | hangs, replacements, a forbidden range | no client meets an id twice | WorkerSlots |
| Connections (`socket/index.js`, `websocket.js`) | limits, timers, queues, back-pressure | two reasons to stop reading, closings in each stage | packets in order, counts are of sockets there are | Connections |
| Economy (`trade.js`, `market.js`, `gifts.js`) | listings, pending gifts | two accounts, two files, runs that hold them | nothing is doubled or lost unless a pair was torn | Economy |
| Friends (`social.js`, `presence.js`) | lists, followers | read without locks, changed under two | friendships are mutual, only friends are followed | Friendships |
| Tokens, browser sessions (`auth.js`, `browser-sessions.js`, `launch-codes.js`, `web-client-access.js`) | generations, sign-out times, codes | stale or concurrent revocations | a deletion, a sign-out, a denial is not outlived | Revocation |
| Administration (`internal.js`) | roles, sanctions, grants, names | an actor read before the deed, accounts held elsewhere | somebody is admin, sanctions are served, names unique | Administration |
| Modes (`modes/`) | armings, delves, the ranked queue and race, copies | leaving in each stage | armings spent once, decided races end | ModeEntries, RankedRace, LobbyCopies |
| Standings (`leaderboard.js`, `market-history.js`) | history, boards, sales | renames and deletions beside appends | boards are the log, the deleted are forgotten | Standings |
| Chat, HTTP pages, metrics, configuration, game data | reporting and I/O | | | not modelled |

How they interact: a socket packet or a JSON-RPC arrives on the main thread.
RPCs take the account's lock, or are forwarded to the worker that leases the
account. An entry reserves a place in the registry, is routed to a worker, and
the worker leases the account before it builds the member. The run changes the
live object and saves it through run-saves; leaving settles the account, and
lets it go when it is written, after which the worker hands the lease back.

## 2. The modules

A module follows one component; its opening comment says which files, what one
step is and what is left out. Names are the code's where there is one. Common to
all: an `await` ends a step, and anything else may happen before the next. Where
the code awaits data that is cached already this allows more than can happen;
only TrapShots, whose ticks do not interleave, leaves those awaits out. Counters
the code lets grow (requests, floors, entries, deaths of workers) are bounded by
constants whose names begin with `Max`, in the guards.

**AccountLease.** `storage` is the stored account, as the set of updates it
contains; an update is named after the transaction or the visit that made it, so
a lost update is a matter of sets. The main thread has `lease` (`leases`),
`borrowed` (`borrowedLocks`) and `mainChain` (its chain in `accountChains`);
each worker `live`, `releasing`, `writes`, `acquiring`, `chain`, `holds`,
`asked`; `up` and `down` are the two FIFO channels of a worker. A transaction
goes through the states of `pc` on the thread `at`, on the object `ref` says. A
visit is one member's run with one reward. A worker may die at any point; what
the main thread then does over several turns is `WorkerDies`, `CallFails`,
`LostLockReturned`, `WorkerReplaced`. Saves succeed here; saves that fail are
RunSaves'. An entry whose wait for a lease times out looks once more under the
lock, and fails if the lease is still held.

**ProcessLock, ServerLife.** A process is one run of the program. `lock` is the
file, known by who wrote it; `at` is where each process is in
`acquireFileProcessLock`, its heartbeat and its release; one action is one file
operation. Time is not counted: a process that runs touches its lock within
`staleAfterMs`, a stalled one does not, and `ClockAhead` says whose clock makes a
fresh lock look old. ServerLife is the same question on PostgreSQL: the advisory
lock lasts as long as one connection, and what is asked is who writes while
another server has it.

**SessionPhases, DungeonEntry.** SessionPhases is the promise: the phases at the
head of session-transitions.js for one connection, with what its client holds and
was told. DungeonEntry is the machinery: `job`, `cancelled` and `exit` are the
SessionTransitions of a connection; `gen` and `route` its `matchGeneration` and
`matchRoute`; `state`, `in`, `byAccount` the registry; `member` and `late` the
workers; `up` and `down` the channels; `shown` and `home` what clients hold.
`ConnsFollowPhases` is the refinement: for every connection, `Phase(c)`,
`c \in shown` and `c \in home` behave as SessionPhases. What the code does and
this module does not: `add`'s fail-closed check, the `previous` route in `join`,
"joined again before leaving" in the worker, the dead-worker branch of `leave`
and the close after `evictionGrace` cannot be reached in it; a match's `expire`
is an exit of each member; a door and a way home are one step on arrival. A frame
that is malformed, or a member's termination, empties the worker's queue for it
(`QueueDropped`): a leave that waited there is never answered, the connection is
closed (`CloseArrives`), and `left` does not come. `Offenders` says for which
connections this may happen. Why an admission is refused is a free choice here and the subject of ModeEntries' second part.

**RunSaves, WorldJoin, Treasures.** RunSaves: one account on the thread that
holds it; content is the number of changes; `queued` is each member's saves
behind `rewardSavePromise`, `writes` the account's write chain, `snap` what its
first will write, `retry` and `written` the entry in `retrying`, `closing` and
`gaveUp` the shutdown. A failed write may still have reached the file. WorldJoin:
`view` is what each client holds, and a floor change or a join is a sequence of
steps in `runExclusive`'s turn beside leaves that wait for nobody. Treasures: a
report's requests beside a client's calls on the same account.

**On a floor.** FloorEnding, FloorSignals (an emission is an operator from
signals to signals), Blows, NpcTurns, RouteCaches, Placeables, Hazards,
TrapShots, HeroCasts, Powerups, FloorLayouts, FloorPeople, Loot, LifecycleScope.
Floors, distances and clocks are classes or a short line; damage is counted in
few points. In Blows the heroes may be taken off the floor between a hit and what it
is worth (`HeroesLeave`), which is then not credited, and an enemy may steal life.
In FloorEnding a change of floor is four steps, of which each may throw
(`FloorChangeFails`); the floor is no longer finished once the heroes are up, while
the rest of it is still being laid (`"filling"`); and a mode may hold a completion
(`held`) or ask for one (`ModeEndsFloor`). To keep `fights` small MCFights lets only
casts that linger be looked at, gives the first floor revives where it authors its
own ending, and bombs to one hero.

**In town and around.** Economy, Friendships, Connections, WorkerSlots,
Revocation (its two parts: the generations of an account, and the browser's
sessions), Administration, AccountPictures, Standings, ModeEntries, RankedRace,
LobbyCopies.

**Composites.** The `MC...` modules give bounds. MCStorage, MCDungeon, MCFights,
MCTown and MCRules hold several components each. Such a module has a variable
`part`, chosen at the start, and a behaviour moves only the component `part`
names: the components meet in the code only through interfaces their modules
already contain (a free refusal, a held account, a floor that is left), so the
run is the union of their behaviours and its states add up instead of
multiplying. The property of a composite is the conjunction of what its
components promise together, under a name for the common promise
(`TwoAccountsAgree`, `NobodyOutstaysHisLeave`, `FloorsPlayFair`, ...). MCRules
guards each conjunct by its `part` for speed only: the others stand still in
their initial states.

## 3. The runs

| run | instance | what it shows |
|---|---|---|
| `lease` | 2 workers, 2 visits, an RPC and a friend request that reaches the account from another dungeon, 1 death | the lease is in one place through every interleaving and death; updates are lost only by objects whose hold has ended; nobody is left waiting but behind a read that waits for a lease |
| `storage` | server, replacement in the same view and a container in another, 1 stall; two servers of two starts each on the advisory lock | one believer unless outrun, the second is told, every start is answered; beside the server that has the lock only a broken connection's or a cut request's work is written |
| `entry` | 2 connections of one account (the second displaces the first), 1 worker, doors and ways home for the first, which may enter twice | the phases are kept, the registry agrees, no ghosts, every transition ends |
| `entry_crash` | 2 accounts, 2 workers of which one dies, a connection that drops | no leaked place, one living worker per match |
| `dungeon` | two members who enter, join late, leave, answer late or never and go on to a second floor; two stays of one account with up to 3 changes and storage that goes away; a report with two owed chests beside a client's call | who joins is seen by all, accounts are let go once written unless a save was overtaken, chests add up unless two operations crossed, everything ends |
| `fights` | one enemy and two heroes who may walk out; one NPC; one placed thing of each kind; a bomb and a zone over one body; a corridor with a gate and a crate; two floors, of which the change may fail | what strikes strikes as often as it may and is credited; what is there is noticed; the one report says what was told; nothing stays for ever |
| `town` | two requests over two accounts, a run and a crash; two worker slots with 3 deaths; one account's revocations by two processes; one browser; two friends over three connections; two sockets | goods change hands once and friends agree unless a pair of files was torn; clients are served in order; nobody outstays a deletion, a sign-out or a denial |
| `rules` | fifteen components, each with its own few initial states | what holds at every step of each (next section's list) |
| `lease_lost_update` | `lease` without deaths | a finding (see 5.1) |
| `process_lock_takeover` | `storage` without a stall | a finding (5.2) |
| `entry_displaced` | 2 connections of one account | a finding (5.3) |
| `kept_chest_lost` | `dungeon` | a finding (5.4) |

Bounds. Two of each party are enough for every race the code has between
parties: the protocols treat third parties like second ones (a third worker
waits for the holder as the second does; a third process finds the file as the
second does, and is there in `storage` because two must judge the lock of one
that ended). A visit or a transaction happens once; what a second one of the same
kind could meet is what the other visit and transaction meet. One death lets a
worker die before, during and after each step, and whatever has begun by then, both
visits included, goes on and contends for the slot that is used again. Nothing of
`lease` is cut: its VIEW tells states apart by what an action can still read, so a
finished transaction's object does not double them (`TypeOK` and `LeaseInv`, which
mention such leftovers, are proved besides). `MatchIds =
{1, 2}` lets a second match exist beside the first or after it. On floors, two
floors tell what belongs to one from what survives it, two heroes tell a party
from a player, and damage of 1 out of 2 leaves one blow between unhurt and dead.
Deadlock is not checked: every one of these systems may come to rest (players ask
for nothing, a stopped server stays stopped), and what must not be left at rest is
stated instead (`OnlyReadsWaitForever`, `TransitionsEnd`, `ServersSettle`,
`DungeonsEnd`, `FightsGoOn`, `TownMovesOn`).

Fairness. ProcessLock: startup and shutdown are sequences of awaited file
operations and the heartbeat is a timer, so each is weakly fair, and a stalled
process resumes; nobody has to start, stop or crash. ServerLife: a dropped
connection's event comes, a lock that can be retaken is tried, an ordered exit
goes on. DungeonEntry: threads run and messages arrive; storage answers an
admission; a leaving member's reward ends one way or the other; an entry ends
because its handshakes time out. A worker that hangs is stopped by the watchdog
and counts as dead. RunSaves: a write ends, one way or the other, and timers
fire; storage need not come back, which is why `AccountIsLetGo` supposes that it
does or that the server stops. Treasures and WorldJoin: ids are answered, saves
end, handshakes time out. Fights: timers of NPCs and placeables fire, and floors'
timers. Town: requests' awaits are answered, a slot's watchdog and backoff fire,
and sockets' timers and close events come. AccountLease is checked for safety
only; "nobody waits for ever" is stated of the states where every thread has done
what it can.

What the composites' properties are made of:

- `TwoAccountsAgree`: `OnlyTornPairsLose`, `GiftsAreRationed`, `FriendshipsAreMutual`.
  `ClientsAreServedInOrder`: `NumbersAreNew`, `CountsAreSockets`, `SomethingResumes`,
  `OneAtATimeInOrder`. `NobodyOutstaysHisLeave`: `DeletedStaysDeleted`,
  `NobodyHoldsTheDeleted`, `SignOutsHold`, `DenialsHold`, `OnlyFriendsAreFollowed`,
  `PanelsTellTheTruth`.
- `StrikesAreCounted`: `CreditIsWhatWasTaken`, `OneSwingAtATime`, `FloorsKeepTheirOwn`,
  `GoesOffOnce`, `LandingsWereThrown`, `BombsGoOffOnce`. `WhatIsThereIsNoticed`:
  `SeenAsItIs`, `OnlyGhostsHaunt`, `ContactIsWatched`, `TrapsFollowTheirWires`,
  `NobodyIsOverlooked`, `IndexIsTheFloor`, `CachesTellTheTruth`, `RoutesAreOfThisFloor`,
  `NothingIsWalkedInto`.
- `AccountsAreInOrder`, `StandingsAreFair`, `EntriesAreEarned`, `FloorsPlayFair` and
  `HeroesGetTheirDue`: see MCRules.

## 4. What is proved

TLAPS proves these for every value of the constants that the modules' own
assumptions allow (names are different, bounds are numbers, an account has an
owner); TLC evaluates those assumptions in the runs. An invariant that a run
checks is seldom inductive. Each proof module first finds the form that is, and
TLC has checked that one too.

**AccountLeaseProofs** - `TypeCorrect`, `LeaseInvHolds`, `OneThreadPlays`,
`ErrandsFit`, `NothingSavedIsLost`, `OnlyStaleLose`. That a lease
is in one place (`LeaseIsInOnePlace`) is not inductive: a second answer to a lease call, or an answer to an
entry that does not wait, would create a second place. `LeaseInv` adds that a lease call has one answer on its way, that it finds
its entry `answered` on that worker, that at most one of the messages in a
channel carries the object, and at most one brings the lease back. Each action is
then a case of where the lease moves to. That only one thread plays an account
follows. `ErrandsFit` is about the transactions: one that has not ended waits for
one thing in one place (a message, a call from elsewhere not yet answered, a turn
queued for a hold, a patch applied and not yet written), each message says
something true of the transaction it is about (`UpFits`, `DownFits`), each place
in a chain, among the holds or the writes of a worker is explained by where the
transaction is (`RoomFits`), and who has the main thread's lock is first in its
chain (`HeadFits`). A step is about one transaction (`Moves`), so `StepFits` leaves
each action the one transaction it moves.

On these two rests `OnlyStaleLose`: no update that somebody was told is saved is ever
missing from the account, unless an object was saved whose hold had ended (`stale`,
the first finding of section 5). A save takes an update away when it writes an object
read before the update was made, so `NothingLost` says how old what a thread has can
be. Where the lease is, the live object has everything (`Kept`). A read made under the
main thread's lock finds the object where the lease is, or finds that there is none,
because a call sent after a lease arrives after it, and an answer sent after a
lease went back arrives after that (`Leave`, `After`, `InOrder`): the proof uses that
the channels keep their order. What such a read found is the
whole account until the transaction has saved it, as nobody else reads under that
lock and no lease leaves (`CopyFits`). And a write queued on a worker writes that
object or the live one, with the update it is for already in it (`WriteFits`). A
worker's death takes its lease, its object and its queued writes at once, so that
storage is the account again, and what it had promised is there. Every
step but those about leases, reads and saves leaves all this alone for one reason: it
adds no lease to a channel and takes nothing of another's out of order (`Calm`).

**StorageProofs** - `LockInvHolds`, `OneServer`, `ServersAreApart`,
`StorageKeepsApart`. "One believer" is not inductive, because whoever judged a
lock abandoned acts later. `LockInv` says what is true in between: the file is in
its place, with its content, for whoever wrote it, and what was judged is the
lock of a process that has ended, or no longer there. `ServersAreApart` is
ServerLife's `StagesAreDone` and what follows from it; `StorageKeepsApart` is the
run's own property, of the composite.

**DungeonProofs** - `SavesInvHolds`, `KeptUnlessOvertaken`, `EveryoneInTheWorldIsSeen`,
`OnlyCrossingsLose`, `ReportSaysWhatWasTold`, and of the
composite `DungeonTypeCorrect`, `DungeonAccountsAddUp`, `DungeonKeepsItsWord`. That an account
is let go written depends on what the write at the head of the chain has read.
`SavesInv` adds that a change it has not read has a member's save of its own
behind it, that a retry is needless only when what the object holds is stored or
such a save is there, and that somebody holds the account while anything is on
its way. The write chain is a sequence nobody is in twice; `Appended` and
`Dropped` say who is in it after a step. `WorldInv` says of each entry under way
whose turn it is and which answers count for it; `TreasureInv` ties a report's
request to the claim it stands for, without which "held or owed, not both" cannot
be carried over a step that awaits an id.
Of FloorEnding the proof needs that whatever is scheduled is what was told last,
that whoever has left is settled, and that a change of floor is only asked for where
there is a floor to go on to (`FloorInv`); the operators of floorstate.js are dealt
with once each (`PartsKeep`).

**EntryProofs** - `EntryTypeCorrect`, `EntryInvHolds`, `PlacesAreAlwaysHeld`,
`RegistryAlwaysAgrees`, `MatchesHaveOneWorker`, `NobodyStaysAsAGhost`. None of the
four invariants stands alone: a late frame of an earlier run would break each of
them. `EntryInv` therefore says of every connection what may be on its way about
its run, in the channels and in the worker: the messages and the member are of the
generation the connection is routed with (`NothingIsStray`); at most one join, one
leave behind it and one `left`, with which the member is gone and nothing more
waits for the worker (`RunEndsOnce`); at most one answer to the entry, and only while it is awaited
(`EntryIsAnswered`); and the transition is where the route says it can be
(`JobFitsRoute`). The registry's part adds that a place belongs to an open
connection, the only one of its account, and that a match's worker lives. The
proof keeps the two apart: `Good(c)` for one connection, `RegistryInv` for all of
them. A step speaks about one connection, and `OthersAreGood` carries the rest
over whenever their queues have only been shortened or added to about somebody
else (`Kept`, `Shrinks`).

The refinement of SessionPhases is proved on top of it: `ClientInvHolds`,
`OnlyDeathsMisleadHolds`, `PhasesAreFollowed`, `ConnsAreFollowed`. `EntryInv` leaves
out what a client holds. `ClientInv` adds, for a connection that is open, how its
exit, its cancelled transition and its route go together (`TransitionFits`); that
the objects of a run reach the client before the answer to the entry and before
the run's end, and are there only for a member the worker still shows or whose end
takes them down (`ShownFits`); and that no "ready" of a run that has not begun is on
its way, and no "closed" note about one that is open (`NotesFit`). `Moved` is
SessionPhases as a table of what one step may change, and each action is shown to
move its connection by one row, the others by none. A worker's death is the one
exception: it sends home one whose next dungeon was already asked about, and the
entry goes on (`Misled`, the fault of `HomeIsHome`). So the refinement is stated
twice: for any number of deaths but for connections in that state
(`PhasesUnlessMisled`, and `OnlyDeathsMislead` says that only a death leads there),
and as the run states it, for `MaxCrashes = 0`.

**TownProofs** - `DeletionsHold`, `SignOutsAndDenialsHold`, `FriendsAreMutual`,
`FollowersAreRight`, `NumbersStayNew`, `CountsHold`, `ReadingGoesOn`,
`PacketsKeepTheirOrder`, and of the composite `LeavesAreNotOutstayed`,
`AccountsAgree` and `ClientsAreServed`, the run's own properties. `RevokeInv` says that a generation, once raised, is never less in memory, nor
in a file that one process writes at a time, and that whoever was let in since has a
token of since. `WebInv` needs to know only that nothing lasts longer than from now:
a token of a sign-in is then judged by when it was issued, and what was under way at a
denial carries the mark of it. Friends are the longest of the three. `StoredInv` adds to
the mutual lists that of two accounts only one asks the other, and that what is owed of
a friendship that was made is true as long as both are locked; `FollowsFit` says of a
connection's reading what holds for those it has found and those it is still to look
at - they list each other, or the change is torn or still to be told, or it was noted as
the connection read (`Excused`) - which is what must be true for whom it then follows.
A deed between two accounts is one step of `DeedDone`, whatever it was and however its
save went.

That a worker's new objects never get a number somebody met before (`NumbersAreNew`)
rests on the lanes: `SlotInv` says that a slot counts in its own remainder, at or
above whatever was met in it, and `LanesDiffer` that no two slots share one.
`SocketInv` says of one socket where its session is, what waits in its rows and
who must resume it: whenever it is paused, something under way will
(`SomethingResumes` is the safety half of "is read again"). The longest part is
`drainFrames`, which the model folds over what has arrived: the chain of its
intermediate states is a function of the number of frames taken, and what holds
of every link is shown by taking the least link at which it fails (`LeastIs`).
The counters are the cardinalities of the sets of living sockets, overall and by
address (`Tallied`).

**EconomyProofs** - `ValueIsKept`, `GiftsHold`. Between the changes of two objects
and the second of two files neither what is filed nor what is played adds up. The
invariant therefore speaks of two states that are not there: `Ahead`, what each
account has if every call under way goes through, and `Behind`, what it has if
each of them fails. Both are sound - nothing is doubled, nothing lost
(`Sound`) - unless a pair of files was torn; what is changed and not yet saved can be
taken back (`CanGoBack`); and gifts are rationed in `Ahead`, the one a request is
granting included (`Rationed`). A step moves one of the two states, and a crash or
a failure makes `Ahead` what `Behind` was, for the accounts concerned. What all
accounts are worth together is a sum over a finite set, written as the function on
its subsets that adds one account at a time (`AddsUp`); that it does not depend on
the order, and that an exchange leaves it as it is, is shown by the least set that
would say otherwise. `EconomyAssumption` asks that the accounts be finitely many,
and at least one.

What stays with TLC. Liveness under fairness and whatever rests on `ENABLED`
(`OnlyReadsWaitForever`, and the `...End`, `...Settle`, `...GoOn` properties): the
prover has no rules for them. ModeEntries and FloorSignals, and with them MCRules,
use RECURSIVE operators (a wave of emissions, the boss that is due), about which
nothing can be proved here. The invariants of the components of `fights` are
checked and not proved. The library's induction theorems
cannot be used with these provers, as they take an operator; where a proof needs
an induction, over links of a chain or the size of a set, it takes the least
counterexample instead, from the well-foundedness of the naturals.

## 5. What it found

Four runs are expected to end in a violation; each is a statement that a comment
or a test of the repository makes and the code as written does not keep.
`findings` in PROJECT.json quotes them.

1. A reward written as a dungeon is left can be lost (`lease_lost_update`). While
   `releaseLease` waits for the last member's saves, an operation of the same worker
   that has this worker's lock finds no live object and asks the main thread. That
   answers "not elsewhere", because the lease is still this worker's, so storage is
   read before the reward is written; what the operation then saves lies behind the
   reward's write in the chain and takes the reward away. `liveForElsewhere` waits
   for a hand-back, `load` does not. This is the trace of the run. A second route to
   the same end is a transaction that has the live object in hand across the
   hand-back and saves it over the next holder's changes; both set `stale`.
2. The takeover of an abandoned lock can take a new owner's (`process_lock_takeover`).
3. A displaced connection's second disconnect makes the player unfindable for
   friends (`entry_displaced`).
4. A chest kept on the report while a purchase waits for an id is dropped
   (`kept_chest_lost`). The same copy-then-await is made of items, skins and pets
   in store.js, and a report that is rolled back puts a whole account back
   (summary-chests.js 163-182).

The passing properties are stated so that they hold apart from exactly these
(`OnlyStaleObjectsLose`, `OnlyReadsWaitForever`, `OneBelieverUnlessOutrun`,
`LetGoUnwrittenOnlyIfOvertaken`, `OnlyCrossedOperationsLose`,
`OnlyTornPairsLose`): there is no other way to the same fault. All but
`OnlyReadsWaitForever`, which rests on `ENABLED`, are proved for every value of
the constants.

More of the kind, kept as definitions in the modules without a run. Each is
violated; a configuration of the component's specification and this one
INVARIANT shows how.

| definition | what the code does |
|---|---|
| `AccountLease.NobodyWaitsForever` | read, lease and lock wait for one another |
| `ProcessLock.FreshLocksAreBelieved` | with one clock ahead a fresh lock is taken for an abandoned one |
| `DungeonEntry.EveryTransitionEnds`, `TheClosedLeave` | a leave dropped with its member's queue never ends: the member, the lease and the main thread's transition stay until the worker does, and a shutdown waits for them |
| `DungeonEntry.HomeIsHome` | a worker's death during a door's check sends the player home and on into the next dungeon |
| `RunSaves.KeptUntilWritten` | a failed save handed to a retry that is no longer needed is dropped with it |
| `FloorEnding.EveryFinishedFloorLeadsOn` | a change of floor that throws is only logged, and the floor stays finished with nothing to lead on |
| `FloorEnding.LootHasAMoment` | `victoryDelayMs`, once 0 by an exit, is never set back |
| `FloorEnding.CountdownOnlyWhileDown` | a leave during a change of floor starts a countdown that survives into the next |
| `FloorSignals.GeneratorRunsWhileHigh` | a generator switched on again before its stopped wave has unwound stays off |
| `WorldJoin.LateJoinSeesTheWorldAsItIs` | what changes between a joiner's snapshot and its going live is missed |
| `ModeEntries.RecordsSayHowDeep` | a delve's record keeps the depth of the first who dropped out |
| `Friendships.NobodyFollowsAFormerFriend` | a friendship ended while a login reads stays followed |
| `Connections.StoppedIsStopped` | a resumed browser stream reads on though draining has just stopped it |
| `Standings.SalesAreNeverLost` | anonymising rewrites the file without the sale appended meanwhile |
| `Revocation.KeptTokensAreNotTouched` | a kept token in its last hours is refused after a browser's sign-out |
| `Powerups.DrinksArePaidFor`, `NothingIsLost` | a potion drunk, or a row pushed, while a move of its stack waits for an id |
| `FloorLayouts.RoomsAreShut`, `SealedIsClosed` | an exit opens a secret room; openings given up on count as sealed |
| `FloorPeople.HeNeverHasTwo`, `NpcsAlwaysFit` | a second pet; sizes of a party that is no more |
| `Loot.FoodStaysOnItsFloor` | food cooked across a change of floor lands on the next |
| `TrapShots.NearestIsHit`, `MuzzlesAreExempt` | of several bodies met in a tick the one made first is struck; a slow shot meets its own wall |
| `Blows.BuffsGoWithTheirHost` | the buff of a blow under way when its host dies (only if cached data really let something in between) |

Remarks made while modelling, which no definition states:

- Entry: a run without revives failing after `completeFloor` on an uncleared floor
  is reported lost though won; a party that falls on a cleared floor starts no
  countdown; an arming is spent by a refused entry.
- Shutdown: a request cut after the listeners' grace may write after the release
  of the lock.
- Floors: the blow of combat.js:768 pays Buster without asking whether the hero is
  still on the floor, as the other blows do; while a new floor is being filled the
  exits of the old one still count; `invulnerableUntil` is shared by a party, and one member's
  `clearSecurityState` clears it; an NPC with a DeathAttack may be made on the floor
  after its own; a placeable killed between making and registration goes on to
  its expiry; a trap wired while it is being made stays as it was begun; a body in
  two colliders at once cannot get out.
- Loot and layouts: a secret room revealed before a floor is settled is priced
  twice; the fallback keeps the first layout, not the least bad; a failing read of
  a floor's markers is kept for the run.
- Accounts: a read made under an account's lock joins one that is in flight
  (`readAccount`, accounts.js 705-722), which may have been begun without the lock
  and opened the file before the last rename. Economy and AccountLease read what is
  stored at the time; this window is not modelled.
- Town: a crash between a deletion's removal of the file and the forgetting leaves
  its standings for the next account of that id; two admins may demote each other;
  a forwarded operation fails if the account came back meanwhile and is then only
  logged; an offer refused at a later detail leaves the earlier ones granted; a
  second open with one key leaves -1; revocations by two processes on files may
  overwrite each other; a token issued in the second of a sign-out is refused; a
  launch code issued on an approval read before a denial outlives it.

## 6. The plan

Built: AccountLease; ProcessLock and ServerLife; SessionPhases and DungeonEntry;
RunSaves, Treasures, WorldJoin; the components of a floor; those of the town; the
rules. Proved: the core's safety and the refinement, the storage, what a run
saves, and the town, in six proof modules. To come: the invariants of the components
of `fights`.

## 7. Not modelled

Parsing and framing of bytes, game data, steering and crowds on real coordinates,
formulas of damage, prices and ratings, text, chat, metrics and HTTP pages;
doors, cages and captures of a floor; what is checked before a start. SQL is taken
at its word. Dungeons on the main thread (without workers) take the paths of the
pool with nothing in between, and are not modelled separately.
