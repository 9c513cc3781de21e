----------------------------- MODULE Standings -----------------------------
(***************************************************************************)
(* What outlives a run and an account: the run history and the boards      *)
(* folded from it (leaderboard.js), the history of sales                   *)
(* (market-history.js), and how a rename and a deletion reach them         *)
(* (internal.js, account-deletion.js), with files and with PostgreSQL.     *)
(*                                                                         *)
(* Files: the changes of the boards take turns on one chain (fileStore-    *)
(* Tail), and the history is appended before the boards are written.  The  *)
(* file of sales is appended to and replaced by who happens to.            *)
(* PostgreSQL: a record and a deletion are transactions of their own.      *)
(***************************************************************************)
EXTENDS Integers, Sequences, FiniteSets, SequencesExt

CONSTANTS Ids,          \* account ids, 1 upwards
          PlayerNames,
          NoName,       \* what a deletion leaves of a name in the history of sales
          MaxDeeds, MaxLives, MaxCrashes    \* bounds: what players and admins do; accounts of one id; crashes and writes that fail

ASSUME StandingsAssumption == /\ Ids \subseteq Nat \ {0} /\ NoName \notin PlayerNames
                              /\ {MaxDeeds, MaxLives, MaxCrashes} \subseteq Nat

VARIABLES
  keeping,   \* config.storage: "file" or "database"
  people,    \* accounts, by id: the name, the experience, and which account of this id it is
  away,      \* the copies dungeons play on
  runLog,    \* the run history
  boards,    \* by id, what it stands for on the boards: clears, and the best it brought home
  chain,     \* fileStoreTail, or the transactions under way
  appended,  \* the first of the chain has appended and has still to write
  owedNames, \* renames whose account is written and whose standings wait for the records
  leaving,   \* deletions, by id: what is still to be done
  sales, salesRead, salesTemp,    \* the history of sales; what a deletion read of it; the temporary file
  unsaid,    \* sales that are saved and not yet recorded: under the locks of both
  spoilt,    \* accounts of which something was cut short or overtaken; sales a replaced file may lack
  sold,      \* how many sales there were
  deeds, crashes

standingVars == <<keeping, people, away, runLog, boards, chain, appended, owedNames, leaving, sales, salesRead,
                  salesTemp, unsaid, spoilt, sold, deeds, crashes>>
salesVars == <<sales, salesRead, salesTemp, unsaid, sold>>
accountVars == <<people, away>>
boardVars == <<runLog, boards>>

NotThere == [name |-> NoName, exp |-> 0, life |-> 0]
NoLine == [value |-> 0, name |-> NoName, life |-> 0]
NoStanding == [clears |-> NoLine, best |-> NoLine]
Missing(a) == people[a].name = NoName
NotAway(a) == away[a] = NotThere
Everyone == {a \in Ids : ~Missing(a)}
Deed == deeds < MaxDeeds /\ deeds' = deeds + 1 /\ UNCHANGED crashes
Fault == crashes < MaxCrashes /\ crashes' = crashes + 1 /\ UNCHANGED deeds
countVars == <<deeds, crashes>>

StandingInit ==
  /\ keeping \in {"file", "database"}
  /\ LET called == CHOOSE f \in [Ids -> PlayerNames] : \A a, b \in Ids : f[a] = f[b] => a = b
     IN people = [a \in Ids |-> [name |-> called[a], exp |-> 0, life |-> 1]]
  /\ away = [a \in Ids |-> NotThere]
  /\ runLog = {} /\ boards = [a \in Ids |-> NoStanding]
  /\ chain = <<>> /\ appended = FALSE /\ owedNames = <<>> /\ leaving = [a \in Ids |-> "no"]
  /\ sales = <<>> /\ salesRead = [a \in Ids |-> <<>>] /\ salesTemp = <<>> /\ unsaid = {} /\ sold = 0
  /\ spoilt = [boards |-> {}, names |-> {}, sales |-> FALSE]
  /\ deeds = 0 /\ crashes = 0

-----------------------------------------------------------------------------
(* Runs, and the boards folded from them.                                  *)

Entering(a) ==
  /\ ~Missing(a) /\ NotAway(a) /\ Deed
  /\ away' = [away EXCEPT ![a] = people[a]]
  /\ UNCHANGED <<keeping, people, boardVars, chain, appended, owedNames, leaving, salesVars, spoilt>>
\* The report: runRecordFor says who he is and what he has now, and nobody waits for recordRuns
RunRecorded(a, won) ==
  LET brought == [away[a] EXCEPT !.exp = @ + 1]
      run == [kind |-> "record", of |-> a, life |-> brought.life, no |-> deeds, won |-> won, exp |-> brought.exp,
              name |-> brought.name]
  IN /\ ~NotAway(a) /\ away[a].exp = people[a].exp
     /\ away' = [away EXCEPT ![a] = brought] /\ chain' = Append(chain, run)
     /\ UNCHANGED <<keeping, people, boardVars, appended, owedNames, leaving, salesVars, spoilt, countVars>>
\* The account is saved, and let go
AccountLetGo(a) ==
  /\ ~NotAway(a) /\ away[a].exp > people[a].exp
  /\ people' = [people EXCEPT ![a].exp = away[a].exp] /\ away' = [away EXCEPT ![a] = NotThere]
  /\ UNCHANGED <<keeping, boardVars, chain, appended, owedNames, leaving, salesVars, spoilt, countVars>>

HigherBeats(value, row) == row = NoLine \/ value > row.value
\* Mutant of FoldRun: a board of clears is beaten like the others
FoldBest(row, run) ==
  [clears |-> IF run.won /\ HigherBeats(1, row.clears) THEN [value |-> 1, name |-> run.name, life |-> run.life] ELSE row.clears,
   best |-> IF HigherBeats(run.exp, row.best) THEN [value |-> run.exp, name |-> run.name, life |-> run.life] ELSE row.best]
\* foldRun, and with PostgreSQL the upsert, which takes the name of every run
FoldRun(row, run) ==
  [clears |-> IF run.won THEN [value |-> row.clears.value + 1, name |-> run.name, life |-> run.life] ELSE row.clears,
   best |-> IF HigherBeats(run.exp, row.best) THEN [value |-> run.exp, name |-> run.name, life |-> run.life]
            ELSE IF keeping = "database" THEN [row.best EXCEPT !.name = run.name, !.life = run.life] ELSE row.best]

Took(i) == chain' = RemoveAt(chain, i)
\* What a transaction of PostgreSQL may come after: the deletion of its account, or a new name
GoneSince(run) == Missing(run.of) \/ people[run.of].life # run.life
RenamedSince(run) == people[run.of].name # run.name
\* recordRuns: one transaction
RecordCommits(i) ==
  /\ keeping = "database" /\ chain[i].kind = "record" /\ Took(i)
  /\ runLog' = runLog \cup {chain[i]} /\ boards' = [boards EXCEPT ![chain[i].of] = FoldRun(@, chain[i])]
  /\ spoilt' = [spoilt EXCEPT !.boards = IF GoneSince(chain[i]) THEN @ \cup {chain[i].of} ELSE @,
                              !.names = IF RenamedSince(chain[i]) THEN @ \cup {chain[i].of} ELSE @]
  /\ UNCHANGED <<keeping, accountVars, appended, owedNames, leaving, salesVars, countVars>>
\* The first of the chain, with files: the boards are read, the history is appended ...
RecordAppends ==
  /\ keeping = "file" /\ chain # <<>> /\ Head(chain).kind = "record" /\ ~appended
  /\ runLog' = runLog \cup {Head(chain)} /\ appended' = TRUE
  /\ UNCHANGED <<keeping, accountVars, boards, chain, owedNames, leaving, salesVars, spoilt, countVars>>
\* ... and the boards are written
RecordWrites ==
  /\ appended /\ appended' = FALSE /\ Took(1)
  /\ boards' = [boards EXCEPT ![Head(chain).of] = FoldRun(@, Head(chain))]
  /\ UNCHANGED <<keeping, accountVars, runLog, owedNames, leaving, salesVars, spoilt, countVars>>
\* A write of the boards that fails leaves the run to the history alone
RecordFails ==
  /\ appended /\ appended' = FALSE /\ Took(1) /\ Fault
  /\ spoilt' = [spoilt EXCEPT !.boards = @ \cup {Head(chain).of}]
  /\ UNCHANGED <<keeping, accountVars, boardVars, owedNames, leaving, salesVars>>

-----------------------------------------------------------------------------
(* Renames.                                                                *)

\* renameAccount: under allocationChain and the lock of the account, which nobody is playing
Renames(a, n) ==
  /\ ~Missing(a) /\ NotAway(a) /\ leaving[a] = "no" /\ \A s \in unsaid : a \notin {s.seller, s.buyer}
  /\ \A b \in Ids : people[b].name # n
  /\ Deed
  /\ people' = [people EXCEPT ![a].name = n]
  /\ owedNames' = Append(owedNames, [kind |-> "rename", of |-> a, life |-> people[a].life, name |-> n])
  /\ UNCHANGED <<keeping, away, boardVars, chain, appended, leaving, salesVars, spoilt>>
\* Mutant of RenamedRows: only the best is renamed
RenamedBest(row, n) == [row EXCEPT !.best.name = IF row.best = NoLine THEN @ ELSE n]
RenamedRows(row, n) ==
  [row EXCEPT !.clears.name = IF row.clears = NoLine THEN @ ELSE n, !.best.name = IF row.best = NoLine THEN @ ELSE n]
\* A rename that comes after the deletion of its account, and meets another of its id
NamesOverrun(rename) == spoilt' = [spoilt EXCEPT !.names = IF GoneSince(rename) THEN @ \cup {rename.of} ELSE @]
Archives == {i \in DOMAIN chain : chain[i].kind = "record"}
\* renameInStandings: with files once no run is being recorded, in its turn
RenameWaited ==
  /\ keeping = "file" /\ owedNames # <<>> /\ Archives = {}
  /\ owedNames' = Tail(owedNames) /\ chain' = Append(chain, Head(owedNames))
  /\ UNCHANGED <<keeping, accountVars, boardVars, appended, leaving, salesVars, spoilt, countVars>>
RenameTurn ==
  /\ keeping = "file" /\ chain # <<>> /\ Head(chain).kind = "rename" /\ Took(1)
  /\ boards' = [boards EXCEPT ![Head(chain).of] = RenamedRows(@, Head(chain).name)] /\ NamesOverrun(Head(chain))
  /\ UNCHANGED <<keeping, accountVars, runLog, appended, owedNames, leaving, salesVars, countVars>>
\* renameStandings of PostgreSQL, which waits for no record
RenameStandings ==
  /\ keeping = "database" /\ owedNames # <<>> /\ owedNames' = Tail(owedNames)
  /\ boards' = [boards EXCEPT ![Head(owedNames).of] = RenamedRows(@, Head(owedNames).name)] /\ NamesOverrun(Head(owedNames))
  /\ UNCHANGED <<keeping, accountVars, runLog, chain, appended, leaving, salesVars, countVars>>

-----------------------------------------------------------------------------
(* Sales, and the deletion of an account.                                  *)

Parties(s) == {s.seller, s.buyer}
\* The sale is saved, under the locks of both; its record is still to be written
Sells(a, b) ==
  /\ a # b /\ \A x \in {a, b} : ~Missing(x) /\ NotAway(x) /\ \A s \in unsaid : x \notin Parties(s)
  /\ Deed
  /\ sold' = sold + 1 /\ unsaid' = unsaid \cup {[no |-> deeds, seller |-> a, buyer |-> b, soldBy |-> people[a].name, boughtBy |-> people[b].name]}
  /\ UNCHANGED <<keeping, accountVars, boardVars, chain, appended, owedNames, leaving, sales, salesRead, salesTemp, spoilt>>
Rereads == {a \in Ids : leaving[a] \in {"sales read", "sales written"}}
\* recordSale: a line at the end of the file, whoever is about to replace it
SaleRecorded(s) ==
  /\ s \in unsaid /\ unsaid' = unsaid \ {s} /\ sales' = Append(sales, s)
  /\ spoilt' = [spoilt EXCEPT !.sales = @ \/ Rereads # {}]
  /\ UNCHANGED <<keeping, accountVars, boardVars, chain, appended, owedNames, leaving, salesRead, salesTemp, sold, countVars>>

NamelessIn(a, past) ==
  [i \in DOMAIN past |-> [past[i] EXCEPT !.soldBy = IF past[i].seller = a THEN NoName ELSE @,
                                         !.boughtBy = IF past[i].buyer = a THEN NoName ELSE @]]
RunsWithout(a) == {run \in runLog : run.of # a}
\* Mutant of LetGoOf: whoever asks, the account is gone
OnlyKnown(a) == ~Missing(a)
\* heldAccount and the lock: nobody plays it and nothing is being done with it
LetGoOf(a) == ~Missing(a) /\ NotAway(a) /\ \A s \in unsaid : a \notin Parties(s)
\* deleteAccount, once the account is let go: its file is removed, or all of it in one transaction
TakesDown(a) ==
  /\ LetGoOf(a) /\ leaving[a] = "no" /\ Deed /\ people' = [people EXCEPT ![a].name = NoName, ![a].exp = 0]
  /\ IF keeping = "file"
     THEN leaving' = [leaving EXCEPT ![a] = "waits"] /\ UNCHANGED <<boardVars, sales, spoilt>>
     ELSE /\ boards' = [boards EXCEPT ![a] = NoStanding] /\ runLog' = RunsWithout(a) /\ sales' = NamelessIn(a, sales)
          /\ spoilt' = [spoilt EXCEPT !.boards = @ \ {a}, !.names = @ \ {a}] /\ UNCHANGED leaving
  /\ UNCHANGED <<keeping, away, chain, appended, owedNames, salesRead, salesTemp, unsaid, sold>>
Leaving(a, from, to) == leaving[a] = from /\ leaving' = [leaving EXCEPT ![a] = to]
\* forgetAccountRuns: once no run is being recorded, in its turn
ForgetWaited(a) ==
  /\ Leaving(a, "waits", "turn") /\ Archives = {} /\ chain' = Append(chain, [kind |-> "forget", of |-> a])
  /\ UNCHANGED <<keeping, accountVars, boardVars, appended, owedNames, salesVars, spoilt, countVars>>
\* Mutant of ForgetTurn: the history keeps its runs
ForgetBoards ==
  /\ chain # <<>> /\ Head(chain).kind = "forget" /\ Took(1) /\ Leaving(Head(chain).of, "turn", "sales")
  /\ boards' = [boards EXCEPT ![Head(chain).of] = NoStanding]
  /\ spoilt' = [spoilt EXCEPT !.boards = @ \ {Head(chain).of}, !.names = @ \ {Head(chain).of}]
  /\ UNCHANGED <<keeping, accountVars, runLog, appended, owedNames, salesVars, countVars>>
ForgetTurn ==
  /\ chain # <<>> /\ Head(chain).kind = "forget" /\ Took(1) /\ Leaving(Head(chain).of, "turn", "sales")
  /\ boards' = [boards EXCEPT ![Head(chain).of] = NoStanding] /\ runLog' = RunsWithout(Head(chain).of)
  /\ spoilt' = [spoilt EXCEPT !.boards = @ \ {Head(chain).of}, !.names = @ \ {Head(chain).of}]
  /\ UNCHANGED <<keeping, accountVars, appended, owedNames, salesVars, countVars>>
\* anonymiseSales: the file is read, a temporary one of the process's name is written, and takes its place
SalesAreRead(a) ==
  /\ Leaving(a, "sales", "sales read") /\ salesRead' = [salesRead EXCEPT ![a] = NamelessIn(a, sales)]
  /\ spoilt' = [spoilt EXCEPT !.sales = @ \/ Rereads # {}]
  /\ UNCHANGED <<keeping, accountVars, boardVars, chain, appended, owedNames, sales, salesTemp, unsaid, sold, countVars>>
SalesAreWritten(a) ==
  /\ Leaving(a, "sales read", "sales written") /\ salesTemp' = salesRead[a] /\ salesRead' = [salesRead EXCEPT ![a] = <<>>]
  /\ UNCHANGED <<keeping, accountVars, boardVars, chain, appended, owedNames, sales, unsaid, sold, spoilt, countVars>>
\* One whose temporary file another renamed away fails, with nothing left to do
SalesAreReplaced(a) ==
  /\ Leaving(a, "sales written", "no") /\ (sales' = salesTemp \/ (spoilt.sales /\ UNCHANGED sales))
  /\ salesTemp' = IF \E b \in Ids \ {a} : leaving[b] = "sales written" THEN salesTemp ELSE <<>>
  /\ UNCHANGED <<keeping, accountVars, boardVars, chain, appended, owedNames, salesRead, unsaid, sold, spoilt, countVars>>

\* createNewAccount: the id after the highest there is, in the turn of the names and the ids
SignsUp(a, n) ==
  /\ a = 1 + Max(Everyone \cup {0}) /\ people[a].life < MaxLives /\ Deed /\ \A b \in Ids : people[b].name # n
  /\ people' = [people EXCEPT ![a] = [name |-> n, exp |-> 0, life |-> @.life + 1]]
  /\ UNCHANGED <<keeping, away, boardVars, chain, appended, owedNames, leaving, salesVars, spoilt>>

-----------------------------------------------------------------------------

\* offer of seedStandings, with files: only what is more than what stands there ...
Offered(row, p) == IF HigherBeats(p.exp, row) THEN [value |-> p.exp, name |-> p.name, life |-> p.life] ELSE row
\* ... and seedStanding of PostgreSQL, which takes the name either way
SeedStanding(row, p) == IF row = NoLine THEN Offered(row, p) ELSE [Offered(row, p) EXCEPT !.name = p.name, !.life = p.life]
\* seedStandings, at every start, of the accounts that have something to offer
Seeded(a) ==
  IF people[a].exp = 0 THEN boards[a]
  ELSE [boards[a] EXCEPT !.best = IF keeping = "file" THEN Offered(@, people[a]) ELSE SeedStanding(@, people[a])]
\* The server ends wherever it is, and starts: what was under way is lost
Restarts ==
  /\ Fault
  /\ away' = [a \in Ids |-> NotThere] /\ chain' = <<>> /\ appended' = FALSE /\ owedNames' = <<>>
  /\ leaving' = [a \in Ids |-> "no"] /\ salesRead' = [a \in Ids |-> <<>>] /\ unsaid' = {} /\ salesTemp' = <<>>
  /\ boards' = [a \in Ids |-> Seeded(a)]
  /\ spoilt' = [boards |-> spoilt.boards \cup {chain[i].of : i \in {j \in DOMAIN chain : appended /\ j = 1}} \cup {a \in Ids : leaving[a] # "no"}
                             \cup {a \in Ids : ~NotAway(a)},
                names |-> spoilt.names \cup {r.of : r \in ToSet(owedNames)} \cup {chain[i].of : i \in DOMAIN chain},
                sales |-> spoilt.sales \/ unsaid # {} \/ \E a \in Ids : leaving[a] # "no"]
  /\ UNCHANGED <<keeping, people, runLog, sales, sold>>

StandingNext ==
  \/ \E a \in Ids : \/ Entering(a) \/ AccountLetGo(a) \/ TakesDown(a) \/ ForgetWaited(a)
                    \/ SalesAreRead(a) \/ SalesAreWritten(a) \/ SalesAreReplaced(a)
                    \/ \E won \in BOOLEAN : RunRecorded(a, won)
                    \/ \E n \in PlayerNames : Renames(a, n) \/ SignsUp(a, n)
  \/ \E i \in DOMAIN chain : RecordCommits(i)
  \/ RecordAppends \/ RecordWrites \/ RecordFails
  \/ RenameWaited \/ RenameTurn \/ RenameStandings
  \/ \E a, b \in Ids : Sells(a, b)
  \/ \E s \in unsaid : SaleRecorded(s)
  \/ ForgetTurn \/ Restarts
StandingSpec == StandingInit /\ [][StandingNext]_standingVars

-----------------------------------------------------------------------------

StandingTypeOK ==
  /\ \A a \in Ids : people[a].name \in PlayerNames \cup {NoName} /\ people[a].exp \in Nat /\ people[a].life \in 1..MaxLives
  /\ \A a \in Ids : boards[a].clears.value \in Nat /\ boards[a].best.value \in Nat
  /\ \A i \in DOMAIN chain : chain[i].kind \in {"record", "rename", "forget"}
  /\ \A a \in Ids : leaving[a] \in {"no", "waits", "turn", "sales", "sales read", "sales written"}

WinsOf(a) == Cardinality({run \in runLog : run.of = a /\ run.won})
Pending(a) == /\ appended => Head(chain).of # a
              /\ \A i \in DOMAIN chain : chain[i].of # a
              /\ \A i \in DOMAIN owedNames : owedNames[i].of # a

\* The boards say what the history says (leaderboard.js "one fold over the same run records"): as many
\* clears as it has won runs, no less than the best of its runs and no more than the account holds,
\* unless a write was cut short between the two.
BoardsAreTheLog ==
  \A a \in Ids \ spoilt.boards :
    /\ ~(appended /\ Head(chain).of = a) => boards[a].clears.value = WinsOf(a)
    /\ \A run \in runLog : run.of = a /\ ~(appended /\ Head(chain) = run) => run.exp <= boards[a].best.value
    /\ ~Missing(a) /\ NotAway(a) /\ leaving[a] = "no" => boards[a].best.value <= people[a].exp

\* renameInStandings: "every standing of the account carries the name it has now", once nothing is left
\* to be written of it: unless a crash came between, or a transaction of a run came after the rename.
NamesAreCurrent ==
  \A a \in Everyone \ (spoilt.names \cup spoilt.boards) : Pending(a) /\ leaving[a] = "no" =>
    \A row \in {boards[a].clears, boards[a].best} : row = NoLine \/ row.name = people[a].name

\* A deletion leaves no standing, no run and no name, and whoever is given the id inherits nothing: unless
\* a crash came in its middle, or a transaction of a run after it (account-deletion.js).
DeletedAreForgotten ==
  \A a \in Ids \ spoilt.boards : Pending(a) /\ leaving[a] = "no" =>
    /\ \A row \in {boards[a].clears, boards[a].best} : row = NoLine \/ (~Missing(a) /\ row.life = people[a].life)
    /\ \A run \in runLog : run.of = a => ~Missing(a) /\ run.life = people[a].life

\* "The sales stay": every sale is in the history, without the names of those who were deleted, unless a
\* sale was recorded while the file was being replaced, or two deletions replaced it (anonymiseSales).
SalesStay ==
  spoilt.sales \/
    /\ Cardinality({sales[i].no : i \in DOMAIN sales} \cup {s.no : s \in unsaid}) = sold
    /\ \A i \in DOMAIN sales, a \in Ids : Missing(a) /\ leaving[a] = "no" =>
         /\ sales[i].seller = a => sales[i].soldBy = NoName
         /\ sales[i].buyer = a => sales[i].boughtBy = NoName

\* Does not hold: anonymiseSales puts back what it read, without the sale that was appended since.
SalesAreNeverLost ==
  crashes = 0 => Cardinality({sales[i].no : i \in DOMAIN sales} \cup {s.no : s \in unsaid}) = sold
=============================================================================
