----------------------------- MODULE ModeEntries -----------------------------
(***************************************************************************)
(* Entries: the game modes a player asks for (modes/one-life, modes/delve, *)
(* modes/friend-door.js), armed by a command that reaches the main thread  *)
(* as a message (seat.js), spent by the next entry through the chained     *)
(* hooks (hooks.js), and what a delve keeps of the players in it; and, in  *)
(* the second part, whether an account may enter what it asks for.         *)
(*                                                                         *)
(* A delve is a run of one boss after another; `since` is the depth a      *)
(* player is paid from.  A player leaves a run by walking out, by falling  *)
(* with the party, or dropped.                                             *)
(***************************************************************************)
EXTENDS Naturals, Sequences, FiniteSets

CONSTANTS Delvers,     \* players
          MaxRuns,     \* bound: delves
          MaxDepth,    \* bound: bosses of one
          MaxCommands, \* bound: commands typed
          MaxEntries   \* bound: entries asked for

ASSUME ModeAssumption == {MaxRuns, MaxDepth, MaxCommands, MaxEntries} \subseteq Nat

VARIABLES
  armed,    \* mode -> the players whose next entry is in it
  mail,     \* commands on their way to the main thread
  inside,   \* player -> what they play, in which delve, and whether their hero has stood there
  delves,   \* the delves: their state, as it travels on the floor plan
  runOf,    \* player -> the delve noted as their hero stood on a floor
  records,  \* the records kept
  paid,     \* the gifts: who, which delve, which boss, for how many bosses fought
  spent,    \* player -> commands heard less entries made by them
  fights,   \* player -> the bosses beaten while they stood in the delve, since they last walked in
  was,      \* the players who have stood in a delve, and those dropped out of one
  commands, entries

modeVars == <<armed, mail, inside, delves, runOf, records, paid, spent, fights, was, commands, entries>>
tallies == <<records, paid, fights, was>>

InTown == [mode |-> "town", run |-> 0, stood |-> FALSE]
NewDelve == [depth |-> 1, since |-> [p \in Delvers |-> 0], kept |-> {}, over |-> FALSE]

ModeInit ==
  /\ armed = [onelife |-> {}, delve |-> {}] /\ mail = <<>>
  /\ inside = [p \in Delvers |-> InTown] /\ delves = <<>>
  /\ runOf = [p \in Delvers |-> 0] /\ records = <<>> /\ paid = {}
  /\ spent = [p \in Delvers |-> 0] /\ fights = [p \in Delvers |-> {}]
  /\ was = [stood |-> {}, dropped |-> {}] /\ commands = 0 /\ entries = 0

-----------------------------------------------------------------------------
(* Commands and entries.                                                   *)

\* /onelife, /delve, and their off
Commands(p, mode, on) ==
  /\ commands < MaxCommands /\ commands' = commands + 1
  /\ mail' = Append(mail, [who |-> p, mode |-> mode, on |-> on])
  /\ UNCHANGED <<armed, inside, delves, runOf, tallies, spent, entries>>

\* arm, on the main thread
Hears ==
  /\ mail # <<>> /\ mail' = Tail(mail)
  /\ LET told == Head(mail) IN
     /\ armed' = [armed EXCEPT ![told.mode] = IF told.on THEN @ \cup {told.who} ELSE @ \ {told.who}]
     /\ spent' = [spent EXCEPT ![told.who] = IF told.on THEN @ + 1 ELSE @]
  /\ UNCHANGED <<inside, delves, runOf, tallies, commands, entries>>

\* The entry is the player's own, on the map: nobody's run is joined
OwnEntry(kind) == kind = "own"
\* routeEntry: the hooks in the order their modes started; a mode's mark ends the chain
Routed(p, kind) ==
  IF OwnEntry(kind) /\ p \in armed.onelife THEN "onelife"
  ELSE IF kind = "door" \/ (OwnEntry(kind) /\ p \in armed.delve) THEN "delve" ELSE "none"

\* Mutant of Disarmed: an armed entry leaves the arming
StaysArmed(p, kind) == armed
\* ... and an arming that marked the entry is used up, whatever becomes of it
Disarmed(p, kind) ==
  LET mode == Routed(p, kind) IN
  IF mode = "none" \/ kind = "door" THEN armed ELSE [armed EXCEPT ![mode] = @ \ {p}]

Unfinished == {r \in DOMAIN delves : ~delves[r].over}

\* requestEntry: routed first; then refused, or admitted into a new run, or into one that is open
Enters(p, kind) ==
  /\ entries < MaxEntries /\ entries' = entries + 1
  /\ LET mode == Routed(p, kind) IN
     /\ armed' = Disarmed(p, kind)
     /\ spent' = [spent EXCEPT ![p] = IF mode # "none" /\ kind # "door" THEN @ - 1 ELSE @]
     /\ \/ UNCHANGED <<inside, delves>>
        \/ /\ inside[p].mode = "town"
           /\ \/ /\ mode # "delve" /\ kind = "own" /\ UNCHANGED delves
                 /\ inside' = [inside EXCEPT ![p].mode = IF mode = "none" THEN "ordinary" ELSE mode]
              \/ /\ mode = "delve" /\ Len(delves) < MaxRuns /\ delves' = Append(delves, NewDelve)
                 /\ inside' = [inside EXCEPT ![p] = [mode |-> "delve", run |-> Len(delves) + 1, stood |-> FALSE]]
              \* a friend's run keeps its own mode, whatever the request says
              \/ /\ mode = "delve" \/ kind = "friend"
                 /\ \E r \in Unfinished :
                      /\ \E q \in Delvers : inside[q].run = r
                      /\ inside' = [inside EXCEPT ![p] = [mode |-> "delve", run |-> r, stood |-> FALSE]]
                 /\ UNCHANGED delves
  /\ UNCHANGED <<mail, runOf, tallies, commands>>

-----------------------------------------------------------------------------
(* A delve.                                                                *)

\* heroRequested: on every floor, for each who stands on it
HeroStands(p) ==
  /\ inside[p].mode = "delve"
  /\ LET r == inside[p].run IN
     /\ ~delves[r].over /\ (~inside[p].stood \/ runOf[p] = 0)
     /\ runOf' = [runOf EXCEPT ![p] = IF @ = 0 THEN r ELSE @]
     /\ delves' = [delves EXCEPT ![r].since[p] = IF @ = 0 THEN delves[r].depth ELSE @]
  /\ inside' = [inside EXCEPT ![p].stood = TRUE]
  /\ was' = [was EXCEPT !.stood = @ \cup {<<p, inside[p].run>>}]
  /\ UNCHANGED <<armed, mail, records, paid, spent, fights, commands, entries>>

Party(r) == {p \in Delvers : inside[p].run = r}
\* Mutant of Fought: the boss just beaten is not counted for whoever came in for it
FoughtBefore(r, p) == IF delves[r].since[p] = 0 THEN 0 ELSE delves[r].depth - delves[r].since[p]
\* The bosses of the run a player has fought, with the one just beaten
Fought(r, p) == IF delves[r].since[p] = 0 THEN 0 ELSE delves[r].depth - delves[r].since[p] + 1

\* floorCompleting on the boss's last map: the next boss is planned, those who fought are paid
BossFalls(r) ==
  /\ r \in Unfinished /\ delves[r].depth <= MaxDepth /\ \E p \in Party(r) : inside[p].stood
  /\ delves' = [delves EXCEPT ![r].depth = @ + 1]
  /\ paid' = paid \cup {[who |-> p, run |-> r, boss |-> delves[r].depth, fought |-> Fought(r, p)] :
                          p \in {q \in Party(r) : Fought(r, q) > 0}}
  /\ fights' = [p \in Delvers |-> IF p \in Party(r) /\ inside[p].stood THEN fights[p] \cup {delves[r].depth}
                                  ELSE fights[p]]
  /\ UNCHANGED <<armed, mail, inside, runOf, records, spent, was, commands, entries>>

\* Mutant of KeptNow: a record each time
KeptAgain(r, who) == who
\* Once a run, each
KeptNow(r, who) == who \ delves[r].kept

RECURSIVE Records(_, _)
Records(r, who) ==
  IF who = {} THEN <<>>
  ELSE LET p == CHOOSE q \in who : TRUE
       IN <<[who |-> p, run |-> r, beaten |-> delves[r].depth - 1]>> \o Records(r, who \ {p})

\* keep: recorded once; who walked out is paid from their return
KeepsDelves(r, who, forget, over) ==
  /\ records' = records \o Records(r, KeptNow(r, who))
  /\ delves' = [delves EXCEPT ![r].kept = @ \cup who, ![r].over = @ \/ over,
                  ![r].since = [p \in Delvers |-> IF p \in who /\ forget THEN 0 ELSE @[p]]]
  /\ runOf' = [p \in Delvers |-> IF p \in who THEN 0 ELSE runOf[p]]

\* runFailed, for the party, and the run is over
PartyFalls(r) ==
  /\ r \in Unfinished /\ Party(r) # {} /\ KeepsDelves(r, Party(r), TRUE, TRUE)
  /\ UNCHANGED <<armed, mail, inside, paid, spent, fights, was, commands, entries>>

\* runLeft. Whoever never stood on a floor is not found, and leaves no record
LeavesRun(p, how) ==
  /\ inside[p].mode # "town" /\ inside' = [inside EXCEPT ![p] = InTown]
  /\ LET r == runOf[p] IN
     IF r = 0 THEN UNCHANGED <<delves, records, runOf>> ELSE KeepsDelves(r, {p}, how = "left", FALSE)
  /\ fights' = [fights EXCEPT ![p] = IF how = "left" THEN {} ELSE @]
  /\ was' = [was EXCEPT !.dropped = IF how = "dropped" THEN @ \cup {p} ELSE @]
  /\ UNCHANGED <<armed, mail, paid, spent, commands, entries>>

ModeNext ==
  \/ Hears
  \/ \E p \in Delvers :
       \/ \E mode \in {"onelife", "delve"}, on \in BOOLEAN : Commands(p, mode, on)
       \/ \E kind \in {"own", "friend", "door"} : Enters(p, kind)
       \/ HeroStands(p) \/ \E how \in {"left", "dropped"} : LeavesRun(p, how)
  \/ \E r \in DOMAIN delves : BossFalls(r) \/ PartyFalls(r)
ModeSpec == ModeInit /\ [][ModeNext]_modeVars

-----------------------------------------------------------------------------
(* Properties.                                                             *)

ModeTypeOK ==
  /\ \A m \in {"onelife", "delve"} : armed[m] \subseteq Delvers
  /\ \A p \in Delvers : /\ inside[p].run \in 0..Len(delves) /\ runOf[p] \in 0..Len(delves)
                        /\ inside[p].mode \in {"town", "ordinary", "onelife", "delve"}

\* An arming is for one entry of the player's own: a command marks at most one, and nobody plays
\* one life without having asked.
ArmingsAreSpentOnce == \A p \in Delvers : spent[p] >= 0

\* Who fought is paid as having fought: for as many of the run's bosses as fell while they stood
\* in it, and for more only where a dropped player came back to it. Nobody is paid a boss twice.
PaidAsFought ==
  \A g \in paid :
    /\ g.fought >= 1 /\ g.fought <= g.boss
    /\ \A h \in paid : (h.who = g.who /\ h.run = g.run /\ h.boss = g.boss) => h = g
FightsCount ==
  \A p \in Delvers \ was.dropped :
    inside[p].mode = "delve" /\ runOf[p] = inside[p].run =>
      \A g \in paid : (g.who = p /\ g.run = runOf[p] /\ g.boss \in fights[p]) =>
        g.fought = Cardinality({b \in fights[p] : b <= g.boss})

\* Everybody who stood in a delve and is out of it is recorded in it, once.
DelvesAreRecordedOnce ==
  /\ \A i, j \in DOMAIN records : (records[i].who = records[j].who /\ records[i].run = records[j].run) => i = j
  /\ \A p \in Delvers, r \in DOMAIN delves :
       <<p, r>> \in was.stood /\ runOf[p] # r =>
         \E i \in DOMAIN records : records[i].who = p /\ records[i].run = r

\* A record says how deep the player went: as many bosses as were beaten when they last left.
RecordsSayHowDeep ==
  \A i \in DOMAIN records :
    \A g \in paid : g.who = records[i].who /\ g.run = records[i].run => g.boss <= records[i].beaten

-----------------------------------------------------------------------------
(* Whether one account may enter what it asks for: match-entry.js, over    *)
(* the registry's decision (matches.js) and the check of the held account  *)
(* (dungeon.js, heldAvatarOrRelease).                                      *)
(*                                                                         *)
(* The admission reads, awaits and reads again.  Meanwhile the player may  *)
(* switch heroes, the friend named may move to another run, the friendship *)
(* may end, a sanction may fall and the run may go on or end.              *)

CONSTANTS Nodes, Hard,   \* the nodes; those a new hero has not opened
          Ultimate,      \* those that close after floor one
          NoNode,
          MaxMoves       \* bound: what happens to the account, the friend and the run

ASSUME AdmissionAssumption ==
  /\ Hard \subseteq Nodes /\ Ultimate \subseteq Nodes /\ NoNode \notin Nodes /\ MaxMoves \in Nat

VARIABLES
  hero,      \* the account's active hero
  friends, restricted,
  run,       \* the friend's run: its node, whether past its first floor, whether it takes members
  entry,     \* the admission under way
  moves

admissionVars == <<hero, friends, restricted, run, entry, moves>>

HeroKinds == {"veteran", "novice"}
NoRun == [node |-> NoNode, deep |-> FALSE, open |-> FALSE]
NoEntry == [at |-> "idle", how |-> "none", node |-> NoNode, hero |-> "none", was |-> NoRun,
            known |-> FALSE]

\* activeAvatarMayEnter, and the hub, which is not Hard
MayEnterNode(h, n) == h = "veteran" \/ n \notin Hard

AdmissionTypeOK ==
  /\ hero \in HeroKinds /\ {friends, restricted} \subseteq BOOLEAN /\ run.node \in Nodes \cup {NoNode}
  /\ entry.at \in {"idle", "target", "account", "reserved", "in"}

AdmissionInit ==
  /\ hero = "novice" /\ friends \in BOOLEAN /\ restricted = FALSE
  /\ run = NoRun /\ entry = NoEntry /\ moves = 0

\* admitEntry: the target is read first; without one an explicit entry is refused at once
AsksFor(how, n) ==
  /\ entry.at = "idle"
  /\ how = "friend" => run.node # NoNode
  /\ entry' = [NoEntry EXCEPT !.at = "target", !.how = how, !.node = n, !.was = run]
  /\ UNCHANGED <<hero, friends, restricted, run, moves>>

RefusesEntry == entry' = NoEntry /\ UNCHANGED <<hero, friends, restricted, run, moves>>

\* loadAccount, then isRestricted
LoadsEntryAccount ==
  /\ entry.at = "target"
  /\ IF restricted THEN RefusesEntry
     ELSE /\ entry' = [entry EXCEPT !.at = "account", !.hero = hero]
          /\ UNCHANGED <<hero, friends, restricted, run, moves>>

\* Mutant of KnownThere: a friend's run is open to everybody
AnybodyThere == TRUE
\* hasFriendThere
KnownThere == entry.how = "public" \/ friends

\* registry.inspect resolves the friend again, and asks the run whether it can be joined
Reserves ==
  /\ entry.at = "account"
  /\ LET asked == IF entry.how = "friend" THEN entry.was.node ELSE entry.node
         to    == IF entry.how = "friend" THEN run.node ELSE entry.node
     IN IF KnownThere /\ MayEnterNode(entry.hero, asked)
           /\ (entry.how = "friend" =>
                /\ run.node # NoNode /\ run.open
                /\ ~(asked \in Ultimate /\ run.node = asked /\ run.deep))
        THEN /\ entry' = [entry EXCEPT !.at = "reserved", !.node = to, !.known = friends]
             /\ UNCHANGED <<hero, friends, restricted, run, moves>>
        ELSE RefusesEntry

\* Mutant of RequireMayEnter: the admission's word is taken
AlreadyAdmitted == TRUE
\* requireMayEnter, of the account the run holds and the match it is in
RequireMayEnter == MayEnterNode(hero, entry.node)

HoldsAccount ==
  /\ entry.at = "reserved"
  /\ IF RequireMayEnter
     THEN /\ entry' = [entry EXCEPT !.at = "in", !.hero = hero]
          /\ UNCHANGED <<hero, friends, restricted, run, moves>>
     ELSE RefusesEntry

LeavesRunAgain == entry.at = "in" /\ RefusesEntry

\* Another request or thread, at any moment; a hero that is playing is not switched
Moved == moves < MaxMoves /\ moves' = moves + 1
HeroIsSwitched ==
  /\ Moved /\ entry.at # "in"
  /\ hero' \in HeroKinds \ {hero} /\ UNCHANGED <<friends, restricted, run, entry>>
FriendMoves ==
  /\ Moved
  /\ \/ \E n \in Nodes \ {run.node} : run' = [node |-> n, deep |-> FALSE, open |-> TRUE]
     \/ run.node # NoNode /\ run' \in {[run EXCEPT !.deep = TRUE], [run EXCEPT !.open = FALSE], NoRun}
  /\ UNCHANGED <<hero, friends, restricted, entry>>
FriendshipChanges ==
  Moved /\ friends' = ~friends /\ UNCHANGED <<hero, restricted, run, entry>>
SanctionFalls ==
  Moved /\ restricted' = ~restricted /\ UNCHANGED <<hero, friends, run, entry>>

AdmissionStep == LoadsEntryAccount \/ Reserves \/ HoldsAccount
AdmissionNext ==
  \/ \E n \in Nodes : AsksFor("public", n)
  \/ AsksFor("friend", NoNode)
  \/ AdmissionStep \/ LeavesRunAgain
  \/ HeroIsSwitched \/ FriendMoves \/ FriendshipChanges \/ SanctionFalls

AdmissionSpec == AdmissionInit /\ [][AdmissionNext]_admissionVars

-----------------------------------------------------------------------------
\* Nobody plays what the hero played has not opened, or by a stranger's run: the answers of
\* the admission were given about an earlier hero, and about the run the friend was in then.
OnlyOpenedIsEntered ==
  entry.at = "in" =>
    /\ MayEnterNode(entry.hero, entry.node)
    /\ entry.how = "friend" => entry.known
=============================================================================
