--------------------------- MODULE Administration ---------------------------
(***************************************************************************)
(* What admins and the server do to the accounts of others (internal.js):  *)
(* ranks, restrictions and the ladder of sanctions, grants, names, the     *)
(* doors of the dungeons, and the market list that follows (market.js).    *)
(*                                                                         *)
(* A request is allowed by what its actor was when his account was read,   *)
(* and does what it does later.  An operation on an account that a worker  *)
(* holds is sent there, and refused when the account has come back since.  *)
(***************************************************************************)
EXTENDS Integers, FiniteSets

CONSTANTS People,             \* accounts
          Labels, NoLabel,    \* names, and what an account that was not registered has
          Requests,
          Ladder,             \* ladderHours: how long the sanction of each step is
          DecayTime, ListTime, Strikes,   \* DECAY_MS; BROWSE_CACHE_MS; SESSION_STRIKES_PER_TERMINATION
          TopLevel,
          Beginnings,         \* bound: ranks and names to begin with, and what meets (desk)
          MaxTime, MaxAsked, MaxVisits, MaxReads    \* bounds

ASSUME AdministrationAssumption ==
  /\ NoLabel \notin Labels
  /\ \A b \in Beginnings :
       /\ \E a \in People : b.rank[a] = 2
       /\ \A a, o \in People : /\ b.label[a] = NoLabel => b.rank[a] = 0
                             /\ b.label[a] = b.label[o] => a = o \/ b.label[a] = NoLabel
  /\ Ladder \in [DOMAIN Ladder -> Nat] /\ {DecayTime, Strikes, TopLevel} \subseteq Nat \ {0}
  /\ {ListTime, MaxTime, MaxAsked, MaxVisits, MaxReads} \subseteq Nat

VARIABLES
  desk,       \* bound: the kinds of requests and of other steps that meet one another
  rank, bar, sheet, heroes, label,   \* accounts: the rank, the restriction, the sanctions, level and points, the name
  holder,     \* by account, the thread that holds it
  place,      \* by account, where its session is
  violations, \* of the session: securityStrikes
  requests,   \* calls of the internal interface, and sanctions under way
  naming,     \* allocationChain: the request whose turn it is
  closedBy,   \* maintenanceState
  listed, reading,    \* browseCache, and a list that is being read
  hour, wanted, visits, reads,
  overlapped,    \* a rank was changed by who had lost his own since he was allowed
  waived,     \* accounts whose restriction an admin changed after the last sanction
  ordered,    \* by account, how long an admin restricted it last
  slipped,    \* accounts that were let in while a sanction of theirs was on its way
  written, unwritten    \* admin-actions: whom an admin restricted; those whose line could not be written

accountPart == <<desk, rank, bar, sheet, heroes, label>>
boundPart == <<hour, wanted, visits, reads>>
ghostPart == <<overlapped, waived, ordered, slipped, written, unwritten>>
adminVars == <<accountPart, holder, place, violations, requests, naming, closedBy, listed, reading, boundPart, ghostPart>>

Player == 0  Helper == 1  Admin == 2
ServerActor == "server"
Forever == MaxTime + 1 + Ladder[Cardinality(DOMAIN Ladder)]
NoBar == [until |-> 0, by |-> ServerActor]
NoRequest == [kind |-> "none", actor |-> ServerActor, target |-> ServerActor, arg |-> 0, at |-> "free"]
NoList == [rows |-> {}, at |-> 0, late |-> {}]
NotReading == [on |-> FALSE, todo |-> {}, found |-> {}]
Main == "main"
Worker == "worker"
Here(a) == label[a] # NoLabel
\* restrictionOf
Restricted(a) == bar[a].until > hour

AdminInit ==
  /\ \E b \in Beginnings : desk = b.desk /\ rank = b.rank /\ label = b.label
  /\ bar = [a \in People |-> NoBar] /\ sheet = [a \in People |-> [step |-> 0, until |-> 0]]
  /\ heroes = [a \in People |-> [level |-> 1, spent |-> 0]]
  /\ holder = [a \in People |-> Main] /\ place = [a \in People |-> "out"] /\ violations = [a \in People |-> 0]
  /\ requests = [c \in Requests |-> NoRequest] /\ naming = {} /\ closedBy = {}
  /\ listed = NoList /\ reading = NotReading
  /\ hour = 0 /\ wanted = 0 /\ visits = 0 /\ reads = 0
  /\ overlapped = FALSE /\ waived = {} /\ ordered = [a \in People |-> 0] /\ slipped = {} /\ written = {} /\ unwritten = {}

-----------------------------------------------------------------------------
(* Players come and go.                                                    *)

Visits == visits < MaxVisits /\ visits' = visits + 1 /\ UNCHANGED <<hour, wanted, reads>>
NotListed == UNCHANGED <<listed, reading>>
LogsOn(a) ==
  /\ "play" \in desk /\ Here(a) /\ place[a] = "out" /\ holder[a] = Main /\ Visits
  /\ place' = [place EXCEPT ![a] = "town"] /\ violations' = [violations EXCEPT ![a] = 0]
  /\ UNCHANGED <<accountPart, holder, requests, naming, closedBy, ghostPart>> /\ NotListed
SanctionOf(a) == \E c \in Requests : requests[c].kind = "sanction" /\ requests[c].target = a
\* dungeonsClosedBecause
DoorsAreOpen == closedBy = {}
\* admitEntry: the doors, and the restriction of the account as it is read
Admitted(a) ==
  /\ place[a] = "town" /\ holder[a] = Main /\ DoorsAreOpen /\ ~Restricted(a)
  /\ place' = [place EXCEPT ![a] = "admitted"] /\ slipped' = IF SanctionOf(a) THEN slipped \cup {a} ELSE slipped \ {a}
  /\ UNCHANGED <<accountPart, holder, violations, requests, naming, closedBy, boundPart, overlapped, waived, ordered, written, unwritten>> /\ NotListed
\* The account is held for the run, by a worker if there is one
ComesIn(a, by) ==
  /\ place[a] = "admitted" /\ holder[a] = Main
  /\ place' = [place EXCEPT ![a] = "dungeon"] /\ holder' = [holder EXCEPT ![a] = by]
  /\ UNCHANGED <<accountPart, violations, requests, naming, closedBy, boundPart, ghostPart>> /\ NotListed
\* A session ends, and what holds the account lets go of it once it is saved
LogsOff(a) ==
  /\ place[a] # "out" /\ place' = [place EXCEPT ![a] = "out"]
  /\ UNCHANGED <<accountPart, holder, violations, requests, naming, closedBy, boundPart, ghostPart>> /\ NotListed
HandsBack(a) ==
  /\ holder[a] = Worker /\ place[a] # "dungeon" /\ holder' = [holder EXCEPT ![a] = Main]
  /\ UNCHANGED <<accountPart, place, violations, requests, naming, closedBy, boundPart, ghostPart>> /\ NotListed
\* noteViolation of a rule that ends a session and is sanctioned: the strikes are the session's own
Violates(a) ==
  /\ "sanction" \in desk /\ place[a] = "dungeon"
  /\ IF violations[a] + 1 < Strikes
     THEN /\ violations' = [violations EXCEPT ![a] = @ + 1] /\ UNCHANGED <<place, requests>>
     ELSE \E c \in Requests :
            /\ requests[c] = NoRequest
            /\ requests' = [requests EXCEPT ![c] = [@ EXCEPT !.kind = "sanction", !.target = a, !.at = "allowed"]]
            /\ place' = [place EXCEPT ![a] = "out"] /\ UNCHANGED violations
  /\ UNCHANGED <<accountPart, holder, naming, closedBy, boundPart, ghostPart>> /\ NotListed

\* statPointsEarned
Earned(level) == level - 1
\* updateAvatarSlots: no less than is spent, no more than is earned
Trains(a) ==
  /\ "grant" \in desk /\ place[a] = "town" /\ heroes[a].spent < Earned(heroes[a].level)
  /\ heroes' = [heroes EXCEPT ![a].spent = @ + 1]
  /\ UNCHANGED <<desk, rank, bar, sheet, label, holder, place, violations, requests, naming, closedBy, boundPart, ghostPart>> /\ NotListed
TimePasses ==
  /\ "time" \in desk /\ hour < MaxTime /\ hour' = hour + 1
  /\ UNCHANGED <<accountPart, holder, place, violations, requests, naming, closedBy, wanted, visits, reads, ghostPart>> /\ NotListed

-----------------------------------------------------------------------------
(* Requests.                                                               *)

At(c, kind, at) == requests[c].kind = kind /\ requests[c].at = at
Turns(c, at) == requests' = [requests EXCEPT ![c] = IF at = "free" THEN NoRequest ELSE [@ EXCEPT !.at = at]]
\* isAdmin: of the account as it is stored
IsAdmin(a) == rank[a] >= Admin
\* Mutant of NotOneself: an admin may change his own rank
ReallyAnybody(actor, a) == Here(a)
NotOneself(actor, a) == actor # a /\ Here(a)
Wanted ==
  [restrict |-> {hour + 1, Forever}, lift |-> {0}, role |-> {Player, Helper, Admin}, grant |-> 1..TopLevel,
   rename |-> Labels, close |-> {0}, open |-> {0}, disconnect |-> {0}]
\* actingAdmin: the account of the actor is read, and what it was then is what counts
IsAllowed(c, kind, actor, target, arg) ==
  /\ requests[c] = NoRequest /\ wanted < MaxAsked /\ wanted' = wanted + 1 /\ kind \in desk
  /\ Here(actor) /\ IsAdmin(actor) /\ Here(target) /\ (kind = "role" => NotOneself(actor, target))
  /\ requests' = [requests EXCEPT ![c] = [kind |-> kind, actor |-> actor, target |-> target, arg |-> arg, at |-> "allowed"]]
  /\ UNCHANGED <<accountPart, holder, place, violations, naming, closedBy, hour, visits, reads, ghostPart>> /\ NotListed
\* registerAccount: the website's own
AsksToRegister(c, a, n) ==
  /\ requests[c] = NoRequest /\ wanted < MaxAsked /\ wanted' = wanted + 1 /\ "register" \in desk /\ ~Here(a)
  /\ requests' = [requests EXCEPT ![c] = [NoRequest EXCEPT !.kind = "register", !.target = a, !.arg = n, !.at = "allowed"]]
  /\ UNCHANGED <<accountPart, holder, place, violations, naming, closedBy, hour, visits, reads, ghostPart>> /\ NotListed

\* decay: a step less for each time without another
Decayed(s) ==
  LET clean == IF s.step = 0 \/ hour < s.until THEN 0 ELSE (hour - s.until) \div DecayTime
  IN IF clean > s.step THEN 0 ELSE s.step - clean
\* escalate
Escalated(s) ==
  LET step == IF Decayed(s) + 1 \in DOMAIN Ladder THEN Decayed(s) + 1 ELSE Decayed(s)
  IN [step |-> step, until |-> hour + Ladder[step]]
\* Mutant of Outlasts: what is in force gives way
NothingOutlasts(b, s) == FALSE
Outlasts(b, s) == b.until > hour /\ b.until >= s.until
\* setAccountRole
GivesRank(r) ==
  /\ rank' = [rank EXCEPT ![r.target] = r.arg] /\ UNCHANGED <<bar, sheet, waived, ordered>>
  /\ overlapped' = (overlapped \/ ~IsAdmin(r.actor))
\* setRestriction, sanctionAccount, setAccountRole: under the lock of the account
Operates(r) ==
  LET a == r.target  s == Escalated(sheet[a]) IN
  \/ /\ r.kind = "restrict" /\ bar' = [bar EXCEPT ![a] = [until |-> r.arg, by |-> r.actor]]
     /\ waived' = waived \cup {a} /\ ordered' = [ordered EXCEPT ![a] = r.arg] /\ UNCHANGED <<rank, sheet, overlapped>>
  \/ /\ r.kind = "lift" /\ bar' = [bar EXCEPT ![a] = NoBar]
     /\ waived' = waived \cup {a} /\ ordered' = [ordered EXCEPT ![a] = 0] /\ UNCHANGED <<rank, sheet, overlapped>>
  \/ /\ r.kind = "sanction" /\ sheet' = [sheet EXCEPT ![a] = s] /\ waived' = waived \ {a} /\ UNCHANGED <<rank, overlapped, ordered>>
     /\ bar' = IF Outlasts(bar[a], s) THEN bar ELSE [bar EXCEPT ![a] = [until |-> s.until, by |-> ServerActor]]
  \/ r.kind = "role" /\ GivesRank(r)
OperationKinds == {"restrict", "lift", "sanction", "role"}
\* runAccountOperation: here, or where the account is
OperatesHere(c) ==
  /\ requests[c].kind \in OperationKinds /\ requests[c].at = "allowed" /\ holder[requests[c].target] = Main
  /\ Operates(requests[c]) /\ Turns(c, "done")
  /\ UNCHANGED <<desk, heroes, label, holder, place, violations, naming, closedBy, boundPart, slipped, written, unwritten>> /\ NotListed
IsSent(c) ==
  /\ requests[c].kind \in OperationKinds /\ requests[c].at = "allowed" /\ holder[requests[c].target] = Worker
  /\ Turns(c, "sent")
  /\ UNCHANGED <<accountPart, holder, place, violations, naming, closedBy, boundPart, ghostPart>> /\ NotListed
OperatesThere(c) ==
  /\ requests[c].at = "sent" /\ holder[requests[c].target] = Worker
  /\ Operates(requests[c]) /\ Turns(c, "done")
  /\ UNCHANGED <<desk, heroes, label, holder, place, violations, naming, closedBy, boundPart, slipped, written, unwritten>> /\ NotListed
\* Sent, and the account came back: it is refused there, and not tried again
IsTooLate(c) ==
  /\ requests[c].at = "sent" /\ holder[requests[c].target] = Main /\ Turns(c, "free")
  /\ UNCHANGED <<accountPart, holder, place, violations, naming, closedBy, boundPart, ghostPart>> /\ NotListed

\* applyGrant, under the lock of an account nobody plays: a level that is lowered gives the points back
\* Mutant of WithLevel: the points stay where they were put
PointsStay(h, level) == [h EXCEPT !.level = level]
WithLevel(h, level) == [level |-> level, spent |-> IF h.spent > Earned(level) THEN 0 ELSE h.spent]
Grants(c) ==
  LET a == requests[c].target IN
  /\ At(c, "grant", "allowed") /\ place[a] = "out" /\ holder[a] = Main
  /\ heroes' = [heroes EXCEPT ![a] = WithLevel(@, requests[c].arg)] /\ Turns(c, "done")
  /\ UNCHANGED <<desk, rank, bar, sheet, label, holder, place, violations, naming, closedBy, boundPart, ghostPart>> /\ NotListed
\* "the player is online: disconnect them first", and whatever cannot be done
IsRefused(c) ==
  LET a == requests[c].target IN
  /\ \/ At(c, "grant", "allowed") /\ (place[a] # "out" \/ holder[a] # Main)
     \/ At(c, "rename", "allowed") /\ place[a] # "out"
     \/ At(c, "rename", "looked") /\ holder[a] # Main
     \/ requests[c].kind \in {"rename", "register"} /\ requests[c].at = "allowed" /\ \E b \in People \ {a} : label[b] = requests[c].arg
  /\ Turns(c, "free") /\ naming' = naming \ {c}
  /\ UNCHANGED <<accountPart, holder, place, violations, closedBy, boundPart, ghostPart>> /\ NotListed

\* Mutant of NamesTurn: names are looked for whenever they are asked for
AnyTurn(c) == TRUE
NamesTurn(c) == naming = {}
\* createNewAccount, renameAccount: in their turn, who has the name is looked for ...
NameIsFree(c) ==
  /\ requests[c].kind \in {"rename", "register"} /\ requests[c].at = "allowed" /\ NamesTurn(c)
  /\ \A b \in People \ {requests[c].target} : label[b] # requests[c].arg
  /\ naming' = naming \cup {c} /\ Turns(c, "looked")
  /\ UNCHANGED <<accountPart, holder, place, violations, closedBy, boundPart, ghostPart>> /\ NotListed
\* ... and the account is saved with it, which a rename does under the lock
NameIsSaved(c) ==
  LET a == requests[c].target IN
  /\ requests[c].kind \in {"rename", "register"} /\ requests[c].at = "looked" /\ holder[a] = Main
  /\ label' = [label EXCEPT ![a] = requests[c].arg] /\ naming' = naming \ {c}
  /\ Turns(c, IF requests[c].kind = "rename" THEN "done" ELSE "free")
  /\ UNCHANGED <<desk, rank, bar, sheet, heroes, holder, place, violations, closedBy, boundPart, ghostPart>> /\ NotListed
\* closeDungeons, openDungeons, disconnectAccount
Orders(c) ==
  /\ requests[c].at = "allowed"
  /\ \/ requests[c].kind = "close" /\ closedBy' = {requests[c].actor} /\ UNCHANGED place
     \/ requests[c].kind = "open" /\ closedBy' = {} /\ UNCHANGED place
     \/ requests[c].kind = "disconnect" /\ place' = [place EXCEPT ![requests[c].target] = "out"] /\ UNCHANGED closedBy
  /\ Turns(c, "done")
  /\ UNCHANGED <<accountPart, holder, violations, naming, boundPart, ghostPart>> /\ NotListed

\* Mutant of Relisted: the list that is kept is still good
StillListed == listed
Relisted == NoList
\* invalidateMarketBrowse, of what is not seen or not called so any more
ListIsForgotten(c) ==
  /\ requests[c].at = "done" /\ requests[c].kind \in {"restrict", "lift", "rename"}
  /\ listed' = Relisted /\ Turns(c, "listed")
  /\ UNCHANGED <<accountPart, holder, place, violations, naming, closedBy, reading, boundPart, ghostPart>>
\* Mutant of LineOf: who did it to whom, the wrong way round
SwappedLine(r) == <<r.target, r.actor>>
LineOf(r) == <<r.actor, r.target>>
\* Mutant of ClosedFor: a session that is on its way into a dungeon is not closed
DungeonsClosedFor(r) == [place EXCEPT ![r.target] = IF r.kind = "restrict" /\ @ = "dungeon" THEN "out" ELSE @]
ClosedFor(r) == [place EXCEPT ![r.target] = IF r.kind = "restrict" THEN "out" ELSE @]
\* recordAdminAction, which fails without a word to who asked; and a restricted player is disconnected
IsWritten(c) ==
  LET r == requests[c] IN
  /\ \/ r.at = "listed"
     \/ r.at = "done" /\ r.kind \notin {"restrict", "lift", "rename"}
  /\ \/ r.kind = "restrict" /\ written' = written \cup {LineOf(r)} /\ UNCHANGED unwritten
     \/ r.kind = "restrict" /\ unwritten' = unwritten \cup {r.target} /\ UNCHANGED written
     \/ r.kind # "restrict" /\ UNCHANGED <<written, unwritten>>
  /\ place' = (IF r.kind = "sanction" THEN place ELSE ClosedFor(r)) /\ Turns(c, "free")
  /\ UNCHANGED <<accountPart, holder, violations, naming, closedBy, boundPart, overlapped, waived, ordered, slipped>> /\ NotListed

-----------------------------------------------------------------------------
(* The list of what is on the market: a listing of everybody's.            *)

Browse == UNCHANGED <<accountPart, holder, place, violations, requests, naming, closedBy, ghostPart>>
\* browseAll, when what it keeps is too old
ListBegins ==
  /\ "browse" \in desk /\ ~reading.on /\ (listed = NoList \/ hour >= listed.at + ListTime) /\ reads < MaxReads /\ reads' = reads + 1
  /\ reading' = [on |-> TRUE, todo |-> {a \in People : Here(a)}, found |-> {}]
  /\ Browse /\ UNCHANGED <<listed, hour, wanted, visits>>
ListReads(a) ==
  /\ a \in reading.todo
  /\ reading' = [reading EXCEPT !.todo = @ \ {a}, !.found = IF Restricted(a) THEN @ ELSE @ \cup {a}]
  /\ Browse /\ UNCHANGED <<listed, boundPart>>
\* What was restricted while it was read is on it all the same
ListIsKept ==
  /\ reading.on /\ reading.todo = {} /\ reading' = NotReading
  /\ listed' = [rows |-> reading.found, at |-> hour, late |-> {a \in reading.found : Restricted(a)}]
  /\ Browse /\ UNCHANGED boundPart

AdminNext ==
  \/ \E a \in People : \/ LogsOn(a) \/ Admitted(a) \/ LogsOff(a) \/ HandsBack(a) \/ Violates(a) \/ Trains(a)
                       \/ ListReads(a) \/ \E by \in {Main, Worker} : ComesIn(a, by)
  \/ TimePasses
  \/ \E c \in Requests, actor, target \in People, kind \in DOMAIN Wanted : \E arg \in Wanted[kind] : IsAllowed(c, kind, actor, target, arg)
  \/ \E c \in Requests, a \in People, n \in Labels : AsksToRegister(c, a, n)
  \/ \E c \in Requests : \/ OperatesHere(c) \/ IsSent(c) \/ OperatesThere(c) \/ IsTooLate(c)
                         \/ Grants(c) \/ IsRefused(c) \/ NameIsFree(c) \/ NameIsSaved(c) \/ Orders(c)
                         \/ ListIsForgotten(c) \/ IsWritten(c)
  \/ ListBegins \/ ListIsKept
AdminSpec == AdminInit /\ [][AdminNext]_adminVars

-----------------------------------------------------------------------------

AdminTypeOK ==
  /\ rank \in [People -> Player..Admin] /\ label \in [People -> Labels \cup {NoLabel}]
  /\ \A a \in People : /\ bar[a].until \in 0..Forever /\ bar[a].by \in People \cup {ServerActor}
                        /\ sheet[a].step \in {0} \cup DOMAIN Ladder /\ heroes[a].level \in 1..TopLevel
  /\ holder \in [People -> {Main, Worker}] /\ place \in [People -> {"out", "town", "admitted", "dungeon"}]
  /\ violations \in [People -> 0..(Strikes - 1)] /\ closedBy \subseteq People /\ naming \subseteq Requests
  /\ \A c \in Requests : requests[c].at \in {"free", "allowed", "sent", "looked", "done", "listed"}

Restricting(a) == \E c \in Requests : requests[c].kind = "restrict" /\ requests[c].target = a /\ requests[c].at \in {"done", "listed"}

\* "an admin cannot change their own rank": somebody is an admin, unless two admins took the rank of one
\* another (internal.js giveRole; what an actor was is read before the operation).
SomebodyIsAdmin == overlapped \/ \E a \in People : IsAdmin(a)

\* What the ladder gives is served, and ends no restriction of an admin's before its time: only an admin's
\* word shortens either (restrictions.js sanctionAccount).
SanctionsAreServed == \A a \in People : bar[a].until >= ordered[a] /\ (a \in waived \/ bar[a].until >= sheet[a].until)

\* Who is restricted is in no dungeon and on no way into one once it is done, but for a sanction that was
\* on its way when he was let in again (internal.js restrictAccount, match-entry.js).
RestrictedAreOut ==
  \A a \in People : Restricted(a) /\ place[a] \in {"admitted", "dungeon"} => Restricting(a) \/ a \in slipped \/ SanctionOf(a)

\* No two accounts have one name (account-names.js: by the turn of names and ids).
NamesAreUnique == \A a, b \in People : Here(a) /\ label[a] = label[b] => a = b

\* No hero has more points spent than earned, whatever level an admin gives him (grants.js, rpc-handlers.js).
PointsAreEarned == \A a \in People : heroes[a].spent <= Earned(heroes[a].level)

\* Who restricted an account is written, once his request is through or the writing failed.
AuthorsAreKnown ==
  \A a \in People : bar[a].by \in People => <<bar[a].by, a>> \in written \/ a \in unwritten \/ Restricting(a)

\* What admins have restricted is not on the market, once it is done, but on a list that was being read
\* meanwhile, or whose time is not over (market.js browseAll, invalidateMarketBrowse).
RestrictedAreNotListed ==
  \A a \in listed.rows : Restricted(a) /\ bar[a].by \in People => a \in listed.late \/ Restricting(a)
=============================================================================
