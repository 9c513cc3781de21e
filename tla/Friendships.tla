---------------------------- MODULE Friendships ----------------------------
(***************************************************************************)
(* Friends: what two accounts say of one another (social.js and the friend *)
(* requests of rpc-handlers.js), who is online and where (presence.js),    *)
(* and what a connection that follows its friends has been told of them.   *)
(*                                                                         *)
(* A friendship changes under the locks of both accounts; a connection     *)
(* reads them without, one account after the other, and starts to follow   *)
(* who was a friend both ways.  Its packets, the login among them, are     *)
(* handled one at a time.                                                  *)
(***************************************************************************)
EXTENDS Integers, FiniteSets

CONSTANTS Players,                 \* accounts
          Connections,             \* numbered as they log in
          Unnamed,                 \* the account of a connection that has not logged in
          MaxWatched,              \* MAX_WATCHED
          MaxFriendEvents, MaxTears     \* bounds: deeds, wishes to follow and moves; saves that are torn

ASSUME FriendshipsAssumption == Unnamed \notin Players /\ Connections \subseteq Nat /\ {MaxWatched, MaxFriendEvents, MaxTears} \subseteq Nat

VARIABLES
  friends, ignored, requests, \* as they are stored, by account: those it lists, those it blocks, those who ask it
  owed,     \* changes that are saved and not yet told: under the locks of both
  halfSaved,     \* pairs of which one account was written and the other was not
  online,   \* by account, where it is
  roll,     \* sessions: the connections that are logged in
  conns,
  friendEvents

friendVars == <<friends, ignored, requests, owed, halfSaved, online, roll, conns, friendEvents>>
storedVars == <<friends, ignored, requests, owed, halfSaved>>

Away == "away"
Town == "town"
Dungeons == {"dungeon"}
SessionIdle == [kind |-> "idle", asked |-> {}, listed |-> {}, todo |-> {}, found |-> {}, stale |-> {}, missed |-> {}]
NewConn == [account |-> Unnamed, stage |-> "new", panel |-> FALSE, watched |-> {},
            shown |-> [o \in Players |-> Away], task |-> SessionIdle, late |-> {}]

FriendInit ==
  /\ friends \in {[a \in Players |-> {}], [a \in Players |-> Players \ {a}]}
  /\ ignored = [a \in Players |-> {}] /\ requests = [a \in Players |-> {}]
  /\ owed = {} /\ halfSaved = {}
  /\ online = [a \in Players |-> Away] /\ roll = {} /\ conns = [c \in Connections |-> NewConn]
  /\ friendEvents = 0

PeopleAct == friendEvents < MaxFriendEvents /\ friendEvents' = friendEvents + 1

-----------------------------------------------------------------------------
(* What two accounts say of one another.                                   *)

Blocked2(a, b) == b \in ignored[a] \/ a \in ignored[b]
AreFriends(a, b) == b \in friends[a] /\ a \in friends[b] /\ ~Blocked2(a, b)
\* withTwoAccountLocks: nothing else is done with an account of a change that is still to be told
Locked(a) == \E o \in owed : a \in o.between
Deed(a, b) == a # b /\ ~Locked(a) /\ ~Locked(b) /\ PeopleAct

\* What is stored once the accounts of `written` are
Stored(written, f, i, r) ==
  /\ friends' = [x \in Players |-> IF x \in written THEN f[x] ELSE friends[x]]
  /\ ignored' = [x \in Players |-> IF x \in written THEN i[x] ELSE ignored[x]]
  /\ requests' = [x \in Players |-> IF x \in written THEN r[x] ELSE requests[x]]
\* saveAccounts of those that changed, and what is owed then besides; a failure may come between two of them
Saves(touched, f, i, r, owes) ==
  \/ Stored(touched, f, i, r) /\ owed' = owed \cup owes /\ UNCHANGED halfSaved
  \/ \E x \in touched : /\ touched # {x} /\ Cardinality(halfSaved) < MaxTears
                        /\ Stored({x}, f, i, r) /\ halfSaved' = halfSaved \cup {touched} /\ UNCHANGED owed

Added(a, b) == [friends EXCEPT ![a] = @ \cup {b}, ![b] = @ \cup {a}]
Dropped(a, b) == [friends EXCEPT ![a] = @ \ {b}, ![b] = @ \ {a}]
Touched(f, a, b) == {x \in {a, b} : f[x] # friends[x]}
Owes(a, b, made) == {[between |-> {a, b}, made |-> made]}
\* befriend, as a takes the request of b off its own: an account that lists the other already is not written
Befriends(a, b) ==
  LET f == Added(a, b)
      r == [requests EXCEPT ![a] = @ \ {b}]
      touched == Touched(f, a, b)
  IN IF touched # {} THEN Saves(touched, f, ignored, r, Owes(a, b, TRUE))
     ELSE Saves({a}, f, ignored, r, {})

\* DRFriendRequest: who is asked back becomes a friend
AsksToBeFriends(a, b) ==
  /\ Deed(a, b) /\ b \notin friends[a] /\ ~Blocked2(a, b) /\ a \notin requests[b]
  /\ IF b \in requests[a] THEN Befriends(a, b)
     ELSE Saves({b}, friends, ignored, [requests EXCEPT ![b] = @ \cup {a}], {})
  /\ UNCHANGED <<online, roll, conns>>
\* DRFriendRequestUpdate
AnswersRequest(a, b, accepts) ==
  /\ Deed(a, b) /\ b \in requests[a]
  /\ IF accepts /\ ~Blocked2(a, b) THEN Befriends(a, b)
     ELSE Saves({a}, friends, ignored, [requests EXCEPT ![a] = @ \ {b}], {})
  /\ UNCHANGED <<online, roll, conns>>
\* DRFriendRemove, unfriend
Unfriends(a, b) ==
  /\ Deed(a, b) /\ b \in friends[a]
  /\ LET f == Dropped(a, b) IN Saves(Touched(f, a, b), f, ignored, requests, Owes(a, b, FALSE))
  /\ UNCHANGED <<online, roll, conns>>
\* Mutant of WithoutRequests: only its own are dropped
WithoutOwn(a, b) == [requests EXCEPT ![a] = @ \ {b}]
WithoutRequests(a, b) == [requests EXCEPT ![a] = @ \ {b}, ![b] = @ \ {a}]
\* IgnoreFriend, ignore: a block ends the friendship, and the requests between them
Ignores(a, b) ==
  LET f == Dropped(a, b)
      i == [ignored EXCEPT ![a] = @ \cup {b}]
      r == WithoutRequests(a, b)
      touched == {x \in {a, b} : f[x] # friends[x] \/ i[x] # ignored[x] \/ r[x] # requests[x]}
  IN /\ Deed(a, b) /\ touched # {}
     /\ Saves(touched, f, i, r, IF f # friends THEN Owes(a, b, FALSE) ELSE {})
     /\ UNCHANGED <<online, roll, conns>>
\* UnblockFriend, unignore: under its own lock
Unblocks(a, b) ==
  /\ ~Locked(a) /\ b \in ignored[a] /\ PeopleAct
  /\ ignored' = [ignored EXCEPT ![a] = @ \ {b}]
  /\ UNCHANGED <<friends, requests, owed, halfSaved, online, roll, conns>>

-----------------------------------------------------------------------------
(* What a connection has been told.                                        *)

\* friendState, of those it follows, once it has somewhere to show it
Told(k, o, where) == IF k.panel /\ o \in k.watched THEN [k EXCEPT !.shown[o] = where[o]] ELSE k
Follows(k, some, where) ==
  [k EXCEPT !.watched = @ \cup some,
            !.shown = [o \in Players |-> IF o \in some /\ k.panel THEN where[o] ELSE @[o]]]
\* As many of them as there is room for: the first that come
HasRoom(k, some) == {s \in SUBSET some : /\ Cardinality(k.watched \cup s) <= MaxWatched \/ s \subseteq k.watched
                                         /\ s = some \/ Cardinality(k.watched \cup s) >= MaxWatched}

\* friendshipChanged, for one connection of an account of the pair
Hears(k, o, made) ==
  LET settled == [k EXCEPT !.task.stale = IF k.task.kind = "ask" /\ o \in k.task.asked THEN @ \cup {o} ELSE @,
                           !.task.missed = IF k.task.kind = "login" /\ ~made THEN @ \cup {o} ELSE @ \ {o},
                           !.late = @ \ {o}]
  IN IF made THEN Follows(settled, {o}, online)
     ELSE [settled EXCEPT !.watched = @ \ {o}, !.shown[o] = IF k.panel /\ o \in k.watched THEN Away ELSE @]
OtherOf(pair, a) == CHOOSE o \in pair : o # a
FriendshipChanged(p) ==
  /\ owed' = owed \ {p}
  /\ conns' = [c \in Connections |-> IF c \in roll /\ conns[c].account \in p.between
                                     THEN Hears(conns[c], OtherOf(p.between, conns[c].account), p.made) ELSE conns[c]]
  /\ UNCHANGED <<friends, ignored, requests, halfSaved, online, roll, friendEvents>>

\* tellWatchers, of an account that is now somewhere else, by those who are on the roll
TellWatchers(ks, a, where, on) == [c \in Connections |-> IF c \in on THEN Told(ks[c], a, where) ELSE ks[c]]
\* closeSession: what it follows is of no more use, and what is still read for it is dropped
ClosedOf(k) == [NewConn EXCEPT !.account = k.account, !.stage = "closed"]
HoldersOf(a) == {c \in roll : conns[c].account = a}
\* handleLogin: another connection of the account is displaced once this one is on the roll
LogsIn(c, a) ==
  LET where == [online EXCEPT ![a] = Town]
      k == [conns[c] EXCEPT !.account = a, !.stage = "in", !.task = [SessionIdle EXCEPT !.kind = "loading"]]
  IN /\ conns[c].stage = "new" /\ (\A d \in Connections : d < c => conns[d].stage # "new") /\ online' = where
     /\ roll' = (roll \ HoldersOf(a)) \cup {c}
     /\ conns' = [d \in Connections |-> IF d \in HoldersOf(a) THEN ClosedOf(conns[d])
                                        ELSE TellWatchers([conns EXCEPT ![c] = k], a, where, roll \cup {c})[d]]
     /\ UNCHANGED <<storedVars, friendEvents>>
\* leavePresence, by whatever ends the connection: again by its close handler, which has nothing left to say
Leaves(c) ==
  LET a == conns[c].account
      where == IF c \in roll THEN [online EXCEPT ![a] = Away] ELSE online
  IN /\ conns[c].stage = "in"
     /\ roll' = roll \ {c} /\ online' = where
     /\ conns' = TellWatchers([conns EXCEPT ![c] = ClosedOf(conns[c])], a, where, IF c \in roll THEN roll \ {c} ELSE {})
     /\ UNCHANGED <<storedVars, friendEvents>>
\* Mutant of StillOnRoll: whoever has an account may say where it is
HasAccount(c) == conns[c].account # Unnamed
StillOnRoll(c) == c \in roll
\* setPresenceLocation, by an entry, a floor, a return: the world of a connection that is closed says it too
Moves(c, to) ==
  /\ conns[c].account # Unnamed /\ PeopleAct
  /\ LET a == conns[c].account
         where == [online EXCEPT ![a] = to]
     IN /\ StillOnRoll(c) /\ online[a] # to
        /\ online' = where /\ conns' = TellWatchers(conns, a, where, roll)
  /\ UNCHANGED <<storedVars, roll>>
\* reassertAll: those who are online, once more
Reasserts ==
  /\ conns' = [c \in Connections |-> IF c \in roll
       THEN [conns[c] EXCEPT !.shown = [o \in Players |-> IF conns[c].panel /\ o \in conns[c].watched /\ online[o] # Away
                                                         THEN online[o] ELSE @[o]]]
       ELSE conns[c]]
  /\ UNCHANGED <<storedVars, online, roll, friendEvents>>

-----------------------------------------------------------------------------
(* Whom a connection follows.                                              *)

With(c, k) == conns' = [conns EXCEPT ![c] = k] /\ UNCHANGED <<storedVars, online, roll>>
\* The PresenceManager object, once the game data is read
GetsPanel(c) ==
  /\ conns[c].task.kind = "loading" /\ UNCHANGED friendEvents
  /\ With(c, [conns[c] EXCEPT !.panel = TRUE, !.task = [SessionIdle EXCEPT !.kind = "login", !.todo = {"own"}]])
\* handleAddFriends
AsksAfter(c, some) ==
  /\ conns[c].stage = "in" /\ conns[c].panel /\ conns[c].task = SessionIdle
  /\ PeopleAct /\ some # {}
  /\ With(c, [conns[c] EXCEPT !.task = [SessionIdle EXCEPT !.kind = "ask", !.asked = some, !.todo = {"own"}]])
\* followableAmong: its own account first, as it is found then, and one after the other those it lists
ReadsOwn(c) ==
  LET k == conns[c]
      a == k.account
      listed == friends[a] \ ignored[a]
      todo == IF k.task.kind = "login" THEN friends[a] ELSE friends[a] \cap k.task.asked
  IN /\ k.task.todo = {"own"} /\ UNCHANGED friendEvents
     /\ With(c, [k EXCEPT !.task.listed = listed, !.task.todo = todo])
ReadsOther(c, o) ==
  LET k == conns[c]  a == k.account IN
  /\ o \in k.task.todo /\ UNCHANGED friendEvents
  /\ With(c, [k EXCEPT !.task.todo = @ \ {o},
                       !.task.found = IF o \in k.task.listed /\ a \in friends[o] \ ignored[o] THEN @ \cup {o} ELSE @])
\* A read that fails: nobody is followed
ReadFails(c) ==
  /\ conns[c].task.kind \in {"login", "ask"} /\ conns[c].task.todo # {} /\ UNCHANGED friendEvents
  /\ With(c, [conns[c] EXCEPT !.task = SessionIdle])
\* Mutant of Current: whoever was found
AllFound(t) == t.found
\* Those of an answer whose friendship has not changed since it was asked for: a login looks at no revision
StillFriends(t) == IF t.kind = "ask" THEN t.found \ t.stale ELSE t.found
\* watchFriends, admitWatched
Watches(c) ==
  LET k == conns[c]
      done == [k EXCEPT !.task = SessionIdle]
  IN /\ k.task.kind \in {"login", "ask"} /\ k.task.todo = {} /\ UNCHANGED friendEvents
     /\ \E some \in HasRoom(k, StillFriends(k.task)) :
          With(c, [Follows(done, some, online) EXCEPT !.late = @ \cup (some \cap k.task.missed)])

FriendNext ==
  \/ \E a, b \in Players : \/ AsksToBeFriends(a, b) \/ \E accepts \in BOOLEAN : AnswersRequest(a, b, accepts)
                           \/ Unfriends(a, b) \/ Ignores(a, b) \/ Unblocks(a, b)
  \/ \E p \in owed : FriendshipChanged(p)
  \/ \E c \in Connections, a \in Players : LogsIn(c, a)
  \/ \E c \in Connections : Leaves(c) \/ (\E to \in {Town} \cup Dungeons : Moves(c, to))
  \/ Reasserts
  \/ \E c \in Connections : GetsPanel(c) \/ ReadsOwn(c) \/ ReadFails(c) \/ Watches(c)
  \/ \E c \in Connections, some \in SUBSET Players : conns[c].account \notin some /\ AsksAfter(c, some)
  \/ \E c \in Connections, o \in Players : ReadsOther(c, o)
FriendSpec == FriendInit /\ [][FriendNext]_friendVars

-----------------------------------------------------------------------------

FriendTypeOK ==
  /\ {friends, ignored, requests} \subseteq [Players -> SUBSET Players]
  /\ owed \subseteq [between : SUBSET Players, made : BOOLEAN] /\ halfSaved \subseteq SUBSET Players
  /\ online \in [Players -> {Away, Town} \cup Dungeons] /\ roll \subseteq Connections
  /\ \A c \in Connections : /\ conns[c].account \in Players \cup {Unnamed} /\ conns[c].stage \in {"new", "in", "closed"}
                            /\ conns[c].watched \subseteq Players /\ conns[c].shown \in [Players -> {Away, Town} \cup Dungeons]
                            /\ conns[c].task.kind \in {"idle", "loading", "login", "ask"}

\* A friendship is both accounts', no block or request stands beside it, and a block lets no request
\* stand: unless the two were torn as they were saved (social.js befriend, unfriend, ignore).
FriendshipsAreMutual ==
  \A a, b \in Players : {a, b} \notin halfSaved =>
    /\ b \in friends[a] <=> a \in friends[b]
    /\ b \in friends[a] => ~Blocked2(a, b) /\ b \notin requests[a]
    /\ Blocked2(a, b) => b \notin requests[a]

\* "An ex-friend is not told where you are": whom a connection follows is a friend both ways, but for a
\* change that is still to be told or was torn, and for a friendship that ended while a login was
\* reading, which asks for no revision (presence.js handleAddFriends, friendshipChanged).
OnlyFriendsAreFollowed ==
  \A c \in roll : \A o \in conns[c].watched :
    \/ AreFriends(conns[c].account, o)
    \/ {conns[c].account, o} \in halfSaved \cup {p.between : p \in owed}
    \/ o \in conns[c].late

\* An account is online as long as one connection holds it, wherever the worlds of others say it is; and
\* nobody is shown where he is not, or to those who do not follow him (presence.js).
PanelsTellTheTruth ==
  /\ \A a \in Players : Cardinality(HoldersOf(a)) = IF online[a] = Away THEN 0 ELSE 1
  /\ \A c \in roll, o \in Players :
       conns[c].shown[o] # Away => o \in conns[c].watched /\ conns[c].shown[o] = online[o]

\* Does not hold: tellHimAboutHisFriends follows whom it read as friends, however that ended meanwhile.
NobodyFollowsAFormerFriend == \A c \in roll : conns[c].late = {}
=============================================================================
