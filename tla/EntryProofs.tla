------------------------------ MODULE EntryProofs ------------------------------
(***************************************************************************)
(* What DungeonEntry's runs check, for any connections, accounts, workers  *)
(* and matches.  The inductive invariant is EntryInv: beside the registry  *)
(* it says of each connection what may be on its way about its run, in the *)
(* channels and in the worker - never more than one join, one leave and    *)
(* one answer, of the run the connection is routed to.  ClientInv adds     *)
(* what the client holds and was told, from which DungeonEntry implements  *)
(* SessionPhases for every connection.                                     *)
(***************************************************************************)
EXTENDS DungeonEntry, SequenceTheorems, TLAPS

USE EntryAssumption

-----------------------------------------------------------------------------
(* Channels: what is said of a connection's runs.                          *)

Kinds == {"join", "leave", "left", "answer"}
\* r says no more of connection c than q does.
Kept(q, r, c) ==
  /\ \A i \in DOMAIN r : Kind(r[i]) \in Kinds /\ r[i].who = c => \E j \in DOMAIN q : q[j] = r[i]
  /\ \A k \in Kinds, g \in Nat : Once(q, k, c, g) => Once(r, k, c, g)
  /\ \A g \in Nat : JoinsFirst(q, c, g) => JoinsFirst(r, c, g)

LEMMA KeptSays ==
  ASSUME NEW q, NEW r, NEW c, Kept(q, r, c), NEW k \in Kinds, NEW g
  PROVE  Says(r, k, c, g) => Says(q, k, c, g)
BY DEF Kept, Says, About

LEMMA KeptItself == ASSUME NEW q, NEW c PROVE Kept(q, q, c)
BY DEF Kept

LEMMA KeptNothing == ASSUME NEW q, NEW c PROVE Kept(q, <<>>, c)
BY DEF Kept, Once, JoinsFirst

\* One more message.
LEMMA SaidMore ==
  ASSUME NEW X, NEW q \in Seq(X), NEW x \in X
  PROVE  LET r == Append(q, x)
         IN  /\ r \in Seq(X)
             /\ \A i \in DOMAIN r : r[i] = x \/ \E j \in DOMAIN q : q[j] = r[i]
             /\ \A k, c, g : Says(r, k, c, g) <=> Says(q, k, c, g) \/ About(x, k, c, g)
             /\ \A k, c, g : Once(q, k, c, g) /\ (About(x, k, c, g) => ~Says(q, k, c, g)) => Once(r, k, c, g)
             /\ \A c, g : JoinsFirst(q, c, g) /\ (About(x, "join", c, g) => ~Says(q, "leave", c, g))
                            => JoinsFirst(r, c, g)
<1> DEFINE r == Append(q, x)
<1>1. /\ r \in Seq(X) /\ Len(r) = Len(q) + 1 /\ r[Len(q) + 1] = x
      /\ \A i \in 1..Len(q) : r[i] = q[i]
  BY AppendProperties
<1>2. DOMAIN q = 1..Len(q) /\ DOMAIN r = 1..(Len(q) + 1) /\ Len(q) \in Nat
  BY <1>1, LenProperties
<1> HIDE DEF r
<1>3. \A i \in DOMAIN r : (i \in DOMAIN q /\ r[i] = q[i]) \/ (i = Len(q) + 1 /\ r[i] = x)
  BY <1>1, <1>2
<1>4. Len(q) + 1 \in DOMAIN r /\ \A i \in DOMAIN q : i \in DOMAIN r /\ r[i] = q[i] /\ i < Len(q) + 1
  BY <1>1, <1>2
<1>5. \A k, c, g : Says(r, k, c, g) <=> Says(q, k, c, g) \/ About(x, k, c, g)
  BY <1>1, <1>3, <1>4 DEF Says
<1>6. \A k, c, g : Once(q, k, c, g) /\ (About(x, k, c, g) => ~Says(q, k, c, g)) => Once(r, k, c, g)
  BY <1>3 DEF Says, Once
<1>7. ASSUME NEW c, NEW g, JoinsFirst(q, c, g), About(x, "join", c, g) => ~Says(q, "leave", c, g)
      PROVE  JoinsFirst(r, c, g)
  <2> SUFFICES ASSUME NEW i \in DOMAIN r, NEW j \in DOMAIN r, About(r[i], "join", c, g), About(r[j], "leave", c, g)
               PROVE  i < j
    BY DEF JoinsFirst
  <2>1. CASE j \in DOMAIN q /\ r[j] = q[j]
    <3>1. ~About(x, "join", c, g) BY <1>7, <2>1 DEF Says
    <3> QED BY <1>3, <1>7, <2>1, <3>1 DEF JoinsFirst
  <2>2. CASE j = Len(q) + 1 /\ r[j] = x
    <3>1. r[i] # x BY <2>2 DEF About
    <3> QED BY <1>3, <1>4, <2>2, <3>1
  <2> QED BY <1>3, <2>1, <2>2
<1> QED BY <1>1, <1>3, <1>5, <1>6, <1>7 DEF r

\* The first message heard.
LEMMA SaidFirst ==
  ASSUME NEW X, NEW q \in Seq(X), q # <<>>
  PROVE  LET r == Tail(q)
             x == Head(q)
         IN  /\ r \in Seq(X) /\ x \in X /\ \E i \in DOMAIN q : q[i] = x
             /\ \A i \in DOMAIN r : \E j \in DOMAIN q : q[j] = r[i]
             /\ \A c : Kept(q, r, c)
             /\ \A k, c, g : About(x, k, c, g) => Says(q, k, c, g)
             /\ \A k, c, g : About(x, k, c, g) /\ Once(q, k, c, g) => ~Says(r, k, c, g)
             /\ \A c, g : About(x, "leave", c, g) /\ JoinsFirst(q, c, g) => ~Says(q, "join", c, g)
<1> DEFINE r == Tail(q)
           x == Head(q)
<1>1. /\ r \in Seq(X) /\ x \in X /\ Len(r) = Len(q) - 1 /\ x = q[1]
      /\ \A i \in 1..Len(r) : r[i] = q[i + 1]
  BY HeadTailProperties
<1>2. DOMAIN q = 1..Len(q) /\ DOMAIN r = 1..(Len(q) - 1) /\ Len(q) \in Nat /\ Len(q) >= 1
  BY <1>1, LenProperties, EmptySeq
<1> HIDE DEF r, x
<1>3. 1 \in DOMAIN q /\ \A i \in DOMAIN r : i + 1 \in DOMAIN q /\ r[i] = q[i + 1] /\ i \in Nat /\ i >= 1
  BY <1>1, <1>2
<1>4. \A k, c, g : Once(q, k, c, g) => Once(r, k, c, g) BY <1>3 DEF Once
<1>5. \A c, g : JoinsFirst(q, c, g) => JoinsFirst(r, c, g) BY <1>3 DEF JoinsFirst
<1>6. \A c : Kept(q, r, c) BY <1>3, <1>4, <1>5 DEF Kept
<1>7. \A k, c, g : About(x, k, c, g) => Says(q, k, c, g) BY <1>1, <1>3 DEF Says
<1>8. ASSUME NEW k, NEW c, NEW g, About(x, k, c, g), Once(q, k, c, g), Says(r, k, c, g) PROVE FALSE
  <2>1. PICK i \in DOMAIN r : About(r[i], k, c, g) BY <1>8 DEF Says
  <2>2. i + 1 = 1 BY <1>1, <1>3, <1>8, <2>1 DEF Once
  <2> QED BY <1>3, <2>2
<1>9. ASSUME NEW c, NEW g, About(x, "leave", c, g), JoinsFirst(q, c, g), Says(q, "join", c, g) PROVE FALSE
  <2>1. PICK i \in DOMAIN q : About(q[i], "join", c, g) BY <1>9 DEF Says
  <2>2. i < 1 BY <1>1, <1>3, <1>9, <2>1 DEF JoinsFirst
  <2> QED BY <1>2, <2>2
<1> QED BY <1>1, <1>3, <1>6, <1>7, <1>8, <1>9 DEF r, x

\* What is posted to a worker or by one is no news of anybody it is not about.
LEMMA Posted ==
  ASSUME NEW X, NEW ch \in [Workers -> Seq(X)], NEW w \in Workers, NEW x \in X
  PROVE  LET r == Post(ch, w, x)
         IN  /\ r \in [Workers -> Seq(X)] /\ r[w] = Append(ch[w], x) /\ \A v \in Workers : v # w => r[v] = ch[v]
             /\ \A c : \A v \in Workers : ~(Kind(x) \in Kinds /\ x.who = c) => Kept(ch[v], r[v], c)
<1> DEFINE r == Post(ch, w, x)
<1>1. r[w] = Append(ch[w], x) /\ \A v \in Workers : v # w => r[v] = ch[v] BY DEF Post
<1>2. ch[w] \in Seq(X) OBVIOUS
<1>3. Append(ch[w], x) \in Seq(X) BY <1>2, AppendProperties
<1>4. r \in [Workers -> Seq(X)] BY <1>3 DEF Post
<1> HIDE DEF r
<1>5. ASSUME NEW c, ~(Kind(x) \in Kinds /\ x.who = c) PROVE Kept(ch[w], r[w], c)
  <2>1. \A k \in Kinds : \A g : ~About(x, k, c, g) BY <1>5 DEF About
  <2>2. /\ \A i \in DOMAIN r[w] : r[w][i] = x \/ \E j \in DOMAIN ch[w] : ch[w][j] = r[w][i]
        /\ \A k, g : Once(ch[w], k, c, g) /\ (About(x, k, c, g) => ~Says(ch[w], k, c, g)) => Once(r[w], k, c, g)
        /\ \A g : JoinsFirst(ch[w], c, g) /\ (About(x, "join", c, g) => ~Says(ch[w], "leave", c, g))
                    => JoinsFirst(r[w], c, g)
    BY <1>1, <1>2, SaidMore
  <2> QED BY <1>5, <2>1, <2>2 DEF Kept, Kinds
<1> QED BY <1>1, <1>4, <1>5, KeptItself DEF r

\* Nor is what is heard.
LEMMA Heard ==
  ASSUME NEW X, NEW ch \in [Workers -> Seq(X)], NEW w \in Workers, ch[w] # <<>>
  PROVE  LET r == [ch EXCEPT ![w] = Tail(@)]
         IN  /\ r \in [Workers -> Seq(X)] /\ r[w] = Tail(ch[w]) /\ Head(ch[w]) \in X
             /\ \A v \in Workers : v # w => r[v] = ch[v]
             /\ \A c : \A v \in Workers : Kept(ch[v], r[v], c)
<1> DEFINE r == [ch EXCEPT ![w] = Tail(@)]
<1>1. r[w] = Tail(ch[w]) /\ \A v \in Workers : v # w => r[v] = ch[v] OBVIOUS
<1>2. ch[w] \in Seq(X) OBVIOUS
<1>3. Tail(ch[w]) \in Seq(X) /\ Head(ch[w]) \in X /\ \A c : Kept(ch[w], Tail(ch[w]), c)
  BY <1>2, SaidFirst
<1>4. r \in [Workers -> Seq(X)] BY <1>3
<1> HIDE DEF r
<1>5. \A c : \A v \in Workers : Kept(ch[v], r[v], c) BY <1>1, <1>3, KeptItself
<1> QED BY <1>1, <1>3, <1>4, <1>5 DEF r

-----------------------------------------------------------------------------
(* A connection and its run.                                               *)

Good(c) ==
  /\ NothingIsStray(c) /\ JobFitsRoute(c)
  /\ Routed(c) => gen[c] >= 1 /\ RunEndsOnce(c, route[c].at, gen[c]) /\ EntryIsAnswered(c, route[c].at, gen[c])
\* Nothing new is said of c, and no worker has it who had not.
Shrinks(c) ==
  \A w \in Workers :
    /\ member'[w][c] \in {member[w][c], NoMember}
    /\ Kept(up[w], up'[w], c) /\ Kept(down[w], down'[w], c)
    /\ \A e \in late'[w] : e[1] = c => e \in late[w]

\* A connection that is routed is routed to a worker, for a match.
LEMMA RouteFields ==
  ASSUME NEW r \in Routes
  PROVE  /\ r.at \in Workers \cup {NoWorker} /\ r.to \in MatchIds \cup {NoMatch}
         /\ r.state \in {"none", "joining", "entered", "leaving"}
         /\ r # NoRoute <=> r.at \in Workers
         /\ r # NoRoute <=> r.to \in MatchIds
         /\ r # NoRoute <=> r.state # "none"
<1>1. CASE r = NoRoute BY <1>1 DEF NoRoute
<1>2. CASE r \in [at : Workers, to : MatchIds, state : {"joining", "entered", "leaving"}]
  <2>1. r.at \in Workers /\ r.to \in MatchIds /\ r.state \in {"joining", "entered", "leaving"}
    BY <1>2
  <2>2. r # NoRoute BY <2>1 DEF NoRoute
  <2> QED BY <2>1, <2>2
<1> QED BY <1>1, <1>2 DEF Routes

LEMMA MemberFields ==
  ASSUME NEW m \in Members
  PROVE  /\ m.phase \in {"none", "entering", "shown", "in", "failed"} /\ m.leaving \in {"no", "disables", "dropped"}
         /\ m.gen \in Nat /\ (m.gen = 0 <=> m = NoMember) /\ (m.phase = "none" <=> m = NoMember)
         /\ m = NoMember => m.leaving = "no"
<1>1. CASE m = NoMember BY <1>1 DEF NoMember
<1>2. CASE m \in [gen : Nat \ {0}, to : MatchIds, phase : {"entering", "shown", "in", "failed"},
                  leaving : {"no", "disables", "dropped"}]
  <2>1. /\ m.gen \in Nat \ {0} /\ m.phase \in {"entering", "shown", "in", "failed"}
        /\ m.leaving \in {"no", "disables", "dropped"}
    BY <1>2
  <2>2. m # NoMember BY <2>1 DEF NoMember
  <2> QED BY <2>1, <2>2
<1> QED BY <1>1, <1>2 DEF Members

\* The route of c stays, and stays left once it is.
Follows(c) ==
  /\ route'[c].at = route[c].at /\ route'[c].to = route[c].to
  /\ route[c].state = "leaving" => route'[c].state = "leaving"
\* The entry is over, and its answer has been heard.
IsAnswered(c, w, g) ==
  /\ ~Says(down[w], "join", c, g) /\ ~Entering(w, c) /\ <<c, g>> \notin late[w]
  /\ ~Says(up'[w], "answer", c, g)

\* Where nothing is added, what is said of a run stays so.
LEMMA RunShrinks ==
  ASSUME NEW c \in Conns, NEW w \in Workers, NEW g \in Nat, Shrinks(c), RunEndsOnce(c, w, g), EntryIsAnswered(c, w, g),
         member[w][c] \in Members, Follows(c),
         job[c].phase = "loading" => job'[c].phase = "loading" \/ IsAnswered(c, w, g)
  PROVE  RunEndsOnce(c, w, g)' /\ EntryIsAnswered(c, w, g)'
<1>1. /\ Says(down'[w], "join", c, g) => Says(down[w], "join", c, g)
      /\ Says(down'[w], "leave", c, g) => Says(down[w], "leave", c, g)
      /\ Says(up'[w], "left", c, g) => Says(up[w], "left", c, g)
      /\ Says(up'[w], "answer", c, g) => Says(up[w], "answer", c, g)
  BY KeptSays DEF Shrinks, Kinds
<1>2. /\ Once(down'[w], "join", c, g) /\ Once(down'[w], "leave", c, g) /\ JoinsFirst(down'[w], c, g)
      /\ Once(up'[w], "left", c, g) /\ Once(up'[w], "answer", c, g)
  BY DEF Shrinks, Kept, Kinds, RunEndsOnce, EntryIsAnswered
<1>3. /\ member'[w][c] \in {member[w][c], NoMember}
      /\ <<c, g>> \in late'[w] => <<c, g>> \in late[w]
  BY DEF Shrinks
<1>4. /\ NoMember.leaving = "no" /\ NoMember.phase = "none"
      /\ Entering(w, c)' => Entering(w, c)
  BY <1>3 DEF NoMember, Entering
<1>5. RunEndsOnce(c, w, g)' BY <1>1, <1>2, <1>3, <1>4 DEF RunEndsOnce, Follows
<1>6. EntryIsAnswered(c, w, g)' BY <1>1, <1>2, <1>3, <1>4 DEF EntryIsAnswered, IsAnswered
<1> QED BY <1>5, <1>6

LEMMA StrayShrinks ==
  ASSUME NEW c \in Conns, Shrinks(c), NothingIsStray(c), Follows(c), gen'[c] = gen[c],
         up \in [Workers -> Seq(UpMsg)], down \in [Workers -> Seq(DownMsg)],
         up' \in [Workers -> Seq(UpMsg)], down' \in [Workers -> Seq(DownMsg)]
  PROVE  NothingIsStray(c)'
<1> SUFFICES ASSUME NEW w \in Workers
             PROVE  /\ \A i \in DOMAIN down'[w] : down'[w][i].who = c =>
                         route'[c].at = w /\ gen'[c] = down'[w][i].gen /\ (down'[w][i].op = "join" => down'[w][i].to = route'[c].to)
                    /\ \A i \in DOMAIN up'[w] :
                         /\ up'[w][i].op = "left" /\ up'[w][i].who = c => route'[c].at = w /\ gen'[c] = up'[w][i].gen
                         /\ Kind(up'[w][i]) = "answer" /\ up'[w][i].who = c => up'[w][i].gen <= gen'[c]
                    /\ \A e \in late'[w] : e[1] = c => e[2] <= gen'[c]
                    /\ member'[w][c] # NoMember =>
                         /\ route'[c].at = w /\ gen'[c] = member'[w][c].gen /\ route'[c].to = member'[w][c].to
                         /\ member'[w][c].leaving # "no" => route'[c].state = "leaving"
  BY DEF NothingIsStray, Current
<1>1. \A g : Current(w, c, g) <=> route'[c].at = w /\ gen'[c] = g BY DEF Current, Follows
<1>2. ASSUME NEW i \in DOMAIN down'[w], down'[w][i].who = c
      PROVE  Current(w, c, down'[w][i].gen) /\ (down'[w][i].op = "join" => down'[w][i].to = route[c].to)
  <2>1. down'[w][i] \in DownMsg BY ElementOfSeq
  <2>2. Kind(down'[w][i]) \in Kinds BY <2>1 DEF DownMsg, Kind, Kinds
  <2>3. PICK j \in DOMAIN down[w] : down[w][j] = down'[w][i] BY <1>2, <2>2 DEF Shrinks, Kept
  <2> QED BY <1>2, <2>3 DEF NothingIsStray
<1>3. ASSUME NEW i \in DOMAIN up'[w], up'[w][i].who = c, Kind(up'[w][i]) \in {"left", "answer"}
      PROVE  /\ up'[w][i].op = "left" => Current(w, c, up'[w][i].gen)
             /\ Kind(up'[w][i]) = "answer" => up'[w][i].gen <= gen[c]
  <2>1. PICK j \in DOMAIN up[w] : up[w][j] = up'[w][i] BY <1>3 DEF Shrinks, Kept, Kinds
  <2> QED BY <1>3, <2>1 DEF NothingIsStray
<1>4. \A i \in DOMAIN up'[w] : up'[w][i].op = "left" => Kind(up'[w][i]) = "left" BY DEF Kind
<1>5. \A e \in late'[w] : e[1] = c => e[2] <= gen[c] BY DEF NothingIsStray, Shrinks
<1>6. member'[w][c] # NoMember =>
         /\ Current(w, c, member'[w][c].gen) /\ route[c].to = member'[w][c].to
         /\ member'[w][c].leaving # "no" => route[c].state = "leaving"
  BY DEF NothingIsStray, Shrinks
<1> QED BY <1>1, <1>2, <1>3, <1>4, <1>5, <1>6 DEF Follows

LEMMA GoodShrinks ==
  ASSUME TypeOK, TypeOK', NEW c \in Conns, Good(c), Shrinks(c), Follows(c), gen'[c] = gen[c], JobFitsRoute(c)',
         job[c].phase = "loading" =>
           job'[c].phase = "loading" \/ \A w \in Workers : w = route[c].at => IsAnswered(c, w, gen[c])
  PROVE  Good(c)'
<1>1. NothingIsStray(c)' BY StrayShrinks DEF Good, TypeOK
<1>2. ASSUME Routed(c)'
      PROVE  gen'[c] >= 1 /\ RunEndsOnce(c, route[c].at, gen[c])' /\ EntryIsAnswered(c, route[c].at, gen[c])'
  <2>1. Routed(c) /\ route[c].at \in Workers /\ gen[c] \in Nat
    BY <1>2, RouteFields DEF Routed, TypeOK, Follows
  <2>2. PICK w \in Workers, g \in Nat : w = route[c].at /\ g = gen[c] BY <2>1
  <2>3. RunEndsOnce(c, w, g) /\ EntryIsAnswered(c, w, g) /\ gen[c] >= 1 BY <2>1, <2>2 DEF Good
  <2>4. member[w][c] \in Members BY DEF TypeOK
  <2>5. RunEndsOnce(c, w, g)' /\ EntryIsAnswered(c, w, g)' BY <2>2, <2>3, <2>4, RunShrinks
  <2>6. w = route'[c].at /\ g = gen'[c] BY <2>2 DEF Follows
  <2> QED BY <2>3, <2>5, <2>6
<1> QED BY <1>1, <1>2 DEF Good

\* A connection whose run is over, of which nothing is left.
LEMMA GoodUnrouted ==
  ASSUME TypeOK, TypeOK', NEW c \in Conns, Good(c), route'[c] = NoRoute, gen'[c] = gen[c], job'[c].phase # "loading",
         \A w \in Workers :
           /\ \A i \in DOMAIN down'[w] : down'[w][i].who # c
           /\ \A i \in DOMAIN up'[w] : ~(up'[w][i].op = "left" /\ up'[w][i].who = c)
           /\ Kept(up[w], up'[w], c) /\ \A e \in late'[w] : e[1] = c => e \in late[w]
           /\ member'[w][c] = NoMember
  PROVE  Good(c)'
<1>1. ~Routed(c)' BY DEF Routed
<1>2. NothingIsStray(c)'
  <2> SUFFICES ASSUME NEW w \in Workers
               PROVE  /\ \A i \in DOMAIN up'[w] : Kind(up'[w][i]) = "answer" /\ up'[w][i].who = c => up'[w][i].gen <= gen[c]
                      /\ \A e \in late'[w] : e[1] = c => e[2] <= gen[c]
    BY DEF NothingIsStray
  <2>1. NothingIsStray(c) BY DEF Good
  <2>2. ASSUME NEW i \in DOMAIN up'[w], up'[w][i].who = c, Kind(up'[w][i]) = "answer" PROVE up'[w][i].gen <= gen[c]
    <3>1. PICK j \in DOMAIN up[w] : up[w][j] = up'[w][i] BY <2>2 DEF Kept, Kinds
    <3> QED BY <2>1, <2>2, <3>1 DEF NothingIsStray
  <2> QED BY <2>1, <2>2 DEF NothingIsStray
<1>3. JobFitsRoute(c)' BY <1>1 DEF JobFitsRoute
<1> QED BY <1>1, <1>2, <1>3 DEF Good

-----------------------------------------------------------------------------
(* Leaving a run.                                                          *)

RegistryInv == PlacesAreHeld /\ RegistryAgrees /\ OneWorkerPerMatch /\ OnlyTheOpenHavePlaces
RegistryTypeOK ==
  /\ state \in [MatchIds -> {"unused", "active", "finished", "failed", "closed"}]
  /\ in \in [Conns -> MatchIds \cup {NoMatch}]
  /\ byAccount \in [Accounts -> MatchIds \cup {NoMatch}]

\* Whoever is taken out of the registry leaves it in order.
LEMMA RegistryShrinks ==
  ASSUME RegistryTypeOK, RegistryAgrees, NEW S \in SUBSET Conns, NEW M \in SUBSET MatchIds, RemovedAndClosed(S, M)
  PROVE  /\ RegistryTypeOK' /\ RegistryAgrees'
         /\ \A c \in Conns : in'[c] = IF c \in S \/ in[c] \in M THEN NoMatch ELSE in[c]
<1>1. /\ in' = [c \in Conns |-> IF c \in S \/ in[c] \in M THEN NoMatch ELSE in[c]]
      /\ byAccount' = [a \in Accounts |->
           IF \/ \E c \in S : AccountOf[c] = a /\ MatchOf(c) = byAccount[a]
              \/ \E c \in Conns : AccountOf[c] = a /\ in[c] \in M /\ in[c] = byAccount[a]
           THEN NoMatch ELSE byAccount[a]]
      /\ state' = [m \in MatchIds |->
           IF m \in M \/ (m \in {MatchOf(c) : c \in S} /\ MembersOf(m) \subseteq S)
           THEN "closed" ELSE state[m]]
  BY DEF RemovedAndClosed
<1>2. \A c \in Conns : in'[c] = IF c \in S \/ in[c] \in M THEN NoMatch ELSE in[c] BY <1>1
<1>3. RegistryTypeOK' BY <1>1 DEF RegistryTypeOK
<1>4. ASSUME NEW c \in Conns, in'[c] # NoMatch PROVE state'[in'[c]] \in {"active", "finished", "failed"}
  <2>1. c \notin S /\ in[c] \notin M /\ in'[c] = in[c] /\ in[c] \in MatchIds
    BY <1>2, <1>4 DEF RegistryTypeOK
  <2>2. ~(MembersOf(in[c]) \subseteq S) BY <2>1 DEF MembersOf
  <2>3. state'[in[c]] = state[in[c]] BY <1>1, <2>1, <2>2
  <2> QED BY <1>4, <2>1, <2>3 DEF RegistryAgrees
<1>5. \A c, d \in Conns : c # d /\ AccountOf[c] = AccountOf[d] => NoMatch \in {in'[c], in'[d]}
  BY <1>2 DEF RegistryAgrees
<1>6. ASSUME NEW a \in Accounts, byAccount'[a] # NoMatch
      PROVE  \E c \in Conns : AccountOf[c] = a /\ in'[c] = byAccount'[a]
  <2>1. /\ byAccount'[a] = byAccount[a]
        /\ ~\E c \in S : AccountOf[c] = a /\ MatchOf(c) = byAccount[a]
        /\ ~\E c \in Conns : AccountOf[c] = a /\ in[c] \in M /\ in[c] = byAccount[a]
    BY <1>1, <1>6
  <2>2. PICK c \in Conns : AccountOf[c] = a /\ in[c] = byAccount[a]
    BY <1>6, <2>1 DEF RegistryAgrees
  <2>3. c \in S => MatchOf(c) = byAccount[a] BY <2>2 DEF MatchOf
  <2>4. c \notin S /\ in[c] \notin M BY <2>1, <2>2, <2>3
  <2> QED BY <1>2, <2>1, <2>2, <2>4
<1> QED BY <1>2, <1>3, <1>4, <1>5, <1>6 DEF RegistryAgrees

\* What Leave does: the run, if there is one and it is not being left yet, is told so, and the place given back.
LEMMA LeaveDoes ==
  ASSUME TypeOK, RegistryInv, NEW c \in Conns, NEW note \in {"disables", "closed"}, Leave(c, note),
         Routed(c) => gen[c] >= 1
  PROVE  /\ route' \in [Conns -> Routes] /\ down' \in [Workers -> Seq(DownMsg)] /\ RegistryTypeOK' /\ RegistryAgrees'
         /\ in'[c] = NoMatch /\ \A d \in Conns : d # c => in'[d] = in[d] /\ route'[d] = route[d]
         /\ \A d \in Conns : route'[d].at = route[d].at /\ route'[d].to = route[d].to /\ (Routed(d)' <=> Routed(d))
         /\ Routed(c) => route'[c].state = "leaving"
         /\ \/ route' = route /\ down' = down
            \/ /\ Routed(c) /\ route[c].state # "leaving"
               /\ \E x \in DownMsg : /\ About(x, "leave", c, gen[c]) /\ x.op = "leave" /\ x.who = c /\ x.gen = gen[c]
                                     /\ down' = Post(down, route[c].at, x)
<1>1. /\ RegistryTypeOK /\ RegistryAgrees /\ route \in [Conns -> Routes] /\ down \in [Workers -> Seq(DownMsg)]
      /\ route[c] \in Routes /\ gen[c] \in Nat
  BY DEF TypeOK, RegistryTypeOK, RegistryInv
<1>2. CASE Removed({c})
  <2>1. RemovedAndClosed({c}, {}) BY <1>2 DEF Removed
  <2> QED
    <3>1. /\ RegistryTypeOK' /\ RegistryAgrees'
          /\ \A d \in Conns : in'[d] = IF d \in {c} \/ in[d] \in {} THEN NoMatch ELSE in[d]
      <4>1. {c} \in SUBSET Conns /\ {} \in SUBSET MatchIds OBVIOUS
      <4>2. PICK S \in SUBSET Conns, M \in SUBSET MatchIds : S = {c} /\ M = {} BY <4>1
      <4>3. RemovedAndClosed(S, M) BY <2>1, <4>2
      <4>4. /\ RegistryTypeOK' /\ RegistryAgrees'
            /\ \A d \in Conns : in'[d] = IF d \in S \/ in[d] \in M THEN NoMatch ELSE in[d]
        BY <1>1, <4>3, RegistryShrinks
      <4> QED BY <4>2, <4>4
    <3>2. CASE ~Routed(c) /\ UNCHANGED <<route, down>> BY <1>1, <3>1, <3>2 DEF Routed
    <3>3. CASE Routed(c) /\ route[c].state # "leaving"
      <4> DEFINE x == [op |-> "leave", who |-> c, gen |-> gen[c], note |-> IF Open(c) THEN note ELSE "closed"]
                 r == [route[c] EXCEPT !.state = "leaving"]
      <4>1. route' = [route EXCEPT ![c] = r] /\ down' = Post(down, route[c].at, x)
        BY <3>3 DEF Leave
      <4>2. x \in DownMsg /\ About(x, "leave", c, gen[c]) /\ x.op = "leave" /\ x.who = c /\ x.gen = gen[c]
        BY <1>1, <3>3 DEF DownMsg, About, Kind
      <4>3. route[c].at \in Workers BY <1>1, <3>3, RouteFields DEF Routed
      <4>4. r \in Routes /\ r.state = "leaving" /\ r.at = route[c].at /\ r.to = route[c].to /\ r # NoRoute
        <5>1. route[c] \in [at : Workers, to : MatchIds, state : {"joining", "entered", "leaving"}]
          BY <1>1, <3>3 DEF Routes, Routed
        <5>2. r \in Routes /\ r.state = "leaving" /\ r.at = route[c].at /\ r.to = route[c].to
          BY <5>1 DEF Routes
        <5> QED BY <5>2 DEF NoRoute
      <4> HIDE DEF x, r
      <4>5. down' \in [Workers -> Seq(DownMsg)] BY <1>1, <4>1, <4>2, <4>3, Posted
      <4>6. route' \in [Conns -> Routes] /\ route'[c] = r /\ \A d \in Conns : d # c => route'[d] = route[d]
        BY <1>1, <4>1, <4>4
      <4> QED BY <1>1, <3>1, <3>3, <4>1, <4>2, <4>4, <4>5, <4>6 DEF Routed
    <3>4. (~Routed(c) /\ UNCHANGED <<route, down>>) \/ (Routed(c) /\ route[c].state # "leaving")
             \/ (Routed(c) /\ route[c].state = "leaving" /\ UNCHANGED <<route, down>>)
      BY DEF Leave
    <3>5. CASE Routed(c) /\ route[c].state = "leaving" /\ UNCHANGED <<route, down>>
      BY <1>1, <3>1, <3>5 DEF Routed
    <3> QED BY <3>2, <3>3, <3>4, <3>5
<1>3. CASE Routed(c) /\ route[c].state = "leaving" /\ UNCHANGED <<registryVars, route, down>>
  <2>1. in[c] = NoMatch BY <1>3 DEF RegistryInv, PlacesAreHeld
  <2>2. RegistryTypeOK' /\ RegistryAgrees' /\ in' = in
    BY <1>1, <1>3 DEF RegistryTypeOK, RegistryAgrees, registryVars
  <2> QED BY <1>1, <1>3, <2>1, <2>2 DEF Routed
<1> QED BY <1>2, <1>3 DEF Leave

\* The registry after it, whoever else closes or opens.
LEMMA LeaveRegistry ==
  ASSUME TypeOK, RegistryInv, NEW c \in Conns, NEW note \in {"disables", "closed"}, Leave(c, note),
         Routed(c) => gen[c] >= 1, running' = running,
         \A d \in Conns : Open(d) /\ d # c => Open(d)',
         \A d, e \in Conns : Open(d)' /\ Open(e)' /\ AccountOf[d] = AccountOf[e] => d = e
  PROVE  RegistryInv'
<1>1. /\ in'[c] = NoMatch /\ \A d \in Conns : d # c => in'[d] = in[d] /\ route'[d] = route[d]
      /\ \A d \in Conns : route'[d].at = route[d].at /\ route'[d].to = route[d].to /\ (Routed(d)' <=> Routed(d))
      /\ Routed(c) => route'[c].state = "leaving"
      /\ RegistryAgrees' /\ route' \in [Conns -> Routes]
  BY LeaveDoes
<1>2. PlacesAreHeld'
  <2>1. ~Routed(c) => route'[c].state = "none" BY <1>1, RouteFields DEF Routed
  <2> QED BY <1>1, <2>1 DEF PlacesAreHeld, RegistryInv
<1>3. OneWorkerPerMatch' BY <1>1 DEF OneWorkerPerMatch, RegistryInv
<1>4. OnlyTheOpenHavePlaces' BY <1>1 DEF OnlyTheOpenHavePlaces, RegistryInv
<1> QED BY <1>1, <1>2, <1>3, <1>4 DEF RegistryInv

\* What is said of the run, of the connection that leaves and of the others.
LEMMA LeaveGood ==
  ASSUME TypeOK, TypeOK', RegistryInv, NEW c \in Conns, Good(c), NEW note \in {"disables", "closed"}, Leave(c, note),
         gen' = gen, member' = member, late' = late, \A w \in Workers : Kept(up[w], up'[w], c), JobFitsRoute(c)',
         job[c].phase = "loading" =>
           job'[c].phase = "loading" \/ \A w \in Workers : w = route[c].at => IsAnswered(c, w, gen[c])
  PROVE  Good(c)'
<1>1. \/ route' = route /\ down' = down
      \/ /\ Routed(c) /\ route[c].state # "leaving"
         /\ \E x \in DownMsg : /\ About(x, "leave", c, gen[c]) /\ x.op = "leave" /\ x.who = c /\ x.gen = gen[c]
                               /\ down' = Post(down, route[c].at, x)
  BY LeaveDoes DEF Good
<1>2. CASE route' = route /\ down' = down
  <2>1. Shrinks(c) BY <1>2, KeptItself DEF Shrinks
  <2>2. Follows(c) BY <1>2 DEF Follows
  <2> QED BY <2>1, <2>2, GoodShrinks
<1>3. ASSUME Routed(c), route[c].state # "leaving",
             NEW x \in DownMsg, About(x, "leave", c, gen[c]), x.op = "leave", x.who = c, x.gen = gen[c],
             down' = Post(down, route[c].at, x)
      PROVE  Good(c)'
  <2>1. PICK w \in Workers, g \in Nat : w = route[c].at /\ g = gen[c]
    BY <1>3, RouteFields DEF TypeOK, Routed
  <2>2. /\ route'[c].at = w /\ route'[c].to = route[c].to /\ route'[c].state = "leaving" /\ Routed(c)'
        /\ gen'[c] = g /\ g >= 1 /\ RunEndsOnce(c, w, g) /\ EntryIsAnswered(c, w, g) /\ NothingIsStray(c)
    BY <1>3, <2>1, LeaveDoes DEF Good
  <2>3. down \in [Workers -> Seq(DownMsg)] /\ up \in [Workers -> Seq(UpMsg)] /\ member[w][c] \in Members
    BY DEF TypeOK
  <2>4. down'[w] = Append(down[w], x) /\ \A v \in Workers : v # w => down'[v] = down[v]
    <3>1. down' = Post(down, w, x) BY <1>3, <2>1
    <3>2. down' = [down EXCEPT ![w] = Append(@, x)] BY <3>1 DEF Post
    <3> QED BY <2>3, <3>2
  <2>5. /\ \A i \in DOMAIN down'[w] : down'[w][i] = x \/ \E j \in DOMAIN down[w] : down[w][j] = down'[w][i]
        /\ \A k : Says(down'[w], k, c, g) <=> Says(down[w], k, c, g) \/ About(x, k, c, g)
        /\ \A k : Once(down[w], k, c, g) /\ (About(x, k, c, g) => ~Says(down[w], k, c, g)) => Once(down'[w], k, c, g)
        /\ JoinsFirst(down[w], c, g) /\ (About(x, "join", c, g) => ~Says(down[w], "leave", c, g))
                    => JoinsFirst(down'[w], c, g)
    BY <2>3, <2>4, SaidMore
  <2>6. /\ \A k : About(x, k, c, g) <=> k = "leave"
        /\ ~Says(down[w], "leave", c, g) /\ ~Says(up[w], "left", c, g) /\ member[w][c].leaving = "no"
    <3>1. \A k : About(x, k, c, g) <=> k = "leave" BY <1>3, <2>1 DEF About
    <3>2. ~Says(down[w], "leave", c, g) /\ ~Says(up[w], "left", c, g)
      BY <1>3, <2>2 DEF RunEndsOnce
    <3>3. member[w][c].leaving = "no" BY <1>3, <2>2, <2>3, MemberFields DEF NothingIsStray
    <3> QED BY <3>1, <3>2, <3>3
  <2>7. RunEndsOnce(c, w, g)'
    <3>1. ~Says(up'[w], "left", c, g) /\ Once(up'[w], "left", c, g)
      BY <2>2, <2>6, KeptSays DEF Kept, Kinds, RunEndsOnce
    <3> QED BY <2>2, <2>5, <2>6, <3>1 DEF RunEndsOnce
  <2>8. EntryIsAnswered(c, w, g)'
    <3>1. /\ Says(up'[w], "answer", c, g) => Says(up[w], "answer", c, g)
          /\ Once(up'[w], "answer", c, g) /\ (Says(down'[w], "join", c, g) <=> Says(down[w], "join", c, g))
      <4>1. Says(up'[w], "answer", c, g) => Says(up[w], "answer", c, g) BY KeptSays DEF Kinds
      <4>2. Once(up[w], "answer", c, g) BY <2>2 DEF EntryIsAnswered
      <4>3. Once(up'[w], "answer", c, g) BY <4>2 DEF Kept, Kinds
      <4> QED BY <2>5, <2>6, <4>1, <4>3
    <3> QED BY <2>1, <2>2, <3>1 DEF EntryIsAnswered, IsAnswered, Entering
  <2>9. NothingIsStray(c)'
    <3> SUFFICES ASSUME NEW v \in Workers
             PROVE  /\ \A i \in DOMAIN down'[v] : down'[v][i].who = c =>
                         /\ route'[c].at = v /\ gen'[c] = down'[v][i].gen
                         /\ down'[v][i].op = "join" => down'[v][i].to = route'[c].to
                    /\ \A i \in DOMAIN up'[v] :
                         /\ up'[v][i].op = "left" /\ up'[v][i].who = c => route'[c].at = v /\ gen'[c] = up'[v][i].gen
                         /\ Kind(up'[v][i]) = "answer" /\ up'[v][i].who = c => up'[v][i].gen <= gen'[c]
                    /\ \A e \in late'[v] : e[1] = c => e[2] <= gen'[c]
                    /\ member'[v][c] # NoMember =>
                         /\ route'[c].at = v /\ gen'[c] = member'[v][c].gen /\ route'[c].to = member'[v][c].to
                         /\ member'[v][c].leaving # "no" => route'[c].state = "leaving"
      BY DEF NothingIsStray, Current
    <3>1. ASSUME NEW i \in DOMAIN down'[v], down'[v][i].who = c
          PROVE  route'[c].at = v /\ gen'[c] = down'[v][i].gen /\ (down'[v][i].op = "join" => down'[v][i].to = route'[c].to)
      <4>1. CASE v = w /\ down'[v][i] = x BY <1>3, <2>1, <2>2, <4>1
      <4>2. CASE \E j \in DOMAIN down[v] : down[v][j] = down'[v][i]
        BY <2>1, <2>2, <3>1, <4>2 DEF NothingIsStray, Current
      <4> QED BY <2>4, <2>5, <4>1, <4>2
    <3>2. ASSUME NEW i \in DOMAIN up'[v], up'[v][i].who = c, Kind(up'[v][i]) \in {"left", "answer"}
          PROVE  /\ up'[v][i].op = "left" => route'[c].at = v /\ gen'[c] = up'[v][i].gen
                 /\ Kind(up'[v][i]) = "answer" => up'[v][i].gen <= gen'[c]
      <4>1. PICK j \in DOMAIN up[v] : up[v][j] = up'[v][i] BY <3>2 DEF Kept, Kinds
      <4> QED BY <2>1, <2>2, <3>2, <4>1 DEF NothingIsStray, Current
    <3>3. \A i \in DOMAIN up'[v] : up'[v][i].op = "left" => Kind(up'[v][i]) = "left" BY DEF Kind
    <3>4. /\ \A e \in late'[v] : e[1] = c => e[2] <= gen'[c]
          /\ member'[v][c] # NoMember =>
               /\ route'[c].at = v /\ gen'[c] = member'[v][c].gen /\ route'[c].to = member'[v][c].to
               /\ member'[v][c].leaving # "no" => route'[c].state = "leaving"
      BY <2>1, <2>2 DEF NothingIsStray, Current
    <3> QED BY <3>1, <3>2, <3>3, <3>4
  <2> QED BY <2>2, <2>7, <2>8, <2>9 DEF Good
<1> QED BY <1>1, <1>2, <1>3

-----------------------------------------------------------------------------
(* What a step leaves alone.                                               *)

LEMMA JobFields ==
  ASSUME NEW j \in Jobs
  PROVE  /\ j.phase \in {"none", "admitting", "loading", "unwinding", "failing", "checking", "leaving"}
         /\ j = NoJob <=> j.phase = "none"
         /\ j.phase = "checking" => j.kind = "door"
         /\ j # NoJob => \A p \in {"admitting", "loading", "unwinding", "failing"} :
                           [j EXCEPT !.phase = p] \in Jobs /\ [j EXCEPT !.phase = p].phase = p
         /\ j.phase = "checking" => [j EXCEPT !.phase = "leaving"] \in Jobs /\ [j EXCEPT !.phase = "leaving"].phase = "leaving"
<1>1. CASE j = NoJob BY <1>1 DEF NoJob
<1>2. CASE j \in [kind : {"entry"}, phase : {"admitting", "loading", "unwinding", "failing"}]
  <2>1. j.phase \in {"admitting", "loading", "unwinding", "failing"} /\ j # NoJob
    BY <1>2 DEF NoJob
  <2>2. \A p \in {"admitting", "loading", "unwinding", "failing"} :
          [j EXCEPT !.phase = p] \in Jobs /\ [j EXCEPT !.phase = p].phase = p
    BY <1>2 DEF Jobs
  <2> QED BY <2>1, <2>2
<1>3. CASE j \in [kind : {"door"}, phase : {"checking", "leaving", "admitting", "loading", "unwinding", "failing"}]
  <2>1. j.phase \in {"checking", "leaving", "admitting", "loading", "unwinding", "failing"} /\ j # NoJob /\ j.kind = "door"
    BY <1>3 DEF NoJob
  <2>2. \A p \in {"leaving", "admitting", "loading", "unwinding", "failing"} :
          [j EXCEPT !.phase = p] \in Jobs /\ [j EXCEPT !.phase = p].phase = p
    BY <1>3 DEF Jobs
  <2> QED BY <2>1, <2>2
<1> QED BY <1>1, <1>2, <1>3 DEF Jobs

\* What a step is about one connection leaves the others alone.
LEMMA OthersAreGood ==
  ASSUME TypeOK, TypeOK', NEW c \in Conns, Good(c), Shrinks(c), Follows(c), gen'[c] = gen[c], job'[c] = job[c],
         c \in cancelled => c \in cancelled', route'[c].state = route[c].state \/ route'[c].state = "joining"
  PROVE  Good(c)'
<1>1. Routed(c)' => Routed(c) BY RouteFields DEF Follows, Routed, TypeOK
<1>2. JobFitsRoute(c)' BY <1>1 DEF JobFitsRoute, Good
<1> QED BY <1>2, GoodShrinks

\* Routes that are taken, left or forgotten without touching the registry.
LEMMA RegistryStays ==
  ASSUME TypeOK, TypeOK', RegistryInv, UNCHANGED <<online, in, byAccount, running>>,
         \A m \in MatchIds : state[m] \in {"active", "finished", "failed"} => state'[m] \in {"active", "finished", "failed"},
         \A c \in Conns : \/ Follows(c) /\ (route'[c].state = route[c].state
                                              \/ {route[c].state, route'[c].state} = {"joining", "entered"})
                          \/ route'[c] = NoRoute /\ route[c].state \notin {"joining", "entered"}
  PROVE  RegistryInv'
<1>1. PlacesAreHeld'
  <2> SUFFICES ASSUME NEW c \in Conns
               PROVE  in'[c] = IF route'[c].state \in {"joining", "entered"} THEN route'[c].to ELSE NoMatch
    BY DEF PlacesAreHeld
  <2>1. in'[c] = IF route[c].state \in {"joining", "entered"} THEN route[c].to ELSE NoMatch
    BY DEF RegistryInv, PlacesAreHeld
  <2>2. CASE Follows(c) /\ route'[c].state = route[c].state BY <2>1, <2>2 DEF Follows
  <2>3. CASE Follows(c) /\ {route[c].state, route'[c].state} = {"joining", "entered"}
    <3>1. route[c].state \in {"joining", "entered"} /\ route'[c].state \in {"joining", "entered"}
      BY <2>3
    <3> QED BY <2>1, <2>3, <3>1 DEF Follows
  <2>4. CASE route'[c] = NoRoute /\ route[c].state \notin {"joining", "entered"}
    BY <2>1, <2>4 DEF NoRoute
  <2> QED BY <2>2, <2>3, <2>4
<1>2. RegistryAgrees'
  <2>1. \A c \in Conns : in[c] # NoMatch => in[c] \in MatchIds /\ state[in[c]] \in {"active", "finished", "failed"}
    BY DEF RegistryAgrees, RegistryInv, TypeOK
  <2>2. \A c \in Conns : in'[c] # NoMatch => state'[in'[c]] \in {"active", "finished", "failed"}
    BY <2>1
  <2> QED BY <2>2 DEF RegistryAgrees, RegistryInv
<1>3. OneWorkerPerMatch'
  <2>1. \A c \in Conns : Routed(c)' => Routed(c) /\ Follows(c)
    BY RouteFields DEF Follows, Routed, TypeOK
  <2>2. ASSUME NEW c \in Conns, NEW d \in Conns, route'[c].to = route'[d].to PROVE route'[c].at = route'[d].at
    <3>1. Routed(c)' <=> Routed(d)' BY <2>2, RouteFields DEF Routed, TypeOK
    <3>2. CASE Routed(c)' BY <2>1, <2>2, <3>1, <3>2 DEF Follows, RegistryInv, OneWorkerPerMatch
    <3>3. CASE ~Routed(c)' BY <3>1, <3>3 DEF Routed
    <3> QED BY <3>2, <3>3
  <2>3. ASSUME NEW c \in Conns, Routed(c)' PROVE route'[c].at \in running'
    BY <2>1, <2>3 DEF Follows, RegistryInv, OneWorkerPerMatch
  <2> QED BY <2>2, <2>3 DEF OneWorkerPerMatch
<1>4. OnlyTheOpenHavePlaces' BY DEF OnlyTheOpenHavePlaces, RegistryInv, Open
<1> QED BY <1>1, <1>2, <1>3, <1>4 DEF RegistryInv

\* Leaving, for all.
LEMMA AllLeave ==
  ASSUME TypeOK, TypeOK', RegistryInv, \A d \in Conns : Good(d), NEW c \in Conns, NEW note \in {"disables", "closed"},
         Leave(c, note), gen' = gen, running' = running, member' = member, late' = late,
         \A d \in Conns, w \in Workers : Kept(up[w], up'[w], d),
         \A d \in Conns : Open(d) /\ d # c => Open(d)',
         \A d, e \in Conns : Open(d)' /\ Open(e)' /\ AccountOf[d] = AccountOf[e] => d = e,
         \A d \in Conns : d # c => job'[d] = job[d] /\ (d \in cancelled => d \in cancelled'),
         job'[c].phase = "admitting" => ~Routed(c),
         job'[c].phase = "loading" => c \in cancelled',
         job[c].phase = "loading" =>
           job'[c].phase = "loading" \/ \A w \in Workers : w = route[c].at => IsAnswered(c, w, gen[c])
  PROVE  RegistryInv' /\ \A d \in Conns : Good(d)'
<1>1. Routed(c) => gen[c] >= 1 BY DEF Good
<1>2. RegistryInv' BY <1>1, LeaveRegistry
<1>3. /\ \A d \in Conns : d # c => route'[d] = route[d]
      /\ \A d \in Conns : (Routed(d)' <=> Routed(d))
      /\ \/ route' = route /\ down' = down
         \/ /\ Routed(c)
            /\ \E x \in DownMsg : x.who = c /\ down' = Post(down, route[c].at, x)
  BY <1>1, LeaveDoes
<1>4. Good(c)'
  <2>1. JobFitsRoute(c)' BY <1>3 DEF JobFitsRoute
  <2> QED BY <2>1, LeaveGood
<1>5. ASSUME NEW d \in Conns, d # c PROVE Good(d)'
  <2>1. \A w \in Workers : Kept(down[w], down'[w], d)
    <3>1. CASE down' = down BY <3>1, KeptItself
    <3>2. ASSUME Routed(c), NEW x \in DownMsg, x.who = c, down' = Post(down, route[c].at, x)
          PROVE  \A w \in Workers : Kept(down[w], down'[w], d)
      <4>1. PICK v \in Workers : v = route[c].at BY <3>2, RouteFields DEF TypeOK, Routed
      <4>2. down \in [Workers -> Seq(DownMsg)] /\ down' = Post(down, v, x)
        BY <3>2, <4>1 DEF TypeOK
      <4>3. \A e : \A u \in Workers : ~(Kind(x) \in Kinds /\ x.who = e) => Kept(down[u], Post(down, v, x)[u], e)
        BY <3>2, <4>2, Posted
      <4> QED BY <1>5, <3>2, <4>2, <4>3
    <3> QED BY <1>3, <3>1, <3>2
  <2>2. Shrinks(d) BY <2>1 DEF Shrinks
  <2>3. Follows(d) /\ route'[d].state = route[d].state BY <1>3, <1>5 DEF Follows
  <2> QED BY <1>5, <2>2, <2>3, OthersAreGood
<1> QED BY <1>2, <1>4, <1>5

\* Whatever is under way is cancelled, and the run left.
LEMMA CancelledAndLeft ==
  ASSUME TypeOK, TypeOK', RegistryInv, \A d \in Conns : Good(d), NEW c \in Conns, NEW note \in {"disables", "closed"},
         Leave(c, note), cancelled' = IF job[c] # NoJob THEN cancelled \cup {c} ELSE cancelled,
         job' = job, gen' = gen, running' = running, member' = member, late' = late,
         \A d \in Conns, w \in Workers : Kept(up[w], up'[w], d),
         \A d \in Conns : Open(d) /\ d # c => Open(d)',
         \A d, e \in Conns : Open(d)' /\ Open(e)' /\ AccountOf[d] = AccountOf[e] => d = e
  PROVE  RegistryInv' /\ \A d \in Conns : Good(d)'
<1>1. job'[c].phase = "admitting" => ~Routed(c) BY DEF Good, JobFitsRoute
<1>2. job'[c].phase = "loading" => c \in cancelled'
  <2>1. job[c] \in Jobs /\ NoJob.phase = "none" BY DEF TypeOK, NoJob
  <2> QED BY <2>1
<1> QED BY <1>1, <1>2, AllLeave

LEMMA LeaveTypes ==
  ASSUME TypeOK, RegistryInv, \A d \in Conns : Good(d), NEW c \in Conns, NEW note \in {"disables", "closed"}, Leave(c, note)
  PROVE  route' \in [Conns -> Routes] /\ down' \in [Workers -> Seq(DownMsg)] /\ RegistryTypeOK'
BY LeaveDoes DEF Good

LEMMA DisconnectsOnceHeard ==
  ASSUME TypeOK, RegistryInv, \A d \in Conns : Good(d), NEW c \in Conns, Disconnect(c),
         online' \in [Conns -> {"off", "on", "closing", "gone"}],
         UNCHANGED <<job, exit, gen, workerVars, clientVars, crashes>>,
         up' \in [Workers -> Seq(UpMsg)], \A d \in Conns, w \in Workers : Kept(up[w], up'[w], d),
         \A d \in Conns : Open(d) /\ d # c => Open(d)',
         \A d, e \in Conns : Open(d)' /\ Open(e)' /\ AccountOf[d] = AccountOf[e] => d = e
  PROVE  TypeOK' /\ RegistryInv' /\ \A d \in Conns : Good(d)'
<1>1. Leave(c, "closed") /\ cancelled' = IF job[c] # NoJob THEN cancelled \cup {c} ELSE cancelled
  BY DEF Disconnect
<1>2. route' \in [Conns -> Routes] /\ down' \in [Workers -> Seq(DownMsg)] /\ RegistryTypeOK'
  BY <1>1, LeaveTypes
<1>3. TypeOK' BY <1>1, <1>2 DEF TypeOK, RegistryTypeOK, workerVars, clientVars
<1> QED BY <1>1, <1>3, CancelledAndLeft DEF workerVars

LEMMA Disconnects ==
  ASSUME TypeOK, RegistryInv, \A d \in Conns : Good(d), NEW c \in Conns, Disconnect(c),
         online' \in [Conns -> {"off", "on", "closing", "gone"}],
         UNCHANGED <<job, exit, gen, workerVars, up, clientVars, crashes>>,
         \A d \in Conns : Open(d) /\ d # c => Open(d)',
         \A d, e \in Conns : Open(d)' /\ Open(e)' /\ AccountOf[d] = AccountOf[e] => d = e
  PROVE  TypeOK' /\ RegistryInv' /\ \A d \in Conns : Good(d)'
<1>1. \A d \in Conns, w \in Workers : Kept(up[w], up'[w], d) BY KeptItself
<1>2. up' \in [Workers -> Seq(UpMsg)] BY DEF TypeOK
<1> QED BY <1>1, <1>2, DisconnectsOnceHeard

-----------------------------------------------------------------------------
(* The connection's actions.                                               *)

IInv == TypeOK /\ RegistryInv /\ \A d \in Conns : Good(d)

\* Nothing moves but a transition's own state and what clients see.
LEMMA TransitionStays ==
  ASSUME IInv, TypeOK', NEW c \in Conns,
         UNCHANGED <<online, gen, route, registryVars, running, member, late, down>>,
         \A d \in Conns, w \in Workers : Kept(up[w], up'[w], d),
         \A d \in Conns : d # c => job'[d] = job[d] /\ (d \in cancelled => d \in cancelled'),
         job'[c].phase = "admitting" => ~Routed(c),
         job'[c].phase = "loading" => job[c].phase = "loading" /\ (c \in cancelled => c \in cancelled'),
         job[c].phase = "loading" =>
           job'[c].phase = "loading" \/ \A w \in Workers : w = route[c].at => IsAnswered(c, w, gen[c])
  PROVE  IInv'
<1>1. RegistryInv'
  <2>1. \A d \in Conns : Follows(d) /\ route'[d].state = route[d].state BY DEF Follows
  <2> QED BY <2>1, RegistryStays DEF IInv, registryVars
<1>2. ASSUME NEW d \in Conns PROVE Shrinks(d) /\ Follows(d) /\ gen'[d] = gen[d]
  BY KeptItself DEF Shrinks, Follows
<1>3. ASSUME NEW d \in Conns, d # c PROVE Good(d)' BY <1>2, <1>3, OthersAreGood DEF IInv
<1>4. Good(c)'
  <2>1. JobFitsRoute(c)' BY DEF JobFitsRoute, Routed, IInv, Good
  <2> QED BY <1>2, <2>1, GoodShrinks DEF IInv
<1> QED BY <1>1, <1>3, <1>4 DEF IInv

LEMMA LoginStep ==
  ASSUME IInv, NEW c \in Conns, Login(c) PROVE IInv'
<1>1. online[c] = "off" /\ UNCHANGED <<job, exit, gen, workerVars, up, clientVars, crashes>>
  BY DEF Login
<1>2. CASE Displaced(c) = {}
  <2>1. online' = [online EXCEPT ![c] = "on"] /\ UNCHANGED <<cancelled, route, down, registryVars>>
    BY <1>2 DEF Login
  <2>2. TypeOK' BY <1>1, <2>1 DEF IInv, TypeOK, workerVars, clientVars, registryVars
  <2>3. \A d \in Conns : Shrinks(d) /\ Follows(d)
    BY <1>1, <2>1, KeptItself DEF Shrinks, Follows, workerVars
  <2>4. \A d \in Conns : Good(d)' BY <1>1, <2>1, <2>2, <2>3, OthersAreGood DEF IInv
  <2>5. PlacesAreHeld' /\ RegistryAgrees' /\ OneWorkerPerMatch'
    BY <1>1, <2>1 DEF IInv, RegistryInv, PlacesAreHeld, RegistryAgrees, OneWorkerPerMatch, Routed, registryVars, workerVars
  <2>6. OnlyTheOpenHavePlaces'
    <3>1. \A d \in Conns : Open(d)' <=> d = c \/ Open(d) BY <2>1 DEF Open, IInv, TypeOK
    <3>2. \A d \in Conns : Open(d) /\ AccountOf[d] = AccountOf[c] => d = c BY <1>2 DEF Displaced
    <3> QED BY <2>1, <3>1, <3>2 DEF IInv, RegistryInv, OnlyTheOpenHavePlaces, registryVars
  <2> QED BY <2>2, <2>4, <2>5, <2>6 DEF IInv, RegistryInv
<1>3. ASSUME NEW d \in Displaced(c), online' = [online EXCEPT ![c] = "on", ![d] = "closing"], Disconnect(d) PROVE IInv'
  <2>1. d \in Conns /\ d # c /\ Open(d) /\ AccountOf[d] = AccountOf[c] BY <1>3 DEF Displaced
  <2>2. online' \in [Conns -> {"off", "on", "closing", "gone"}] BY <1>3 DEF IInv, TypeOK
  <2>3. \A e \in Conns : Open(e)' <=> e = c \/ (Open(e) /\ e # d)
    BY <1>1, <1>3, <2>1 DEF Open, IInv, TypeOK
  <2>4. \A e, f \in Conns : Open(e)' /\ Open(f)' /\ AccountOf[e] = AccountOf[f] => e = f
    BY <2>1, <2>3 DEF IInv, RegistryInv, OnlyTheOpenHavePlaces
  <2> QED BY <1>1, <1>3, <2>1, <2>2, <2>3, <2>4, Disconnects DEF IInv
<1> QED BY <1>2, <1>3 DEF Login

LEMMA CloseStep ==
  ASSUME IInv, NEW c \in Conns, Closes(c) \/ SocketCloses(c) PROVE IInv'
<1>1. PICK s \in {"closing", "gone"} : online' = [online EXCEPT ![c] = s]
  BY DEF Closes, SocketCloses
<1>2. Disconnect(c) /\ UNCHANGED <<job, exit, gen, workerVars, up, clientVars, crashes>>
  BY DEF Closes, SocketCloses
<1>3. online' \in [Conns -> {"off", "on", "closing", "gone"}] BY <1>1 DEF IInv, TypeOK
<1>4. \A d \in Conns : Open(d)' <=> Open(d) /\ d # c BY <1>1 DEF Open, IInv, TypeOK
<1>5. \A e, f \in Conns : Open(e)' /\ Open(f)' /\ AccountOf[e] = AccountOf[f] => e = f
  BY <1>4 DEF IInv, RegistryInv, OnlyTheOpenHavePlaces
<1> QED BY <1>2, <1>3, <1>4, <1>5, Disconnects DEF IInv

LEMMA RequestEntryStep ==
  ASSUME IInv, NEW c \in Conns, RequestEntry(c) PROVE IInv'
<1>1. /\ job[c] = NoJob /\ ~Routed(c) /\ job' = [job EXCEPT ![c] = [kind |-> "entry", phase |-> "admitting"]]
      /\ home' = home \ {c}
      /\ UNCHANGED <<online, cancelled, exit, gen, route, registryVars, workerVars, up, down, shown, crashes>>
  BY DEF RequestEntry, Busy, InDungeon
<1>2. [kind |-> "entry", phase |-> "admitting"] \in Jobs BY DEF Jobs
<1>3. TypeOK' BY <1>1, <1>2 DEF IInv, TypeOK, registryVars, workerVars
<1>4. \A d \in Conns, w \in Workers : Kept(up[w], up'[w], d) BY <1>1, KeptItself
<1>5. job'[c].phase = "admitting" /\ (\A d \in Conns : d # c => job'[d] = job[d]) /\ job[c].phase = "none"
  BY <1>1 DEF IInv, TypeOK, NoJob
<1> QED BY <1>1, <1>3, <1>4, <1>5, TransitionStays DEF workerVars

LEMMA JobEndsTypes ==
  ASSUME TypeOK, NEW c \in Conns, JobEnds(c)
  PROVE  /\ job' \in [Conns -> Jobs] /\ cancelled' \subseteq Conns /\ exit' \in [Conns -> {"none", "leaving", "waiting"}]
         /\ job'[c] = NoJob /\ job'[c].phase = "none"
         /\ \A d \in Conns : d # c => job'[d] = job[d] /\ (d \in cancelled' <=> d \in cancelled)
<1>1. NoJob \in Jobs /\ NoJob.phase = "none" BY DEF Jobs, NoJob
<1> QED BY <1>1 DEF JobEnds, TypeOK

LEMMA EndsStep ==
  ASSUME IInv, NEW c \in Conns, AdmissionEnds(c) \/ DoorStays(c) PROVE IInv'
<1>1. /\ job[c].phase \in {"admitting", "checking"} /\ JobEnds(c)
      /\ UNCHANGED <<online, gen, route, registryVars, workerVars, up, down, clientVars, crashes>>
  BY DEF AdmissionEnds, DoorStays
<1>2. TypeOK' BY <1>1, JobEndsTypes DEF IInv, TypeOK, registryVars, workerVars, clientVars
<1>3. \A d \in Conns, w \in Workers : Kept(up[w], up'[w], d) BY <1>1, KeptItself
<1>4. job'[c].phase = "none" /\ \A d \in Conns : d # c => job'[d] = job[d] /\ (d \in cancelled => d \in cancelled')
  BY <1>1, JobEndsTypes DEF IInv
<1> QED BY <1>1, <1>2, <1>3, <1>4, TransitionStays DEF workerVars

LEMMA DoorAdmissionThrowsStep ==
  ASSUME IInv, NEW c \in Conns, DoorAdmissionThrows(c) PROVE IInv'
<1>1. /\ job[c].phase = "admitting" /\ Leave(c, "disables") /\ JobEnds(c)
      /\ UNCHANGED <<online, gen, workerVars, up, clientVars, crashes>>
  BY DEF DoorAdmissionThrows
<1>2. route' \in [Conns -> Routes] /\ down' \in [Workers -> Seq(DownMsg)] /\ RegistryTypeOK'
  BY <1>1, LeaveTypes DEF IInv
<1>3. TypeOK'
  BY <1>1, <1>2, JobEndsTypes DEF IInv, TypeOK, RegistryTypeOK, workerVars, clientVars
<1>4. \A d \in Conns, w \in Workers : Kept(up[w], up'[w], d) BY <1>1, KeptItself
<1>5. job'[c].phase = "none" /\ \A d \in Conns : d # c => job'[d] = job[d] /\ (d \in cancelled => d \in cancelled')
  BY <1>1, JobEndsTypes DEF IInv
<1>6. /\ \A d \in Conns : Open(d)' = Open(d)
      /\ \A d, e \in Conns : Open(d)' /\ Open(e)' /\ AccountOf[d] = AccountOf[e] => d = e
  BY <1>1 DEF Open, IInv, RegistryInv, OnlyTheOpenHavePlaces
<1> QED BY <1>1, <1>3, <1>4, <1>5, <1>6, AllLeave DEF IInv, workerVars

LEMMA DoorLeavesStep ==
  ASSUME IInv, NEW c \in Conns, DoorLeaves(c) PROVE IInv'
<1>1. /\ job[c].phase = "checking" /\ Leave(c, "disables")
      /\ job' = [job EXCEPT ![c].phase = IF Routed(c) THEN "leaving" ELSE "admitting"]
      /\ UNCHANGED <<online, cancelled, exit, gen, workerVars, up, clientVars, crashes>>
  BY DEF DoorLeaves
<1>2. route' \in [Conns -> Routes] /\ down' \in [Workers -> Seq(DownMsg)] /\ RegistryTypeOK'
  BY <1>1, LeaveTypes DEF IInv
<1>3. /\ job' \in [Conns -> Jobs] /\ job'[c].phase = (IF Routed(c) THEN "leaving" ELSE "admitting")
      /\ \A d \in Conns : d # c => job'[d] = job[d]
  <2>1. job[c] \in Jobs /\ job[c] # NoJob BY <1>1 DEF IInv, TypeOK, NoJob
  <2>2. PICK p \in {"leaving", "admitting"} : p = IF Routed(c) THEN "leaving" ELSE "admitting"
    OBVIOUS
  <2>3. [job[c] EXCEPT !.phase = p] \in Jobs /\ [job[c] EXCEPT !.phase = p].phase = p
    <3>1. /\ [job[c] EXCEPT !.phase = "leaving"] \in Jobs /\ [job[c] EXCEPT !.phase = "leaving"].phase = "leaving"
          /\ [job[c] EXCEPT !.phase = "admitting"] \in Jobs /\ [job[c] EXCEPT !.phase = "admitting"].phase = "admitting"
      BY <1>1, <2>1, JobFields
    <3>2. CASE p = "leaving" BY <3>1, <3>2
    <3>3. CASE p = "admitting" BY <3>1, <3>3
    <3> QED BY <3>2, <3>3
  <2>4. job' = [job EXCEPT ![c] = [job[c] EXCEPT !.phase = p]] BY <1>1, <2>2 DEF IInv, TypeOK
  <2> QED BY <2>2, <2>3, <2>4 DEF IInv, TypeOK
<1>4. TypeOK' BY <1>1, <1>2, <1>3 DEF IInv, TypeOK, RegistryTypeOK, workerVars, clientVars
<1>5. \A d \in Conns, w \in Workers : Kept(up[w], up'[w], d) BY <1>1, KeptItself
<1>6. /\ \A d \in Conns : Open(d)' = Open(d)
      /\ \A d, e \in Conns : Open(d)' /\ Open(e)' /\ AccountOf[d] = AccountOf[e] => d = e
  BY <1>1 DEF Open, IInv, RegistryInv, OnlyTheOpenHavePlaces
<1> QED BY <1>1, <1>3, <1>4, <1>5, <1>6, AllLeave DEF IInv, workerVars

\* An exit, of the client's or of its dungeon's.
LEMMA ExitsDo ==
  ASSUME IInv, NEW c \in Conns, Exits(c), UNCHANGED <<online, job, gen, workerVars, shown, crashes>>,
         up' \in [Workers -> Seq(UpMsg)], \A d \in Conns, w \in Workers : Kept(up[w], up'[w], d)
  PROVE  IInv'
<1>1. /\ Leave(c, "disables") /\ cancelled' = IF job[c] # NoJob THEN cancelled \cup {c} ELSE cancelled
      /\ exit' \in [Conns -> {"none", "leaving", "waiting"}] /\ home' \subseteq Conns
  BY DEF Exits, IInv, TypeOK
<1>2. route' \in [Conns -> Routes] /\ down' \in [Workers -> Seq(DownMsg)] /\ RegistryTypeOK'
  BY <1>1, LeaveTypes DEF IInv
<1>3. TypeOK' BY <1>1, <1>2 DEF IInv, TypeOK, RegistryTypeOK, workerVars
<1>4. /\ \A d \in Conns : Open(d)' = Open(d)
      /\ \A d, e \in Conns : Open(d)' /\ Open(e)' /\ AccountOf[d] = AccountOf[e] => d = e
  BY DEF Open, IInv, RegistryInv, OnlyTheOpenHavePlaces
<1> QED BY <1>1, <1>3, <1>4, CancelledAndLeft DEF IInv, workerVars

LEMMA RequestExitStep ==
  ASSUME IInv, NEW c \in Conns, RequestExit(c) PROVE IInv'
<1>1. Exits(c) /\ UNCHANGED <<online, job, gen, workerVars, up, shown, crashes>>
  BY DEF RequestExit
<1>2. \A d \in Conns, w \in Workers : Kept(up[w], up'[w], d) BY <1>1, KeptItself
<1>3. up' \in [Workers -> Seq(UpMsg)] BY <1>1 DEF IInv, TypeOK
<1> QED BY <1>1, <1>2, <1>3, ExitsDo

\* A place is reserved, and the member on its way to the match's worker.
LEMMA ReservedPlace ==
  ASSUME IInv, NEW c \in Conns, Open(c), NEW m \in MatchIds, Reserved(c, m)
  PROVE  /\ RegistryTypeOK' /\ RegistryAgrees'
         /\ in'[c] = m /\ \A d \in Conns : d # c => in'[d] = in[d]
<1>1. /\ state' = [state EXCEPT ![m] = "active"] /\ in' = [in EXCEPT ![c] = m]
      /\ byAccount' = [byAccount EXCEPT ![AccountOf[c]] = m]
  BY DEF Reserved
<1>2. /\ state \in [MatchIds -> {"unused", "active", "finished", "failed", "closed"}]
      /\ in \in [Conns -> MatchIds \cup {NoMatch}] /\ byAccount \in [Accounts -> MatchIds \cup {NoMatch}]
      /\ AccountOf[c] \in Accounts
  BY DEF IInv, TypeOK
<1>3. RegistryTypeOK' BY <1>1, <1>2 DEF RegistryTypeOK
<1>4. in'[c] = m /\ \A d \in Conns : d # c => in'[d] = in[d] BY <1>1, <1>2
<1>5. \A d \in Conns : in[d] # NoMatch => Open(d) /\ in[d] \in MatchIds /\ state[in[d]] \in {"active", "finished", "failed"}
  BY <1>2 DEF IInv, RegistryInv, OnlyTheOpenHavePlaces, RegistryAgrees
<1>6. \A d \in Conns : in'[d] # NoMatch => state'[in'[d]] \in {"active", "finished", "failed"}
  BY <1>1, <1>2, <1>4, <1>5
<1>7. \A d, e \in Conns : d # e /\ AccountOf[d] = AccountOf[e] => NoMatch \in {in'[d], in'[e]}
  BY <1>4, <1>5 DEF IInv, RegistryInv, OnlyTheOpenHavePlaces
<1>8. ASSUME NEW a \in Accounts, byAccount'[a] # NoMatch
      PROVE  \E d \in Conns : AccountOf[d] = a /\ in'[d] = byAccount'[a]
  <2>1. CASE a = AccountOf[c] BY <1>1, <1>2, <1>4, <2>1
  <2>2. CASE a # AccountOf[c]
    <3>1. byAccount'[a] = byAccount[a] BY <1>1, <1>2, <2>2
    <3>2. PICK d \in Conns : AccountOf[d] = a /\ in[d] = byAccount[a]
      BY <1>8, <3>1 DEF IInv, RegistryInv, RegistryAgrees
    <3> QED BY <1>4, <2>2, <3>1, <3>2
  <2> QED BY <2>1, <2>2
<1> QED BY <1>3, <1>4, <1>6, <1>7, <1>8 DEF RegistryAgrees

LEMMA AdmittedStep ==
  ASSUME IInv, NEW c \in Conns, NEW m \in MatchIds, NEW w \in Workers, Admitted(c, m, w) PROVE IInv'
<1>0. PICK g \in Nat : g = gen[c] + 1 BY DEF IInv, TypeOK
<1> DEFINE r == [at |-> w, to |-> m, state |-> "joining"]
           x == [op |-> "join", who |-> c, gen |-> g, to |-> m]
<1>1. /\ job[c].phase = "admitting" /\ c \notin cancelled /\ Open(c) /\ Reserved(c, m) /\ w \in WorkersFor(m)
      /\ gen' = [gen EXCEPT ![c] = @ + 1] /\ route' = [route EXCEPT ![c] = r]
      /\ down' = Post(down, w, [op |-> "join", who |-> c, gen |-> gen'[c], to |-> m])
      /\ job' = [job EXCEPT ![c].phase = "loading"]
      /\ UNCHANGED <<online, cancelled, exit, workerVars, up, clientVars, crashes>>
  BY DEF Admitted
<1>2. /\ job \in [Conns -> Jobs] /\ gen \in [Conns -> Nat] /\ route \in [Conns -> Routes] /\ job[c] \in Jobs
      /\ down \in [Workers -> Seq(DownMsg)] /\ up \in [Workers -> Seq(UpMsg)] /\ gen[c] \in Nat
      /\ member \in [Workers -> [Conns -> Members]]
  BY DEF IInv, TypeOK
<1>3. /\ gen'[c] = g /\ \A d \in Conns : d # c => gen'[d] = gen[d]
      /\ gen' \in [Conns -> Nat] /\ g \in Nat \ {0} /\ g > gen[c] /\ gen[c] \in Nat
  BY <1>0, <1>1, <1>2
<1>4. /\ r \in Routes /\ r # NoRoute /\ r.at = w /\ r.to = m /\ r.state = "joining"
      /\ route' \in [Conns -> Routes] /\ route'[c] = r /\ \A d \in Conns : d # c => route'[d] = route[d]
  <2>1. r \in Routes /\ r.at = w /\ r.to = m /\ r.state = "joining" BY DEF Routes
  <2>2. r # NoRoute BY <2>1 DEF NoRoute
  <2> QED BY <1>1, <1>2, <2>1, <2>2
<1>5. /\ x \in DownMsg /\ x.who = c /\ x.gen = g /\ x.to = m /\ x.op = "join" /\ Kind(x) = "join"
      /\ down' = Post(down, w, x)
  BY <1>1, <1>3 DEF DownMsg, Kind
<1>6. /\ job'[c].phase = "loading" /\ job' \in [Conns -> Jobs] /\ \A d \in Conns : d # c => job'[d] = job[d]
  <2>1. [job[c] EXCEPT !.phase = "loading"] \in Jobs /\ [job[c] EXCEPT !.phase = "loading"].phase = "loading"
    <3>1. job[c] # NoJob BY <1>1, <1>2 DEF NoJob
    <3> QED BY <1>2, <3>1, JobFields
  <2>2. job' = [job EXCEPT ![c] = [job[c] EXCEPT !.phase = "loading"]] BY <1>1, <1>2
  <2> QED BY <1>2, <2>1, <2>2
<1> HIDE DEF r, x
<1>7. /\ RegistryTypeOK' /\ RegistryAgrees' /\ in'[c] = m /\ \A d \in Conns : d # c => in'[d] = in[d]
  BY <1>1, ReservedPlace
<1>8. /\ down' \in [Workers -> Seq(DownMsg)] /\ down'[w] = Append(down[w], x) /\ \A v \in Workers : v # w => down'[v] = down[v]
      /\ \A d : \A v \in Workers : d # c => Kept(down[v], down'[v], d)
  <2>1. LET q == Post(down, w, x)
        IN  /\ q \in [Workers -> Seq(DownMsg)] /\ q[w] = Append(down[w], x) /\ \A v \in Workers : v # w => q[v] = down[v]
            /\ \A d : \A v \in Workers : ~(Kind(x) \in Kinds /\ x.who = d) => Kept(down[v], q[v], d)
    BY <1>2, <1>5, Posted
  <2> QED BY <1>5, <2>1
<1>9. TypeOK'
  BY <1>1, <1>3, <1>4, <1>6, <1>7, <1>8 DEF IInv, TypeOK, RegistryTypeOK, workerVars, clientVars
<1>10. /\ ~Routed(c) /\ NothingIsStray(c) /\ \A v \in Workers : \A h : ~Current(v, c, h)
  <2>1. ~Routed(c) /\ NothingIsStray(c) BY <1>1 DEF IInv, Good, JobFitsRoute
  <2> QED BY <2>1 DEF Routed, NoRoute, Current
<1>11. RegistryInv'
  <2>1. PlacesAreHeld' BY <1>4, <1>7 DEF IInv, RegistryInv, PlacesAreHeld
  <2>2. \A d \in Conns : route[d].to = m => route[d].at = w
    <3>1. ASSUME NEW d \in Conns, route[d].to = m PROVE route[d].at = w
      <4>1. \E e \in Conns : route[e].to = m /\ route[e].at = w
        <5>1. route[d].at \in {route[e].at : e \in {f \in Conns : route[f].to = m}} BY <3>1
        <5>2. w \in {route[e].at : e \in {f \in Conns : route[f].to = m}}
          BY <1>1, <5>1 DEF WorkersFor
        <5> QED BY <5>2
      <4> QED BY <3>1, <4>1 DEF IInv, RegistryInv, OneWorkerPerMatch
    <3> QED BY <3>1
  <2>3. w \in running
    <3>1. CASE \E e \in Conns : route[e].to = m /\ route[e].at = w
      BY <3>1 DEF IInv, RegistryInv, OneWorkerPerMatch, Routed, NoRoute
    <3>2. CASE ~\E e \in Conns : route[e].to = m /\ route[e].at = w BY <1>1, <3>2 DEF WorkersFor
    <3> QED BY <3>1, <3>2
  <2>4. OneWorkerPerMatch'
    <3>1. \A d, e \in Conns : route'[d].to = route'[e].to => route'[d].at = route'[e].at
      BY <1>4, <2>2 DEF IInv, RegistryInv, OneWorkerPerMatch
    <3>2. \A d \in Conns : route'[d] # NoRoute => route'[d].at \in running'
      BY <1>1, <1>4, <2>3 DEF IInv, RegistryInv, OneWorkerPerMatch, Routed, workerVars
    <3> QED BY <3>1, <3>2 DEF OneWorkerPerMatch, Routed
  <2>5. OnlyTheOpenHavePlaces' BY <1>1, <1>7 DEF IInv, RegistryInv, OnlyTheOpenHavePlaces, Open
  <2> QED BY <1>7, <2>1, <2>4, <2>5 DEF RegistryInv
<1>12. ASSUME NEW d \in Conns, d # c PROVE Good(d)'
  <2>1. Shrinks(d) /\ Follows(d) /\ route'[d].state = route[d].state
    BY <1>1, <1>4, <1>8, <1>12, KeptItself DEF Shrinks, Follows, workerVars
  <2> QED BY <1>1, <1>3, <1>6, <1>9, <1>12, <2>1, OthersAreGood DEF IInv
<1>13. /\ \A v \in Workers : member[v][c] = NoMember
       /\ \A v \in Workers : \A i \in DOMAIN down[v] : down[v][i].who # c
       /\ \A v \in Workers : \A i \in DOMAIN up[v] : ~(up[v][i].op = "left" /\ up[v][i].who = c)
       /\ \A k : ~Says(down[w], k, c, g)
       /\ ~Says(up[w], "left", c, g) /\ ~Says(up[w], "answer", c, g) /\ <<c, g>> \notin late[w]
  <2>1. /\ \A v \in Workers : member[v][c] = NoMember
        /\ \A v \in Workers : \A i \in DOMAIN down[v] : down[v][i].who # c
        /\ \A v \in Workers : \A i \in DOMAIN up[v] : ~(up[v][i].op = "left" /\ up[v][i].who = c)
    BY <1>10 DEF NothingIsStray
  <2>2. \A k : ~Says(down[w], k, c, g) BY <2>1 DEF Says, About
  <2>3. ~Says(up[w], "left", c, g) BY <2>1 DEF Says, About, Kind
  <2>4. ~Says(up[w], "answer", c, g)
    <3> SUFFICES ASSUME NEW i \in DOMAIN up[w], About(up[w][i], "answer", c, g) PROVE FALSE
      BY DEF Says
    <3>1. g <= gen[c] BY <1>10 DEF About, NothingIsStray
    <3> QED BY <1>3, <3>1
  <2>5. <<c, g>> \notin late[w]
    <3> SUFFICES ASSUME <<c, g>> \in late[w] PROVE FALSE OBVIOUS
    <3>1. <<c, g>>[2] <= gen[c] BY <1>10 DEF NothingIsStray
    <3> QED BY <1>3, <3>1
  <2> QED BY <2>1, <2>2, <2>3, <2>4, <2>5
<1>14. /\ \A i \in DOMAIN down'[w] : down'[w][i] = x \/ \E j \in DOMAIN down[w] : down[w][j] = down'[w][i]
       /\ \A k : Says(down'[w], k, c, g) <=> k = "join"
       /\ \A k : Once(down'[w], k, c, g)
       /\ JoinsFirst(down'[w], c, g)
  <2>1. \A k : About(x, k, c, g) <=> k = "join" BY <1>5 DEF About
  <2>2. (\A k : Once(down[w], k, c, g)) /\ JoinsFirst(down[w], c, g)
    BY <1>13 DEF Says, Once, JoinsFirst
  <2>3. down[w] \in Seq(DownMsg) BY <1>2
  <2>4. LET q == Append(down[w], x)
        IN  /\ \A i \in DOMAIN q : q[i] = x \/ \E j \in DOMAIN down[w] : down[w][j] = q[i]
            /\ \A k : Says(q, k, c, g) <=> Says(down[w], k, c, g) \/ About(x, k, c, g)
            /\ \A k : Once(down[w], k, c, g) /\ (About(x, k, c, g) => ~Says(down[w], k, c, g)) => Once(q, k, c, g)
            /\ JoinsFirst(down[w], c, g) /\ (About(x, "join", c, g) => ~Says(down[w], "leave", c, g)) => JoinsFirst(q, c, g)
    BY <1>5, <2>3, SaidMore
  <2> QED BY <1>8, <1>13, <2>1, <2>2, <2>4
<1>15. RunEndsOnce(c, w, g)'
  <2>1. Once(up'[w], "left", c, g) /\ ~Says(up'[w], "left", c, g) BY <1>1, <1>13 DEF Says, Once
  <2>2. member'[w][c] = NoMember /\ ~Says(down'[w], "leave", c, g)
    BY <1>1, <1>13, <1>14 DEF workerVars
  <2> QED BY <1>14, <2>1, <2>2 DEF RunEndsOnce
<1>16. EntryIsAnswered(c, w, g)'
  <2>1. Once(up'[w], "answer", c, g) /\ ~Says(up'[w], "answer", c, g) /\ <<c, g>> \notin late'[w]
    BY <1>1, <1>13 DEF Says, Once, workerVars
  <2> QED BY <1>6, <2>1 DEF EntryIsAnswered
<1>17. NothingIsStray(c)'
  <2> SUFFICES ASSUME NEW v \in Workers
           PROVE  /\ \A i \in DOMAIN down'[v] : down'[v][i].who = c =>
                       /\ route'[c].at = v /\ gen'[c] = down'[v][i].gen
                       /\ down'[v][i].op = "join" => down'[v][i].to = route'[c].to
                  /\ \A i \in DOMAIN up'[v] :
                       /\ up'[v][i].op = "left" /\ up'[v][i].who = c => route'[c].at = v /\ gen'[c] = up'[v][i].gen
                       /\ Kind(up'[v][i]) = "answer" /\ up'[v][i].who = c => up'[v][i].gen <= gen'[c]
                  /\ \A e \in late'[v] : e[1] = c => e[2] <= gen'[c]
                  /\ member'[v][c] # NoMember =>
                       /\ route'[c].at = v /\ gen'[c] = member'[v][c].gen /\ route'[c].to = member'[v][c].to
                       /\ member'[v][c].leaving # "no" => route'[c].state = "leaving"
    BY DEF NothingIsStray, Current
  <2>1. \A i \in DOMAIN down'[v] : down'[v][i].who = c => v = w /\ down'[v][i] = x
    <3> SUFFICES ASSUME NEW i \in DOMAIN down'[v], down'[v][i].who = c PROVE v = w /\ down'[v][i] = x
      OBVIOUS
    <3>1. ~\E j \in DOMAIN down[v] : down[v][j] = down'[v][i] BY <1>13
    <3>2. v = w BY <1>8, <3>1
    <3> QED BY <1>14, <3>1, <3>2
  <2>2. \A i \in DOMAIN up[v] : Kind(up[v][i]) = "answer" /\ up[v][i].who = c => up[v][i].gen <= gen'[c]
    <3> SUFFICES ASSUME NEW i \in DOMAIN up[v], Kind(up[v][i]) = "answer", up[v][i].who = c PROVE up[v][i].gen <= gen'[c]
      OBVIOUS
    <3>1. up[v][i].gen <= gen[c] BY <1>10 DEF NothingIsStray
    <3>2. up[v][i].op \in {"joined", "failed"}
      <4>1. up[v][i] \in UpMsg BY <1>2, ElementOfSeq
      <4> QED BY <4>1 DEF UpMsg, Kind
    <3>3. up[v][i].gen \in Nat
      <4>1. up[v][i] \in UpMsg BY <1>2, ElementOfSeq
      <4> QED BY <3>2, <4>1 DEF UpMsg
    <3> QED BY <1>3, <3>1, <3>3
  <2>3. \A e \in late[v] : e[1] = c => e[2] <= gen'[c]
    <3> SUFFICES ASSUME NEW e \in late[v], e[1] = c PROVE e[2] <= gen'[c] OBVIOUS
    <3>1. e[2] <= gen[c] BY <1>10 DEF NothingIsStray
    <3>2. e[2] \in Nat BY DEF IInv, TypeOK
    <3> QED BY <1>3, <3>1, <3>2
  <2>4. \A i \in DOMAIN down'[v] : down'[v][i].who = c =>
          /\ route'[c].at = v /\ gen'[c] = down'[v][i].gen
          /\ down'[v][i].op = "join" => down'[v][i].to = route'[c].to
    BY <1>3, <1>4, <1>5, <2>1
  <2>5. up' = up /\ late' = late /\ member' = member BY <1>1 DEF workerVars
  <2> QED BY <1>13, <2>2, <2>3, <2>4, <2>5
<1>18. Good(c)'
  <2>1. JobFitsRoute(c)' BY <1>4, <1>6 DEF JobFitsRoute
  <2>2. route'[c].at = w /\ gen'[c] = g /\ gen'[c] >= 1 BY <1>3, <1>4
  <2> QED BY <1>15, <1>16, <1>17, <2>1, <2>2 DEF Good
<1> QED BY <1>9, <1>11, <1>12, <1>18 DEF IInv

LEMMA ConnStep ==
  ASSUME IInv, NEW c \in Conns, ConnNext(c) PROVE IInv'
BY LoginStep, CloseStep, RequestEntryStep, RequestExitStep, EndsStep, DoorAdmissionThrowsStep, DoorLeavesStep, AdmittedStep
   DEF ConnNext

-----------------------------------------------------------------------------
(* What the main thread hears.                                             *)

LEMMA HearsOne ==
  ASSUME TypeOK, NEW w \in Workers, NEW op, Hears(w, op)
  PROVE  /\ up' \in [Workers -> Seq(UpMsg)] /\ up'[w] = Tail(up[w]) /\ \A v \in Workers : v # w => up'[v] = up[v]
         /\ \A d \in Conns, v \in Workers : Kept(up[v], up'[v], d)
         /\ up[w] \in Seq(UpMsg) /\ up[w] # <<>> /\ Head(up[w]) \in UpMsg /\ Head(up[w]).op = op
<1>1. up[w] # <<>> /\ up' = [up EXCEPT ![w] = Tail(@)] /\ up \in [Workers -> Seq(UpMsg)] /\ Head(up[w]).op = op
  BY DEF Hears, TypeOK
<1>2. LET r == [up EXCEPT ![w] = Tail(@)]
      IN  /\ r \in [Workers -> Seq(UpMsg)] /\ r[w] = Tail(up[w]) /\ Head(up[w]) \in UpMsg
          /\ \A v \in Workers : v # w => r[v] = up[v]
          /\ \A d : \A v \in Workers : Kept(up[v], r[v], d)
  BY <1>1, Heard
<1> QED BY <1>1, <1>2

LEMMA MessageFields ==
  ASSUME NEW x \in UpMsg
  PROVE  /\ x.op \in {"ready", "joined", "failed", "door", "home", "close", "left"} => x.who \in Conns /\ x.gen \in Nat \ {0}
         /\ x.op \in {"finished", "matchFailed"} => x.to \in MatchIds
         /\ x.op = "left" => x.note \in {"disables", "silent"}
BY DEF UpMsg

\* Markers and frames that are no answers.
LEMMA UpHeardStays ==
  ASSUME IInv, NEW w \in Workers, NEW op, Hears(w, op), TypeOK',
         UNCHANGED <<online, cancelled, gen, route, in, byAccount, running, member, late, down>>,
         \A m \in MatchIds : state[m] \in {"active", "finished", "failed"} => state'[m] \in {"active", "finished", "failed"},
         \A c \in Conns : job'[c] = job[c] \/ (job[c].phase = "none" /\ job'[c].phase = "checking")
  PROVE  IInv'
<1>1. \A d \in Conns, v \in Workers : Kept(up[v], up'[v], d) BY HearsOne DEF IInv
<1>2. RegistryInv'
  <2>1. \A d \in Conns : Follows(d) /\ route'[d].state = route[d].state BY DEF Follows
  <2> QED BY <2>1, RegistryStays DEF IInv
<1>3. ASSUME NEW d \in Conns PROVE Good(d)'
  <2>1. Shrinks(d) /\ Follows(d) BY <1>1, KeptItself DEF Shrinks, Follows
  <2>2. JobFitsRoute(d)' BY DEF IInv, Good, JobFitsRoute, Routed
  <2> QED BY <2>1, <2>2, GoodShrinks DEF IInv
<1> QED BY <1>2, <1>3 DEF IInv

LEMMA ReadyStep ==
  ASSUME IInv, NEW w \in Workers, ReadyArrives(w) PROVE IInv'
<1>1. /\ Hears(w, "ready") /\ UNCHANGED <<connVars, registryVars, workerVars, down, home, crashes>>
      /\ shown' \in {shown \cup {Head(up[w]).who}, shown}
  BY DEF ReadyArrives
<1>2. /\ up' \in [Workers -> Seq(UpMsg)] /\ Head(up[w]).who \in Conns
  BY <1>1, HearsOne, MessageFields DEF IInv
<1>3. TypeOK' BY <1>1, <1>2 DEF IInv, TypeOK, connVars, registryVars, workerVars
<1> QED BY <1>1, <1>3, UpHeardStays DEF connVars, registryVars, workerVars

LEMMA DoorStep ==
  ASSUME IInv, NEW w \in Workers, DoorArrives(w) PROVE IInv'
<1> DEFINE c == Head(up[w]).who
           j == [kind |-> "door", phase |-> "checking"]
<1>1. /\ Hears(w, "door") /\ UNCHANGED <<online, cancelled, exit, gen, route, registryVars, workerVars, down, clientVars, crashes>>
      /\ job' = job \/ (job[c] = NoJob /\ job' = [job EXCEPT ![c] = j])
  BY DEF DoorArrives, Busy
<1>2. up' \in [Workers -> Seq(UpMsg)] /\ c \in Conns BY <1>1, HearsOne, MessageFields DEF IInv
<1>3. j \in Jobs /\ j.phase = "checking" /\ NoJob.phase = "none" BY DEF Jobs, NoJob
<1> HIDE DEF c, j
<1>4. TypeOK'
  <2>1. job' \in [Conns -> Jobs] BY <1>1, <1>2, <1>3 DEF IInv, TypeOK
  <2> QED BY <1>1, <1>2, <2>1 DEF IInv, TypeOK, registryVars, workerVars, clientVars
<1>5. \A d \in Conns : job'[d] = job[d] \/ (job[d].phase = "none" /\ job'[d].phase = "checking")
  BY <1>1, <1>2, <1>3 DEF IInv, TypeOK
<1>6. UNCHANGED <<online, cancelled, gen, route, state, in, byAccount, running, member, late, down>>
  BY <1>1 DEF registryVars, workerVars
<1>7. Hears(w, "door") BY <1>1
<1> QED BY <1>4, <1>5, <1>6, <1>7, UpHeardStays

LEMMA CloseArrivesStep ==
  ASSUME IInv, NEW w \in Workers, CloseArrives(w) PROVE IInv'
<1>1. Hears(w, "close") /\ UNCHANGED <<job, exit, gen, workerVars, clientVars, crashes>>
  BY DEF CloseArrives
<1>2. PICK c \in Conns : c = Head(up[w]).who BY <1>1, HearsOne, MessageFields DEF IInv
<1>3. up' \in [Workers -> Seq(UpMsg)] /\ \A d \in Conns, v \in Workers : Kept(up[v], up'[v], d)
  BY <1>1, HearsOne DEF IInv
<1>4. \/ Open(c) /\ online' = [online EXCEPT ![c] = "closing"] /\ Disconnect(c)
      \/ UNCHANGED <<online, cancelled, route, registryVars, down>>
  BY <1>2 DEF CloseArrives
<1>5. CASE Open(c) /\ online' = [online EXCEPT ![c] = "closing"] /\ Disconnect(c)
  <2>1. online' \in [Conns -> {"off", "on", "closing", "gone"}] BY <1>5 DEF IInv, TypeOK
  <2>2. \A d \in Conns : Open(d)' <=> Open(d) /\ d # c BY <1>5 DEF Open, IInv, TypeOK
  <2>3. \A e, f \in Conns : Open(e)' /\ Open(f)' /\ AccountOf[e] = AccountOf[f] => e = f
    BY <2>2 DEF IInv, RegistryInv, OnlyTheOpenHavePlaces
  <2> QED BY <1>1, <1>3, <1>5, <2>1, <2>2, <2>3, DisconnectsOnceHeard DEF IInv
<1>6. CASE UNCHANGED <<online, cancelled, route, registryVars, down>>
  <2>1. TypeOK' BY <1>1, <1>3, <1>6 DEF IInv, TypeOK, registryVars, workerVars, clientVars
  <2> QED BY <1>1, <1>6, <2>1, UpHeardStays DEF registryVars, workerVars
<1> QED BY <1>4, <1>5, <1>6

LEMMA MatchStep ==
  ASSUME IInv, NEW w \in Workers, MatchArrives(w) PROVE IInv'
<1>1. PICK op \in {"finished", "matchFailed"} :
        /\ Hears(w, op)
        /\ LET m == Head(up[w]).to
           IN state' = IF state[m] \in {"unused", "closed"} THEN state
                       ELSE [state EXCEPT ![m] = IF op = "finished" THEN "finished" ELSE "failed"]
  BY DEF MatchArrives
<1>2. UNCHANGED <<connVars, in, byAccount, workerVars, down, clientVars, crashes>>
  BY DEF MatchArrives
<1>3. up' \in [Workers -> Seq(UpMsg)] /\ Head(up[w]).to \in MatchIds
  BY <1>1, HearsOne, MessageFields DEF IInv
<1>4. PICK m \in MatchIds, s \in {"finished", "failed"} : state' \in {state, [state EXCEPT ![m] = s]}
  BY <1>1, <1>3
<1>5. /\ state' \in [MatchIds -> {"unused", "active", "finished", "failed", "closed"}]
      /\ \A n \in MatchIds : state[n] \in {"active", "finished", "failed"} => state'[n] \in {"active", "finished", "failed"}
  BY <1>4 DEF IInv, TypeOK
<1>6. TypeOK' BY <1>2, <1>3, <1>5 DEF IInv, TypeOK, connVars, workerVars, clientVars
<1> QED BY <1>1, <1>2, <1>5, <1>6, UpHeardStays DEF connVars, workerVars

LEMMA HomeStep ==
  ASSUME IInv, NEW w \in Workers, HomeArrives(w) PROVE IInv'
<1>1. /\ Hears(w, "home") /\ UNCHANGED <<online, job, gen, workerVars, shown, crashes>>
      /\ Exits(Head(up[w]).who) \/ UNCHANGED <<cancelled, exit, route, registryVars, down, home>>
  BY DEF HomeArrives
<1>2. /\ up' \in [Workers -> Seq(UpMsg)] /\ Head(up[w]).who \in Conns
      /\ \A d \in Conns, v \in Workers : Kept(up[v], up'[v], d)
  BY <1>1, HearsOne, MessageFields DEF IInv
<1>3. CASE Exits(Head(up[w]).who) BY <1>1, <1>2, <1>3, ExitsDo
<1>4. CASE UNCHANGED <<cancelled, exit, route, registryVars, down, home>>
  <2>1. TypeOK' BY <1>1, <1>2, <1>4 DEF IInv, TypeOK, registryVars, workerVars
  <2> QED BY <1>1, <1>4, <2>1, UpHeardStays DEF registryVars, workerVars
<1> QED BY <1>1, <1>3, <1>4

\* The answer of an entry that is still awaited.
LEMMA AnswerHeard ==
  ASSUME IInv, NEW w \in Workers, NEW op \in {"joined", "failed"}, Hears(w, op), IsCurrent(w, Head(up[w]))
  PROVE  LET c == Head(up[w]).who
         IN  /\ c \in Conns /\ Routed(c) /\ job[c].phase = "loading" /\ job[c] \in Jobs /\ job[c] # NoJob
             /\ \A v \in Workers : v = route[c].at => IsAnswered(c, v, gen[c])
             /\ c \notin cancelled => route[c].state = "joining"
<1> DEFINE x == Head(up[w])
           c == x.who
<1>1. /\ up'[w] = Tail(up[w]) /\ up[w] \in Seq(UpMsg) /\ up[w] # <<>> /\ x \in UpMsg /\ x.op = op
      /\ c \in Conns /\ x.gen \in Nat \ {0}
  BY HearsOne, MessageFields DEF IInv
<1> HIDE DEF x
<1>2. route[c].at = w /\ gen[c] = x.gen /\ Routed(c) BY DEF IsCurrent, x, Routed, NoRoute
<1>3. Kind(x) = "answer" /\ About(x, "answer", c, gen[c]) BY <1>1, <1>2 DEF Kind, About
<1>4. PICK g \in Nat : g = gen[c] BY <1>1, <1>2
<1>5. RunEndsOnce(c, w, g) /\ EntryIsAnswered(c, w, g) /\ JobFitsRoute(c)
  BY <1>1, <1>2, <1>4 DEF IInv, Good
<1>6. /\ \A k : About(x, k, c, g) => Says(up[w], k, c, g)
      /\ \A k : About(x, k, c, g) /\ Once(up[w], k, c, g) => ~Says(up'[w], k, c, g)
  <2>1. /\ \A k : About(Head(up[w]), k, c, g) => Says(up[w], k, c, g)
        /\ \A k : About(Head(up[w]), k, c, g) /\ Once(up[w], k, c, g) => ~Says(Tail(up[w]), k, c, g)
    BY <1>1, SaidFirst
  <2> QED BY <1>1, <2>1 DEF x
<1>7. job[c].phase = "loading" /\ IsAnswered(c, w, g)
  BY <1>3, <1>4, <1>5, <1>6 DEF EntryIsAnswered, IsAnswered
<1>8. job[c] \in Jobs /\ job[c] # NoJob BY <1>1, <1>7 DEF IInv, TypeOK, NoJob
<1>9. c \notin cancelled => route[c].state = "joining" BY <1>5, <1>7 DEF JobFitsRoute
<1> QED BY <1>1, <1>2, <1>4, <1>7, <1>8, <1>9 DEF x

LEMMA JobMoves ==
  ASSUME TypeOK, NEW c \in Conns, job[c] # NoJob, NEW p \in {"admitting", "loading", "unwinding", "failing"},
         job' = [job EXCEPT ![c].phase = p]
  PROVE  job' \in [Conns -> Jobs] /\ job'[c].phase = p /\ \A d \in Conns : d # c => job'[d] = job[d]
<1>1. [job[c] EXCEPT !.phase = p] \in Jobs /\ [job[c] EXCEPT !.phase = p].phase = p
  <2>1. job[c] \in Jobs BY DEF TypeOK
  <2>2. PICK j \in Jobs : j = job[c] /\ j # NoJob BY <2>1
  <2>3. \A q \in {"admitting", "loading", "unwinding", "failing"} :
          [j EXCEPT !.phase = q] \in Jobs /\ [j EXCEPT !.phase = q].phase = q
    BY <2>2, JobFields, ZenonT(60)
  <2> QED BY <2>2, <2>3
<1>2. job' = [job EXCEPT ![c] = [job[c] EXCEPT !.phase = p]] BY DEF TypeOK
<1> QED BY <1>1, <1>2 DEF TypeOK

LEMMA JoinedStep ==
  ASSUME IInv, NEW w \in Workers, JoinedArrives(w) PROVE IInv'
<1>1. Hears(w, "joined") /\ UNCHANGED <<registryVars, workerVars, down, clientVars, crashes>>
  BY DEF JoinedArrives
<1>2. /\ up' \in [Workers -> Seq(UpMsg)] /\ \A d \in Conns, v \in Workers : Kept(up[v], up'[v], d)
  BY <1>1, HearsOne DEF IInv
<1>3. CASE ~IsCurrent(w, Head(up[w]))
  <2>1. UNCHANGED connVars BY <1>3 DEF JoinedArrives
  <2>2. TypeOK'
    BY <1>1, <1>2, <2>1 DEF IInv, TypeOK, connVars, registryVars, workerVars, clientVars
  <2> QED BY <1>1, <2>1, <2>2, UpHeardStays DEF connVars, registryVars, workerVars
<1>4. CASE IsCurrent(w, Head(up[w]))
  <2>1. PICK c : c = Head(up[w]).who OBVIOUS
  <2>2. /\ c \in Conns /\ Routed(c) /\ job[c].phase = "loading" /\ job[c] \in Jobs /\ job[c] # NoJob
        /\ \A v \in Workers : v = route[c].at => IsAnswered(c, v, gen[c])
        /\ c \notin cancelled => route[c].state = "joining"
    BY <1>1, <1>4, <2>1, AnswerHeard
  <2>3. CASE c \in cancelled
    <3>1. /\ job' = [job EXCEPT ![c].phase = "unwinding"] /\ UNCHANGED <<online, cancelled, exit, gen, route>>
      BY <1>4, <2>1, <2>3 DEF JoinedArrives
    <3>2. job' \in [Conns -> Jobs] /\ job'[c].phase = "unwinding" /\ \A d \in Conns : d # c => job'[d] = job[d]
      BY <2>2, <3>1, JobMoves DEF IInv
    <3>3. TypeOK'
      BY <1>1, <1>2, <3>1, <3>2 DEF IInv, TypeOK, registryVars, workerVars, clientVars
    <3> QED BY <1>1, <1>2, <2>2, <3>1, <3>2, <3>3, TransitionStays DEF registryVars, workerVars
  <2>4. CASE c \notin cancelled
    <3>1. /\ route' = [route EXCEPT ![c].state = "entered"] /\ JobEnds(c) /\ UNCHANGED <<online, gen>>
      BY <1>4, <2>1, <2>4 DEF JoinedArrives
    <3>2. /\ route' \in [Conns -> Routes] /\ route'[c].state = "entered" /\ route'[c].at = route[c].at
          /\ route'[c].to = route[c].to /\ \A d \in Conns : d # c => route'[d] = route[d]
      <4>1. route[c] \in [at : Workers, to : MatchIds, state : {"joining", "entered", "leaving"}]
        BY <2>2 DEF IInv, TypeOK, Routes, Routed
      <4>2. PICK r : r = [route[c] EXCEPT !.state = "entered"] OBVIOUS
      <4>3. r \in Routes /\ r.state = "entered" /\ r.at = route[c].at /\ r.to = route[c].to
        BY <4>1, <4>2 DEF Routes
      <4>4. route' = [route EXCEPT ![c] = r] BY <2>2, <3>1, <4>2 DEF IInv, TypeOK
      <4> QED BY <2>2, <4>3, <4>4 DEF IInv, TypeOK
    <3>3. /\ job' \in [Conns -> Jobs] /\ cancelled' \subseteq Conns /\ exit' \in [Conns -> {"none", "leaving", "waiting"}]
          /\ job'[c].phase = "none"
          /\ \A d \in Conns : d # c => job'[d] = job[d] /\ (d \in cancelled' <=> d \in cancelled)
      BY <2>2, <3>1, JobEndsTypes DEF IInv
    <3>4. TypeOK'
      BY <1>1, <1>2, <3>1, <3>2, <3>3 DEF IInv, TypeOK, registryVars, workerVars, clientVars
    <3>5. \A d \in Conns : Follows(d) /\ (route'[d].state = route[d].state \/ d = c)
      BY <2>2, <2>4, <3>2 DEF Follows
    <3>6. RegistryInv'
      <4>1. {route[c].state, route'[c].state} = {"joining", "entered"} BY <2>2, <2>4, <3>2
      <4>2. \A m \in MatchIds : state'[m] = state[m] BY <1>1 DEF registryVars
      <4> QED BY <1>1, <3>1, <3>4, <3>5, <4>1, <4>2, RegistryStays DEF IInv, registryVars, workerVars
    <3>7. \A d \in Conns : Shrinks(d) BY <1>1, <1>2, KeptItself DEF Shrinks, workerVars
    <3>8. \A d \in Conns : d # c => Good(d)'
      BY <3>1, <3>2, <3>3, <3>4, <3>5, <3>7, OthersAreGood DEF IInv
    <3>9. Good(c)'
      <4>1. JobFitsRoute(c)' BY <3>3 DEF JobFitsRoute
      <4> QED BY <2>2, <3>1, <3>4, <3>5, <3>7, <4>1, GoodShrinks DEF IInv
    <3> QED BY <3>4, <3>6, <3>8, <3>9 DEF IInv
  <2> QED BY <2>3, <2>4
<1> QED BY <1>3, <1>4

LEMMA FailedStep ==
  ASSUME IInv, NEW w \in Workers, FailedArrives(w) PROVE IInv'
<1>1. Hears(w, "failed") /\ UNCHANGED <<workerVars, clientVars, crashes>> BY DEF FailedArrives
<1>2. /\ up' \in [Workers -> Seq(UpMsg)] /\ \A d \in Conns, v \in Workers : Kept(up[v], up'[v], d)
  BY <1>1, HearsOne DEF IInv
<1>3. CASE ~IsCurrent(w, Head(up[w]))
  <2>1. UNCHANGED <<connVars, registryVars, down>> BY <1>3 DEF FailedArrives
  <2>2. TypeOK'
    BY <1>1, <1>2, <2>1 DEF IInv, TypeOK, connVars, registryVars, workerVars, clientVars
  <2> QED BY <1>1, <2>1, <2>2, UpHeardStays DEF connVars, registryVars, workerVars
<1>4. CASE IsCurrent(w, Head(up[w]))
  <2>1. PICK c : c = Head(up[w]).who OBVIOUS
  <2>2. /\ c \in Conns /\ Routed(c) /\ job[c].phase = "loading" /\ job[c] \in Jobs /\ job[c] # NoJob
        /\ \A v \in Workers : v = route[c].at => IsAnswered(c, v, gen[c])
        /\ c \notin cancelled => route[c].state = "joining"
    BY <1>1, <1>4, <2>1, AnswerHeard
  <2>3. CASE c \in cancelled
    <3>1. JobEnds(c) /\ UNCHANGED <<online, gen, route, registryVars, down>>
      BY <1>4, <2>1, <2>3 DEF FailedArrives
    <3>2. /\ job' \in [Conns -> Jobs] /\ cancelled' \subseteq Conns /\ exit' \in [Conns -> {"none", "leaving", "waiting"}]
          /\ job'[c].phase = "none"
          /\ \A d \in Conns : d # c => job'[d] = job[d] /\ (d \in cancelled' <=> d \in cancelled)
      BY <2>2, <3>1, JobEndsTypes DEF IInv
    <3>3. TypeOK'
      BY <1>1, <1>2, <3>1, <3>2 DEF IInv, TypeOK, registryVars, workerVars, clientVars
    <3> QED BY <1>1, <1>2, <2>2, <3>1, <3>2, <3>3, TransitionStays DEF workerVars
  <2>4. CASE c \notin cancelled
    <3>1. /\ job' = [job EXCEPT ![c].phase = "failing"] /\ Leave(c, "disables")
          /\ UNCHANGED <<online, cancelled, exit, gen>>
      BY <1>4, <2>1, <2>4 DEF FailedArrives
    <3>2. job' \in [Conns -> Jobs] /\ job'[c].phase = "failing" /\ \A d \in Conns : d # c => job'[d] = job[d]
      BY <2>2, <3>1, JobMoves DEF IInv
    <3>3. route' \in [Conns -> Routes] /\ down' \in [Workers -> Seq(DownMsg)] /\ RegistryTypeOK'
      BY <2>2, <3>1, LeaveTypes DEF IInv
    <3>4. TypeOK'
      BY <1>1, <1>2, <3>1, <3>2, <3>3 DEF IInv, TypeOK, RegistryTypeOK, workerVars, clientVars
    <3>5. /\ \A d \in Conns : Open(d)' = Open(d)
          /\ \A d, e \in Conns : Open(d)' /\ Open(e)' /\ AccountOf[d] = AccountOf[e] => d = e
      BY <3>1 DEF Open, IInv, RegistryInv, OnlyTheOpenHavePlaces
    <3> QED BY <1>1, <1>2, <2>2, <3>1, <3>2, <3>4, <3>5, AllLeave DEF IInv, workerVars
  <2> QED BY <2>3, <2>4
<1> QED BY <1>3, <1>4

-----------------------------------------------------------------------------
(* What a worker does.                                                     *)

LEMMA PostsUp ==
  ASSUME TypeOK, NEW w \in Workers, NEW x \in UpMsg, up' = Post(up, w, x)
  PROVE  /\ up' \in [Workers -> Seq(UpMsg)] /\ \A v \in Workers : v # w => up'[v] = up[v]
         /\ \A i \in DOMAIN up'[w] : up'[w][i] = x \/ \E j \in DOMAIN up[w] : up[w][j] = up'[w][i]
         /\ \A k, c, g : Says(up'[w], k, c, g) <=> Says(up[w], k, c, g) \/ About(x, k, c, g)
         /\ \A k, c, g : Once(up[w], k, c, g) /\ (About(x, k, c, g) => ~Says(up[w], k, c, g)) => Once(up'[w], k, c, g)
         /\ \A d : \A v \in Workers : ~(Kind(x) \in Kinds /\ x.who = d) => Kept(up[v], up'[v], d)
<1>1. up \in [Workers -> Seq(UpMsg)] /\ up[w] \in Seq(UpMsg) BY DEF TypeOK
<1>2. LET r == Post(up, w, x)
      IN  /\ r \in [Workers -> Seq(UpMsg)] /\ r[w] = Append(up[w], x) /\ \A v \in Workers : v # w => r[v] = up[v]
          /\ \A c : \A v \in Workers : ~(Kind(x) \in Kinds /\ x.who = c) => Kept(up[v], r[v], c)
  BY <1>1, Posted
<1>3. LET r == Append(up[w], x)
      IN  /\ \A i \in DOMAIN r : r[i] = x \/ \E j \in DOMAIN up[w] : up[w][j] = r[i]
          /\ \A k, c, g : Says(r, k, c, g) <=> Says(up[w], k, c, g) \/ About(x, k, c, g)
          /\ \A k, c, g : Once(up[w], k, c, g) /\ (About(x, k, c, g) => ~Says(up[w], k, c, g)) => Once(r, k, c, g)
  BY <1>1, SaidMore
<1>4. up'[w] = Append(up[w], x) /\ up' = Post(up, w, x) BY <1>2
<1>5. /\ \A i \in DOMAIN up'[w] : up'[w][i] = x \/ \E j \in DOMAIN up[w] : up[w][j] = up'[w][i]
      /\ \A k, c, g : Says(up'[w], k, c, g) <=> Says(up[w], k, c, g) \/ About(x, k, c, g)
      /\ \A k, c, g : Once(up[w], k, c, g) /\ (About(x, k, c, g) => ~Says(up[w], k, c, g)) => Once(up'[w], k, c, g)
  BY <1>3, <1>4
<1>6. /\ up' \in [Workers -> Seq(UpMsg)] /\ \A v \in Workers : v # w => up'[v] = up[v]
      /\ \A d : \A v \in Workers : ~(Kind(x) \in Kinds /\ x.who = d) => Kept(up[v], up'[v], d)
  BY <1>2, <1>4
<1> QED BY <1>5, <1>6

LEMMA MarkerFields ==
  ASSUME NEW op \in {"ready", "joined", "failed", "door", "home", "close"}, NEW c \in Conns, NEW g \in Nat \ {0}
  PROVE  /\ Marker(op, c, g) \in UpMsg /\ Marker(op, c, g).who = c /\ Marker(op, c, g).gen = g /\ Marker(op, c, g).op = op
         /\ Kind(Marker(op, c, g)) = IF op \in {"joined", "failed"} THEN "answer" ELSE op
         /\ \A k, d, h : About(Marker(op, c, g), k, d, h) <=>
                           k = (IF op \in {"joined", "failed"} THEN "answer" ELSE op) /\ d = c /\ h = g
BY DEF Marker, UpMsg, Kind, About

LEMMA LeftFields ==
  ASSUME NEW note \in {"disables", "silent"}, NEW c \in Conns, NEW g \in Nat \ {0}
  PROVE  /\ Left(c, g, note) \in UpMsg /\ Left(c, g, note).who = c /\ Left(c, g, note).gen = g
         /\ Left(c, g, note).op = "left" /\ Kind(Left(c, g, note)) = "left"
         /\ \A k, d, h : About(Left(c, g, note), k, d, h) <=> k = "left" /\ d = c /\ h = g
BY DEF Left, UpMsg, Kind, About

\* A worker takes a message: it is of the current run of a connection, and the last of its kind.
LEMMA TakesOne ==
  ASSUME IInv, NEW w \in Workers, NEW op \in {"join", "leave"}, Takes(w, op)
  PROVE  LET x == Head(down[w])
             c == x.who
         IN  /\ down' \in [Workers -> Seq(DownMsg)] /\ \A v \in Workers : v # w => down'[v] = down[v]
             /\ \A d \in Conns, v \in Workers : Kept(down[v], down'[v], d)
             /\ \A i \in DOMAIN down'[w] : \E j \in DOMAIN down[w] : down[w][j] = down'[w][i]
             /\ x \in DownMsg /\ x.op = op /\ c \in Conns /\ x.gen \in Nat \ {0}
             /\ Routed(c) /\ route[c].at = w /\ gen[c] = x.gen /\ (op = "join" => x.to = route[c].to /\ x.to \in MatchIds)
             /\ Says(down[w], op, c, x.gen) /\ ~Says(down'[w], op, c, x.gen)
             /\ op = "leave" => ~Says(down[w], "join", c, x.gen)
             /\ RunEndsOnce(c, w, x.gen) /\ EntryIsAnswered(c, w, x.gen) /\ NothingIsStray(c)
<1> DEFINE x == Head(down[w])
           c == x.who
<1>1. /\ down[w] # <<>> /\ x.op = op /\ down' = [down EXCEPT ![w] = Tail(@)]
      /\ down \in [Workers -> Seq(DownMsg)] /\ down[w] \in Seq(DownMsg)
  BY DEF Takes, IInv, TypeOK
<1>2. /\ down' \in [Workers -> Seq(DownMsg)] /\ down'[w] = Tail(down[w]) /\ \A v \in Workers : v # w => down'[v] = down[v]
      /\ \A d : \A v \in Workers : Kept(down[v], down'[v], d)
  <2>1. LET r == [down EXCEPT ![w] = Tail(@)]
        IN  /\ r \in [Workers -> Seq(DownMsg)] /\ r[w] = Tail(down[w]) /\ Head(down[w]) \in DownMsg
            /\ \A v \in Workers : v # w => r[v] = down[v]
            /\ \A d : \A v \in Workers : Kept(down[v], r[v], d)
    <3>1. down \in [Workers -> Seq(DownMsg)] /\ down[w] # <<>> BY <1>1
    <3> QED BY <3>1, Heard
  <2> QED BY <1>1, <2>1
<1>3. /\ x \in DownMsg /\ \E i \in DOMAIN down[w] : down[w][i] = x
      /\ \A i \in DOMAIN down'[w] : \E j \in DOMAIN down[w] : down[w][j] = down'[w][i]
      /\ \A k, d, g : About(x, k, d, g) => Says(down[w], k, d, g)
      /\ \A k, d, g : About(x, k, d, g) /\ Once(down[w], k, d, g) => ~Says(down'[w], k, d, g)
      /\ \A d, g : About(x, "leave", d, g) /\ JoinsFirst(down[w], d, g) => ~Says(down[w], "join", d, g)
  BY <1>1, <1>2, SaidFirst
<1> HIDE DEF x
<1>4. c \in Conns /\ x.gen \in Nat \ {0} /\ (op = "join" => x.to \in MatchIds)
  BY <1>1, <1>3 DEF DownMsg
<1>5. NothingIsStray(c) BY <1>4 DEF IInv, Good
<1>6. route[c].at = w /\ gen[c] = x.gen /\ (op = "join" => x.to = route[c].to)
  BY <1>1, <1>3, <1>5 DEF NothingIsStray, Current
<1>7. Routed(c) BY <1>6 DEF Routed, NoRoute
<1>8. RunEndsOnce(c, w, x.gen) /\ EntryIsAnswered(c, w, x.gen)
  BY <1>4, <1>6, <1>7 DEF IInv, Good
<1>9. About(x, op, c, x.gen) BY <1>1 DEF About, Kind
<1>10. Once(down[w], op, c, x.gen) /\ JoinsFirst(down[w], c, x.gen) BY <1>8 DEF RunEndsOnce
<1>11. Says(down[w], op, c, x.gen) /\ ~Says(down'[w], op, c, x.gen) BY <1>3, <1>9, <1>10
<1>12. op = "leave" => ~Says(down[w], "join", c, x.gen) BY <1>3, <1>9, <1>10
<1>13. \A d \in Conns, v \in Workers : Kept(down[v], down'[v], d) BY <1>2
<1>14. x.op = op BY <1>1
<1> QED BY <1>2, <1>3, <1>4, <1>5, <1>6, <1>7, <1>8, <1>11, <1>12, <1>13, <1>14 DEF x

LEMMA WorkerStepIs ==
  ASSUME IInv, TypeOK', UNCHANGED <<connVars, registryVars, running>>, NEW c \in Conns, Good(c)',
         \A d \in Conns : d # c => Shrinks(d)
  PROVE  IInv'
<1>1. \A d \in Conns : Follows(d) /\ route'[d].state = route[d].state BY DEF Follows, connVars
<1>2. RegistryInv' BY <1>1, RegistryStays DEF IInv, connVars, registryVars
<1>3. ASSUME NEW d \in Conns, d # c PROVE Good(d)'
  BY <1>1, <1>3, OthersAreGood DEF IInv, connVars
<1> QED BY <1>2, <1>3 DEF IInv

\* The run of c, once its worker has done something about it.
LEMMA RunIsGood ==
  ASSUME IInv, TypeOK', UNCHANGED connVars, NEW c \in Conns, NEW w \in Workers, NEW g \in Nat,
         Routed(c), route[c].at = w, gen[c] = g, RunEndsOnce(c, w, g)', EntryIsAnswered(c, w, g)',
         \A v \in Workers : v # w =>
           up'[v] = up[v] /\ down'[v] = down[v] /\ member'[v][c] = member[v][c] /\ late'[v] = late[v],
         \A i \in DOMAIN down'[w] : \E j \in DOMAIN down[w] : down[w][j] = down'[w][i],
         \A i \in DOMAIN up'[w] : Kind(up'[w][i]) \in {"left", "answer"} =>
           up'[w][i].gen = g \/ \E j \in DOMAIN up[w] : up[w][j] = up'[w][i],
         \A e \in late'[w] : e[1] = c => e[2] = g \/ e \in late[w],
         member'[w][c] # NoMember => /\ member'[w][c].gen = g /\ member'[w][c].to = route[c].to
                                     /\ member'[w][c].leaving # "no" => route[c].state = "leaving"
  PROVE  Good(c)'
<1>1. gen[c] >= 1 /\ JobFitsRoute(c) /\ NothingIsStray(c) BY DEF IInv, Good
<1>2. JobFitsRoute(c)' BY <1>1 DEF JobFitsRoute, Routed, connVars
<1>3. NothingIsStray(c)'
  <2> SUFFICES ASSUME NEW v \in Workers
           PROVE  /\ \A i \in DOMAIN down'[v] : down'[v][i].who = c =>
                       /\ route'[c].at = v /\ gen'[c] = down'[v][i].gen
                       /\ down'[v][i].op = "join" => down'[v][i].to = route'[c].to
                  /\ \A i \in DOMAIN up'[v] :
                       /\ up'[v][i].op = "left" /\ up'[v][i].who = c => route'[c].at = v /\ gen'[c] = up'[v][i].gen
                       /\ Kind(up'[v][i]) = "answer" /\ up'[v][i].who = c => up'[v][i].gen <= gen'[c]
                  /\ \A e \in late'[v] : e[1] = c => e[2] <= gen'[c]
                  /\ member'[v][c] # NoMember =>
                       /\ route'[c].at = v /\ gen'[c] = member'[v][c].gen /\ route'[c].to = member'[v][c].to
                       /\ member'[v][c].leaving # "no" => route'[c].state = "leaving"
    BY DEF NothingIsStray, Current
  <2>1. gen' = gen /\ route' = route BY DEF connVars
  <2>2. ASSUME NEW i \in DOMAIN down'[v], down'[v][i].who = c
        PROVE  /\ route[c].at = v /\ gen[c] = down'[v][i].gen
               /\ down'[v][i].op = "join" => down'[v][i].to = route[c].to
    <3>1. PICK j \in DOMAIN down[v] : down[v][j] = down'[v][i] OBVIOUS
    <3> QED BY <1>1, <2>2, <3>1 DEF NothingIsStray, Current
  <2>6. \A i \in DOMAIN up'[v] : up'[v][i].op = "left" => Kind(up'[v][i]) = "left" BY DEF Kind
  <2>3. ASSUME NEW i \in DOMAIN up'[v], up'[v][i].who = c, Kind(up'[v][i]) \in {"left", "answer"}
        PROVE  /\ up'[v][i].op = "left" => route[c].at = v /\ gen[c] = up'[v][i].gen
               /\ Kind(up'[v][i]) = "answer" => up'[v][i].gen <= gen[c]
    <3>1. CASE \E j \in DOMAIN up[v] : up[v][j] = up'[v][i]
      BY <1>1, <2>3, <3>1 DEF NothingIsStray, Current
    <3>2. CASE v = w /\ up'[v][i].gen = g BY <3>2
    <3> QED BY <2>3, <3>1, <3>2
  <2>4. ASSUME NEW e \in late'[v], e[1] = c PROVE e[2] <= gen[c]
    <3>1. CASE e \in late[v] BY <1>1, <2>4, <3>1 DEF NothingIsStray
    <3>2. CASE v = w /\ e[2] = g BY <3>2
    <3> QED BY <2>4, <3>1, <3>2
  <2>5. member'[v][c] # NoMember =>
             /\ route[c].at = v /\ gen[c] = member'[v][c].gen /\ route[c].to = member'[v][c].to
             /\ member'[v][c].leaving # "no" => route[c].state = "leaving"
    BY <1>1 DEF NothingIsStray, Current
  <2> QED BY <2>1, <2>2, <2>3, <2>4, <2>5, <2>6
<1>4. route'[c].at = w /\ gen'[c] = g /\ gen'[c] >= 1 BY <1>1 DEF connVars
<1> QED BY <1>2, <1>3, <1>4 DEF Good

\* A member's phase, or how it leaves, changes.
LEMMA MemberMoves ==
  ASSUME NEW m \in Members, m # NoMember
  PROVE  /\ m.gen \in Nat \ {0} /\ m.to \in MatchIds
         /\ \A p \in {"entering", "shown", "in", "failed"} :
              LET n == [m EXCEPT !.phase = p]
              IN  n \in Members /\ n # NoMember /\ n.gen = m.gen /\ n.to = m.to /\ n.leaving = m.leaving /\ n.phase = p
         /\ \A l \in {"disables", "dropped"} :
              LET n == [m EXCEPT !.leaving = l]
              IN  n \in Members /\ n # NoMember /\ n.gen = m.gen /\ n.to = m.to /\ n.phase = m.phase /\ n.leaving = l
<1>1. m \in [gen : Nat \ {0}, to : MatchIds, phase : {"entering", "shown", "in", "failed"},
             leaving : {"no", "disables", "dropped"}]
  BY DEF Members
<1>2. ASSUME NEW p \in {"entering", "shown", "in", "failed"}
      PROVE  LET n == [m EXCEPT !.phase = p]
             IN  n \in Members /\ n # NoMember /\ n.gen = m.gen /\ n.to = m.to /\ n.leaving = m.leaving /\ n.phase = p
  <2>1. PICK n : n = [m EXCEPT !.phase = p] OBVIOUS
  <2>2. n \in Members /\ n.gen = m.gen /\ n.to = m.to /\ n.leaving = m.leaving /\ n.phase = p
    BY <1>1, <2>1 DEF Members
  <2>3. n # NoMember BY <2>2 DEF NoMember
  <2> QED BY <2>1, <2>2, <2>3
<1>3. ASSUME NEW l \in {"disables", "dropped"}
      PROVE  LET n == [m EXCEPT !.leaving = l]
             IN  n \in Members /\ n # NoMember /\ n.gen = m.gen /\ n.to = m.to /\ n.phase = m.phase /\ n.leaving = l
  <2>1. PICK n : n = [m EXCEPT !.leaving = l] OBVIOUS
  <2>2. n \in Members /\ n.gen = m.gen /\ n.to = m.to /\ n.phase = m.phase /\ n.leaving = l
    BY <1>1, <2>1 DEF Members
  <2>3. n # NoMember BY <1>1, <2>2 DEF NoMember
  <2> QED BY <2>1, <2>2, <2>3
<1> QED BY <1>1, <1>2, <1>3

\* A member is of the current run of its connection.
LEMMA MemberIs ==
  ASSUME IInv, NEW w \in Workers, NEW c \in Conns, member[w][c] # NoMember
  PROVE  /\ member[w][c] \in Members /\ member[w][c].gen \in Nat \ {0} /\ gen[c] = member[w][c].gen
         /\ Routed(c) /\ route[c].at = w /\ route[c].to = member[w][c].to
         /\ member[w][c].leaving # "no" => route[c].state = "leaving"
         /\ RunEndsOnce(c, w, member[w][c].gen) /\ EntryIsAnswered(c, w, member[w][c].gen) /\ NothingIsStray(c)
         /\ ~Says(down[w], "join", c, member[w][c].gen) /\ ~Says(up[w], "left", c, member[w][c].gen)
<1>1. member[w][c] \in Members /\ member[w][c].gen \in Nat \ {0}
  <2>1. PICK m \in Members : m = member[w][c] /\ m # NoMember BY DEF IInv, TypeOK
  <2>2. m.gen \in Nat \ {0} BY <2>1, MemberMoves
  <2> QED BY <2>1, <2>2
<1>2. NothingIsStray(c) BY DEF IInv, Good
<1>3. /\ route[c].at = w /\ gen[c] = member[w][c].gen /\ route[c].to = member[w][c].to
      /\ member[w][c].leaving # "no" => route[c].state = "leaving"
  BY <1>2 DEF NothingIsStray, Current
<1>4. Routed(c) BY <1>3 DEF Routed, NoRoute
<1>5. RunEndsOnce(c, w, member[w][c].gen) /\ EntryIsAnswered(c, w, member[w][c].gen)
  BY <1>3, <1>4 DEF IInv, Good
<1> QED BY <1>1, <1>2, <1>3, <1>4, <1>5 DEF RunEndsOnce

LEMMA MemberJoinsStep ==
  ASSUME IInv, NEW w \in Workers, MemberJoins(w) PROVE IInv'
<1>1. Takes(w, "join") /\ UNCHANGED <<connVars, registryVars, running, late, clientVars, crashes>>
  BY DEF MemberJoins
<1>2. PICK x \in DownMsg, c \in Conns, g \in Nat \ {0} : x = Head(down[w]) /\ c = x.who /\ g = x.gen /\ g \in Nat
  BY <1>1, TakesOne
<1>3. /\ down' \in [Workers -> Seq(DownMsg)] /\ \A v \in Workers : v # w => down'[v] = down[v]
      /\ \A d \in Conns, v \in Workers : Kept(down[v], down'[v], d)
      /\ \A i \in DOMAIN down'[w] : \E j \in DOMAIN down[w] : down[w][j] = down'[w][i]
      /\ Routed(c) /\ route[c].at = w /\ gen[c] = g /\ x.to = route[c].to /\ x.to \in MatchIds
      /\ Says(down[w], "join", c, g) /\ ~Says(down'[w], "join", c, g)
      /\ RunEndsOnce(c, w, g) /\ EntryIsAnswered(c, w, g) /\ NothingIsStray(c)
  BY <1>1, <1>2, TakesOne
<1>4. /\ member[w][c] = NoMember /\ ~Says(up[w], "left", c, g)
      /\ job[c].phase = "loading" /\ <<c, g>> \notin late[w] /\ ~Says(up[w], "answer", c, g)
  BY <1>3 DEF RunEndsOnce, EntryIsAnswered
<1>5. /\ Once(down'[w], "join", c, g) /\ Once(down'[w], "leave", c, g) /\ JoinsFirst(down'[w], c, g)
      /\ Says(down'[w], "leave", c, g) => Says(down[w], "leave", c, g)
      /\ Once(up[w], "left", c, g) /\ Once(up[w], "answer", c, g)
  <2>1. Kept(down[w], down'[w], c) BY <1>3
  <2>2. Says(down'[w], "leave", c, g) => Says(down[w], "leave", c, g)
    BY <2>1, KeptSays DEF Kinds
  <2>3. /\ Once(down[w], "join", c, g) /\ Once(down[w], "leave", c, g) /\ JoinsFirst(down[w], c, g)
        /\ Once(up[w], "left", c, g) /\ Once(up[w], "answer", c, g)
    BY <1>3 DEF RunEndsOnce, EntryIsAnswered
  <2>4. /\ \A k \in Kinds : Once(down[w], k, c, g) => Once(down'[w], k, c, g)
        /\ JoinsFirst(down[w], c, g) => JoinsFirst(down'[w], c, g)
    BY <1>2, <2>1 DEF Kept
  <2> QED BY <2>2, <2>3, <2>4 DEF Kinds
<1>6. CASE /\ member' = [member EXCEPT ![w][c] = [gen |-> g, to |-> x.to, phase |-> "entering", leaving |-> "no"]]
           /\ UNCHANGED up
  <2>1. PICK m : m = [gen |-> g, to |-> x.to, phase |-> "entering", leaving |-> "no"] OBVIOUS
  <2>2. m \in Members /\ m.gen = g /\ m.to = x.to /\ m.phase = "entering" /\ m.leaving = "no"
    BY <1>3, <2>1 DEF Members
  <2>3. /\ member' \in [Workers -> [Conns -> Members]] /\ member'[w][c] = m
        /\ \A v \in Workers, d \in Conns : v # w \/ d # c => member'[v][d] = member[v][d]
    <3>1. member' = [member EXCEPT ![w][c] = m] BY <1>6, <2>1
    <3>2. TypeOK /\ m \in Members BY <2>2 DEF IInv
    <3>3. member \in [Workers -> [Conns -> Members]] BY <3>2 DEF TypeOK
    <3> QED BY <3>1, <3>2, <3>3
  <2>4. TypeOK' BY <1>1, <1>3, <1>6, <2>3 DEF IInv, TypeOK, connVars, registryVars, clientVars
  <2>5. RunEndsOnce(c, w, g)'
    BY <1>1, <1>3, <1>4, <1>5, <1>6, <2>2, <2>3 DEF RunEndsOnce, connVars
  <2>6. EntryIsAnswered(c, w, g)'
    BY <1>1, <1>3, <1>4, <1>5, <1>6, <2>2, <2>3 DEF EntryIsAnswered, connVars
  <2>7. \A v \in Workers : v # w =>
           up'[v] = up[v] /\ down'[v] = down[v] /\ member'[v][c] = member[v][c] /\ late'[v] = late[v]
    BY <1>1, <1>3, <1>6, <2>3
  <2>8. Good(c)'
    <3>1. \A i \in DOMAIN up'[w] : Kind(up'[w][i]) \in {"left", "answer"} =>
            up'[w][i].gen = g \/ \E j \in DOMAIN up[w] : up[w][j] = up'[w][i]
      BY <1>6
    <3>2. \A e \in late'[w] : e[1] = c => e[2] = g \/ e \in late[w] BY <1>1
    <3>3. UNCHANGED connVars BY <1>1
    <3>4. member'[w][c].gen = g /\ member'[w][c].to = route[c].to /\ member'[w][c].leaving = "no"
      BY <1>3, <2>1, <2>2, <2>3
    <3> QED BY <1>2, <1>3, <2>4, <2>5, <2>6, <2>7, <3>1, <3>2, <3>3, <3>4, RunIsGood
  <2>9. \A d \in Conns : d # c => Shrinks(d) BY <1>1, <1>3, <1>6, <2>3, KeptItself DEF Shrinks
  <2> QED BY <1>1, <2>4, <2>8, <2>9, WorkerStepIs
<1>7. CASE up' = Post(up, w, Marker("failed", c, g)) /\ UNCHANGED member
  <2>1. PICK y \in UpMsg : /\ y = Marker("failed", c, g) /\ y.who = c /\ y.gen = g
                           /\ \A k, d, h : About(y, k, d, h) <=> k = "answer" /\ d = c /\ h = g
    BY <1>2, MarkerFields
  <2>2. /\ up' \in [Workers -> Seq(UpMsg)] /\ \A v \in Workers : v # w => up'[v] = up[v]
        /\ \A i \in DOMAIN up'[w] : up'[w][i] = y \/ \E j \in DOMAIN up[w] : up[w][j] = up'[w][i]
        /\ \A k : Says(up'[w], k, c, g) <=> Says(up[w], k, c, g) \/ About(y, k, c, g)
        /\ \A k : Once(up[w], k, c, g) /\ (About(y, k, c, g) => ~Says(up[w], k, c, g)) => Once(up'[w], k, c, g)
        /\ \A d : \A v \in Workers : d # c => Kept(up[v], up'[v], d)
    <3>1. up' = Post(up, w, y) BY <1>7, <2>1
    <3>2. TypeOK BY DEF IInv
    <3>3. /\ up' \in [Workers -> Seq(UpMsg)] /\ \A v \in Workers : v # w => up'[v] = up[v]
          /\ \A i \in DOMAIN up'[w] : up'[w][i] = y \/ \E j \in DOMAIN up[w] : up[w][j] = up'[w][i]
          /\ \A k, d, h : Says(up'[w], k, d, h) <=> Says(up[w], k, d, h) \/ About(y, k, d, h)
          /\ \A k, d, h : Once(up[w], k, d, h) /\ (About(y, k, d, h) => ~Says(up[w], k, d, h)) => Once(up'[w], k, d, h)
          /\ \A d : \A v \in Workers : ~(Kind(y) \in Kinds /\ y.who = d) => Kept(up[v], up'[v], d)
      BY <3>1, <3>2, PostsUp
    <3> QED BY <2>1, <3>3
  <2>3. TypeOK' BY <1>1, <1>3, <1>7, <2>2 DEF IInv, TypeOK, connVars, registryVars, clientVars
  <2>4. RunEndsOnce(c, w, g)'
    BY <1>1, <1>3, <1>4, <1>5, <1>7, <2>1, <2>2 DEF RunEndsOnce, connVars
  <2>5. EntryIsAnswered(c, w, g)'
    <3>1. ~Entering(w, c)' BY <1>4, <1>7 DEF Entering, NoMember
    <3> QED BY <1>1, <1>3, <1>4, <1>5, <1>7, <2>1, <2>2, <3>1 DEF EntryIsAnswered, connVars
  <2>6. Good(c)'
    <3>1. \A i \in DOMAIN up'[w] : Kind(up'[w][i]) \in {"left", "answer"} =>
            up'[w][i].gen = g \/ \E j \in DOMAIN up[w] : up[w][j] = up'[w][i]
      BY <2>1, <2>2
    <3>2. /\ \A e \in late'[w] : e[1] = c => e[2] = g \/ e \in late[w]
          /\ \A v \in Workers : v # w =>
               up'[v] = up[v] /\ down'[v] = down[v] /\ member'[v][c] = member[v][c] /\ late'[v] = late[v]
      BY <1>1, <1>3, <1>7, <2>2
    <3>3. UNCHANGED connVars /\ member'[w][c] = NoMember BY <1>1, <1>4, <1>7
    <3> QED BY <1>2, <1>3, <2>3, <2>4, <2>5, <3>1, <3>2, <3>3, RunIsGood
  <2>7. \A d \in Conns : d # c => Shrinks(d) BY <1>1, <1>3, <1>7, <2>2 DEF Shrinks
  <2> QED BY <1>1, <2>3, <2>6, <2>7, WorkerStepIs
<1> QED BY <1>2, <1>6, <1>7 DEF MemberJoins

\* A member goes on with its entry, and the worker may say so.
LEMMA MemberTold ==
  ASSUME IInv, TypeOK', UNCHANGED <<connVars, registryVars, running, late, down>>, NEW w \in Workers, NEW c \in Conns,
         member[w][c] # NoMember, member'[w][c] # NoMember, member'[w][c].gen = member[w][c].gen,
         member'[w][c].to = member[w][c].to, member'[w][c].leaving = member[w][c].leaving,
         \A v \in Workers, d \in Conns : v # w \/ d # c => member'[v][d] = member[v][d],
         \A v \in Workers : v # w => up'[v] = up[v],
         \A d \in Conns, v \in Workers : d # c => Kept(up[v], up'[v], d),
         \A i \in DOMAIN up'[w] : Kind(up'[w][i]) \in {"left", "answer"} =>
           up'[w][i].gen = member[w][c].gen \/ \E j \in DOMAIN up[w] : up[w][j] = up'[w][i],
         Says(up'[w], "left", c, member[w][c].gen) => Says(up[w], "left", c, member[w][c].gen),
         Once(up'[w], "left", c, member[w][c].gen), Once(up'[w], "answer", c, member[w][c].gen),
         member'[w][c].phase \in {"entering", "shown"} =>
           Entering(w, c) /\ (Says(up'[w], "answer", c, member[w][c].gen) => Says(up[w], "answer", c, member[w][c].gen)),
         Says(up'[w], "answer", c, member[w][c].gen) => Says(up[w], "answer", c, member[w][c].gen) \/ Entering(w, c)
  PROVE  IInv'
<1>0. PICK g \in Nat, m \in {member'[w][c]} : g = member[w][c].gen /\ m = member'[w][c]
  BY MemberIs
<1>1. /\ gen[c] = g /\ Routed(c) /\ route[c].at = w /\ route[c].to = member[w][c].to
      /\ member[w][c].leaving # "no" => route[c].state = "leaving"
      /\ RunEndsOnce(c, w, g) /\ EntryIsAnswered(c, w, g)
      /\ ~Says(down[w], "join", c, g) /\ ~Says(up[w], "left", c, g)
  BY <1>0, MemberIs
<1>2. RunEndsOnce(c, w, g)'
  <2>1. down' = down /\ route' = route BY DEF connVars
  <2> QED BY <1>0, <1>1, <2>1 DEF RunEndsOnce
<1>3. EntryIsAnswered(c, w, g)'
  <2>1. Entering(w, c)' <=> m.phase \in {"entering", "shown"} BY <1>0 DEF Entering
  <2>2. job' = job /\ late' = late /\ down' = down BY DEF connVars
  <2> QED BY <1>0, <1>1, <2>1, <2>2 DEF EntryIsAnswered
<1>4. Good(c)'
  <2>1. \A v \in Workers : v # w =>
           up'[v] = up[v] /\ down'[v] = down[v] /\ member'[v][c] = member[v][c] /\ late'[v] = late[v]
    OBVIOUS
  <2>2. /\ \A i \in DOMAIN down'[w] : \E j \in DOMAIN down[w] : down[w][j] = down'[w][i]
        /\ \A e \in late'[w] : e[1] = c => e[2] = g \/ e \in late[w]
        /\ member'[w][c].gen = g /\ member'[w][c].to = route[c].to
        /\ member'[w][c].leaving # "no" => route[c].state = "leaving"
    BY <1>0, <1>1
  <2>3. UNCHANGED connVars OBVIOUS
  <2>4. \A i \in DOMAIN up'[w] : Kind(up'[w][i]) \in {"left", "answer"} =>
           up'[w][i].gen = g \/ \E j \in DOMAIN up[w] : up[w][j] = up'[w][i]
    BY <1>0
  <2> QED BY <1>1, <1>2, <1>3, <2>1, <2>2, <2>3, <2>4, RunIsGood
<1>5. \A d \in Conns : d # c => Shrinks(d) BY KeptItself DEF Shrinks
<1> QED BY <1>4, <1>5, WorkerStepIs

\* One more message of the worker: what it says of the run it is about.
LEMMA PostsAbout ==
  ASSUME TypeOK, NEW w \in Workers, NEW x \in UpMsg, up' = Post(up, w, x)
  PROVE  /\ up' \in [Workers -> Seq(UpMsg)] /\ \A v \in Workers : v # w => up'[v] = up[v]
         /\ \A d \in Conns, v \in Workers : d # x.who => Kept(up[v], up'[v], d)
         /\ \A i \in DOMAIN up'[w] : up'[w][i].gen = x.gen \/ \E j \in DOMAIN up[w] : up[w][j] = up'[w][i]
         /\ \A k : Says(up'[w], k, x.who, x.gen) <=> Says(up[w], k, x.who, x.gen) \/ k = Kind(x)
         /\ \A k : Once(up[w], k, x.who, x.gen) /\ (k = Kind(x) => ~Says(up[w], k, x.who, x.gen))
                      => Once(up'[w], k, x.who, x.gen)
<1>1. /\ up' \in [Workers -> Seq(UpMsg)] /\ \A v \in Workers : v # w => up'[v] = up[v]
      /\ \A i \in DOMAIN up'[w] : up'[w][i] = x \/ \E j \in DOMAIN up[w] : up[w][j] = up'[w][i]
      /\ \A k, d, h : Says(up'[w], k, d, h) <=> Says(up[w], k, d, h) \/ About(x, k, d, h)
      /\ \A k, d, h : Once(up[w], k, d, h) /\ (About(x, k, d, h) => ~Says(up[w], k, d, h)) => Once(up'[w], k, d, h)
      /\ \A d : \A v \in Workers : ~(Kind(x) \in Kinds /\ x.who = d) => Kept(up[v], up'[v], d)
  BY PostsUp
<1>2. \A k : About(x, k, x.who, x.gen) <=> k = Kind(x) BY DEF About
<1> QED BY <1>1, <1>2

LEMMA EntryReadyStep ==
  ASSUME IInv, NEW w \in Workers, NEW c \in Conns, EntryReady(w, c) \/ EntryJoins(w, c) PROVE IInv'
<1>1. Entering(w, c) /\ member[w][c] # NoMember
  BY DEF EntryReady, EntryJoins, Entering, NoMember
<1>2. PICK g \in Nat \ {0} : g = member[w][c].gen /\ g \in Nat BY <1>1, MemberIs
<1>3. PICK p \in {"shown", "in"}, op \in {"ready", "joined"} :
        /\ p = "in" <=> op = "joined"
        /\ member' = [member EXCEPT ![w][c].phase = p] /\ up' = Post(up, w, Marker(op, c, g))
        /\ UNCHANGED <<connVars, registryVars, running, late, down, clientVars, crashes>>
  BY <1>2 DEF EntryReady, EntryJoins
<1>4. PICK m \in Members : /\ m = [member[w][c] EXCEPT !.phase = p] /\ m # NoMember /\ m.gen = g /\ m.to = member[w][c].to
                           /\ m.leaving = member[w][c].leaving /\ m.phase = p
  <2>1. PICK n \in Members : n = member[w][c] /\ n # NoMember BY <1>1 DEF IInv, TypeOK
  <2>2. LET l == [n EXCEPT !.phase = p]
        IN  l \in Members /\ l # NoMember /\ l.gen = n.gen /\ l.to = n.to /\ l.leaving = n.leaving /\ l.phase = p
    <3>1. \A q \in {"entering", "shown", "in", "failed"} :
            LET l == [n EXCEPT !.phase = q]
            IN  l \in Members /\ l # NoMember /\ l.gen = n.gen /\ l.to = n.to /\ l.leaving = n.leaving /\ l.phase = q
      BY <2>1, MemberMoves
    <3> QED BY <3>1
  <2> QED BY <1>2, <2>1, <2>2
<1>5. /\ member' \in [Workers -> [Conns -> Members]] /\ member'[w][c] = m
      /\ \A v \in Workers, d \in Conns : v # w \/ d # c => member'[v][d] = member[v][d]
  <2>1. member \in [Workers -> [Conns -> Members]] BY DEF IInv, TypeOK
  <2>2. member' = [member EXCEPT ![w][c] = m] BY <1>3, <1>4, <2>1
  <2> QED BY <2>1, <2>2
<1>6. PICK x \in UpMsg : x = Marker(op, c, g) /\ x.who = c /\ x.gen = g /\ Kind(x) = (IF op = "joined" THEN "answer" ELSE "ready")
  BY <1>2, MarkerFields
<1>7. /\ up' \in [Workers -> Seq(UpMsg)] /\ \A v \in Workers : v # w => up'[v] = up[v]
      /\ \A d \in Conns, v \in Workers : d # c => Kept(up[v], up'[v], d)
      /\ \A i \in DOMAIN up'[w] : up'[w][i].gen = g \/ \E j \in DOMAIN up[w] : up[w][j] = up'[w][i]
      /\ \A k : Says(up'[w], k, c, g) <=> Says(up[w], k, c, g) \/ k = Kind(x)
      /\ \A k : Once(up[w], k, c, g) /\ (k = Kind(x) => ~Says(up[w], k, c, g)) => Once(up'[w], k, c, g)
  <2>1. up' = Post(up, w, x) /\ TypeOK BY <1>3, <1>6 DEF IInv
  <2>2. x.who = c /\ x.gen = g BY <1>6
  <2>3. /\ up' \in [Workers -> Seq(UpMsg)] /\ \A v \in Workers : v # w => up'[v] = up[v]
        /\ \A d \in Conns, v \in Workers : d # x.who => Kept(up[v], up'[v], d)
        /\ \A i \in DOMAIN up'[w] : up'[w][i].gen = x.gen \/ \E j \in DOMAIN up[w] : up[w][j] = up'[w][i]
        /\ \A k : Says(up'[w], k, x.who, x.gen) <=> Says(up[w], k, x.who, x.gen) \/ k = Kind(x)
        /\ \A k : Once(up[w], k, x.who, x.gen) /\ (k = Kind(x) => ~Says(up[w], k, x.who, x.gen))
                     => Once(up'[w], k, x.who, x.gen)
    BY <2>1, PostsAbout
  <2> QED BY <2>2, <2>3
<1>8. TypeOK' BY <1>3, <1>5, <1>7 DEF IInv, TypeOK, connVars, registryVars, clientVars
<1>9. RunEndsOnce(c, w, g) /\ EntryIsAnswered(c, w, g) BY <1>1, <1>2, MemberIs
<1>10. /\ Says(up'[w], "left", c, g) => Says(up[w], "left", c, g)
       /\ Once(up'[w], "left", c, g) /\ Once(up'[w], "answer", c, g)
       /\ Says(up'[w], "answer", c, g) => Says(up[w], "answer", c, g) \/ op = "joined"
  BY <1>1, <1>6, <1>7, <1>9 DEF RunEndsOnce, EntryIsAnswered
<1>11. /\ member'[w][c] # NoMember /\ member'[w][c].gen = g /\ member'[w][c].to = member[w][c].to
       /\ member'[w][c].leaving = member[w][c].leaving
       /\ member'[w][c].phase \in {"entering", "shown"} =>
            Entering(w, c) /\ (Says(up'[w], "answer", c, g) => Says(up[w], "answer", c, g))
  BY <1>1, <1>3, <1>4, <1>5, <1>10
<1>12. UNCHANGED <<connVars, registryVars, running, late, down>> BY <1>3
<1>13. /\ \A i \in DOMAIN up'[w] : Kind(up'[w][i]) \in {"left", "answer"} =>
            up'[w][i].gen = member[w][c].gen \/ \E j \in DOMAIN up[w] : up[w][j] = up'[w][i]
       /\ Says(up'[w], "left", c, member[w][c].gen) => Says(up[w], "left", c, member[w][c].gen)
       /\ Once(up'[w], "left", c, member[w][c].gen) /\ Once(up'[w], "answer", c, member[w][c].gen)
       /\ Says(up'[w], "answer", c, member[w][c].gen) => Says(up[w], "answer", c, member[w][c].gen) \/ Entering(w, c)
       /\ member'[w][c].phase \in {"entering", "shown"} =>
            Entering(w, c) /\ (Says(up'[w], "answer", c, member[w][c].gen) => Says(up[w], "answer", c, member[w][c].gen))
       /\ member'[w][c].gen = member[w][c].gen
  BY <1>1, <1>2, <1>7, <1>10, <1>11
<1> QED BY <1>1, <1>5, <1>7, <1>8, <1>11, <1>12, <1>13, MemberTold

LEMMA EntryFailsStep ==
  ASSUME IInv, NEW w \in Workers, NEW c \in Conns, EntryFails(w, c) PROVE IInv'
<1>1. Entering(w, c) /\ member[w][c] # NoMember BY DEF EntryFails, Entering, NoMember
<1>2. PICK g \in Nat \ {0}, to \in MatchIds : g = member[w][c].gen /\ g \in Nat /\ to = member[w][c].to
  <2>1. PICK n \in Members : n = member[w][c] /\ n # NoMember BY <1>1 DEF IInv, TypeOK
  <2>2. n.gen \in Nat \ {0} /\ n.to \in MatchIds BY <2>1, MemberMoves
  <2> QED BY <2>1, <2>2
<1>3. /\ member' = [member EXCEPT ![w][c].phase = "failed"]
      /\ UNCHANGED <<connVars, registryVars, running, late, down, clientVars, crashes>>
      /\ \/ up' = Post(up, w, Marker("failed", c, g))
         \/ up' = [up EXCEPT ![w] = @ \o <<[op |-> "matchFailed", to |-> to], Marker("failed", c, g)>>]
  BY <1>2 DEF EntryFails
<1>4. PICK m \in Members : /\ m = [member[w][c] EXCEPT !.phase = "failed"] /\ m # NoMember /\ m.gen = g
                           /\ m.to = member[w][c].to /\ m.leaving = member[w][c].leaving /\ m.phase = "failed"
  <2>1. PICK n \in Members : n = member[w][c] /\ n # NoMember BY <1>1 DEF IInv, TypeOK
  <2>2. LET l == [n EXCEPT !.phase = "failed"]
        IN  l \in Members /\ l # NoMember /\ l.gen = n.gen /\ l.to = n.to /\ l.leaving = n.leaving /\ l.phase = "failed"
    BY <2>1, MemberMoves
  <2> QED BY <1>2, <2>1, <2>2
<1>5. /\ member' \in [Workers -> [Conns -> Members]] /\ member'[w][c] = m
      /\ \A v \in Workers, d \in Conns : v # w \/ d # c => member'[v][d] = member[v][d]
  <2>1. member \in [Workers -> [Conns -> Members]] BY DEF IInv, TypeOK
  <2>2. member' = [member EXCEPT ![w][c] = m] BY <1>3, <1>4, <2>1
  <2> QED BY <2>1, <2>2
<1>6. PICK x \in UpMsg, y \in UpMsg :
        /\ x = Marker("failed", c, g) /\ x.who = c /\ x.gen = g /\ Kind(x) = "answer"
        /\ y = [op |-> "matchFailed", to |-> to] /\ Kind(y) = "matchFailed"
  <2>1. [op |-> "matchFailed", to |-> to] \in UpMsg /\ Kind([op |-> "matchFailed", to |-> to]) = "matchFailed"
    BY DEF UpMsg, Kind
  <2> QED BY <1>2, <2>1, MarkerFields
<1>7. up[w] \in Seq(UpMsg) /\ up \in [Workers -> Seq(UpMsg)] BY DEF IInv, TypeOK
<1>8. /\ up' \in [Workers -> Seq(UpMsg)] /\ \A v \in Workers : v # w => up'[v] = up[v]
      /\ \A d \in Conns, v \in Workers : d # c => Kept(up[v], up'[v], d)
      /\ \A i \in DOMAIN up'[w] : Kind(up'[w][i]) \in {"left", "answer"} =>
           up'[w][i].gen = g \/ \E j \in DOMAIN up[w] : up[w][j] = up'[w][i]
      /\ \A k \in Kinds : Says(up'[w], k, c, g) <=> Says(up[w], k, c, g) \/ k = "answer"
      /\ \A k \in Kinds : Once(up[w], k, c, g) /\ (k = "answer" => ~Says(up[w], k, c, g)) => Once(up'[w], k, c, g)
  <2>1. CASE up' = Post(up, w, x)
    <3>1. TypeOK BY DEF IInv
    <3>2. x.who = c /\ x.gen = g BY <1>6
    <3>3. /\ up' \in [Workers -> Seq(UpMsg)] /\ \A v \in Workers : v # w => up'[v] = up[v]
          /\ \A d \in Conns, v \in Workers : d # x.who => Kept(up[v], up'[v], d)
          /\ \A i \in DOMAIN up'[w] : up'[w][i].gen = x.gen \/ \E j \in DOMAIN up[w] : up[w][j] = up'[w][i]
          /\ \A k : Says(up'[w], k, x.who, x.gen) <=> Says(up[w], k, x.who, x.gen) \/ k = Kind(x)
          /\ \A k : Once(up[w], k, x.who, x.gen) /\ (k = Kind(x) => ~Says(up[w], k, x.who, x.gen))
                       => Once(up'[w], k, x.who, x.gen)
      BY <2>1, <3>1, PostsAbout
    <3> QED BY <1>6, <3>2, <3>3
  <2>2. CASE up' = [up EXCEPT ![w] = @ \o <<y, x>>]
    <3>1. PICK q : q = Append(up[w], y) OBVIOUS
    <3>2. /\ q \in Seq(UpMsg)
          /\ \A i \in DOMAIN q : q[i] = y \/ \E j \in DOMAIN up[w] : up[w][j] = q[i]
          /\ \A k, d, h : Says(q, k, d, h) <=> Says(up[w], k, d, h) \/ About(y, k, d, h)
          /\ \A k, d, h : Once(up[w], k, d, h) /\ (About(y, k, d, h) => ~Says(up[w], k, d, h)) => Once(q, k, d, h)
          /\ \A d, h : JoinsFirst(up[w], d, h) /\ (About(y, "join", d, h) => ~Says(up[w], "leave", d, h)) => JoinsFirst(q, d, h)
      BY <1>6, <1>7, <3>1, SaidMore
    <3>3. PICK r : r = Append(q, x) OBVIOUS
    <3>4. /\ r \in Seq(UpMsg)
          /\ \A i \in DOMAIN r : r[i] = x \/ \E j \in DOMAIN q : q[j] = r[i]
          /\ \A k, d, h : Says(r, k, d, h) <=> Says(q, k, d, h) \/ About(x, k, d, h)
          /\ \A k, d, h : Once(q, k, d, h) /\ (About(x, k, d, h) => ~Says(q, k, d, h)) => Once(r, k, d, h)
          /\ \A d, h : JoinsFirst(q, d, h) /\ (About(x, "join", d, h) => ~Says(q, "leave", d, h)) => JoinsFirst(r, d, h)
      BY <1>6, <3>2, <3>3, SaidMore
    <3>5. up[w] \o <<y, x>> = r
      <4>1. up[w] \o <<y, x>> = (up[w] \o <<y>>) \o <<x>> BY <1>6, <1>7
      <4> QED BY <1>6, <1>7, <3>1, <3>2, <3>3, <4>1
    <3>6. /\ up' \in [Workers -> Seq(UpMsg)] /\ up'[w] = r /\ \A v \in Workers : v # w => up'[v] = up[v]
      BY <1>7, <2>2, <3>4, <3>5
    <3>7. /\ \A k \in Kinds : \A d, h : ~About(y, k, d, h)
          /\ \A k, d, h : About(x, k, d, h) <=> k = "answer" /\ d = c /\ h = g
      BY <1>6 DEF About, Kinds
    <3>8. \A d \in Conns, v \in Workers : d # c => Kept(up[v], up'[v], d)
      <4> SUFFICES ASSUME NEW d \in Conns, d # c PROVE Kept(up[w], r, d) BY <3>6, KeptItself
      <4>1. \A i \in DOMAIN r : Kind(r[i]) \in Kinds /\ r[i].who = d => \E j \in DOMAIN up[w] : up[w][j] = r[i]
        <5> SUFFICES ASSUME NEW i \in DOMAIN r, Kind(r[i]) \in Kinds, r[i].who = d
                     PROVE  \E j \in DOMAIN up[w] : up[w][j] = r[i]
          OBVIOUS
        <5>1. PICK j \in DOMAIN q : q[j] = r[i] BY <1>6, <3>4
        <5>2. q[j] # y BY <1>6, <5>1 DEF Kinds
        <5> QED BY <3>2, <5>1, <5>2
      <4>2. \A k \in Kinds, h \in Nat : Once(up[w], k, d, h) => Once(r, k, d, h)
        BY <3>2, <3>4, <3>7
      <4>3. \A h \in Nat : JoinsFirst(up[w], d, h) => JoinsFirst(r, d, h)
        BY <3>2, <3>4, <3>7 DEF Kinds
      <4> QED BY <4>1, <4>2, <4>3 DEF Kept
    <3>9. \A i \in DOMAIN r : Kind(r[i]) \in {"left", "answer"} => r[i].gen = g \/ \E j \in DOMAIN up[w] : up[w][j] = r[i]
      <4> SUFFICES ASSUME NEW i \in DOMAIN r, Kind(r[i]) \in {"left", "answer"}, r[i].gen # g
                   PROVE  \E j \in DOMAIN up[w] : up[w][j] = r[i]
        OBVIOUS
      <4>1. PICK j \in DOMAIN q : q[j] = r[i] BY <1>6, <3>4
      <4>2. q[j] # y BY <1>6, <4>1
      <4> QED BY <3>2, <4>1, <4>2
    <3>10. /\ \A k \in Kinds : Says(r, k, c, g) <=> Says(up[w], k, c, g) \/ k = "answer"
           /\ \A k \in Kinds : Once(up[w], k, c, g) /\ (k = "answer" => ~Says(up[w], k, c, g)) => Once(r, k, c, g)
      BY <3>2, <3>4, <3>7
    <3> QED BY <3>6, <3>8, <3>9, <3>10
  <2> QED BY <1>3, <1>6, <2>1, <2>2
<1>9. TypeOK' BY <1>3, <1>5, <1>8 DEF IInv, TypeOK, connVars, registryVars, clientVars
<1>10. RunEndsOnce(c, w, g) /\ EntryIsAnswered(c, w, g) BY <1>1, <1>2, MemberIs
<1>11. /\ Says(up'[w], "left", c, g) => Says(up[w], "left", c, g)
       /\ Once(up'[w], "left", c, g) /\ Once(up'[w], "answer", c, g)
  BY <1>1, <1>8, <1>10 DEF RunEndsOnce, EntryIsAnswered, Kinds
<1>12. /\ member'[w][c] # NoMember /\ member'[w][c].gen = g /\ member'[w][c].to = member[w][c].to
       /\ member'[w][c].leaving = member[w][c].leaving /\ member'[w][c].phase = "failed"
  BY <1>4, <1>5
<1>13. UNCHANGED <<connVars, registryVars, running, late, down>> BY <1>3
<1>14. /\ \A i \in DOMAIN up'[w] : Kind(up'[w][i]) \in {"left", "answer"} =>
            up'[w][i].gen = member[w][c].gen \/ \E j \in DOMAIN up[w] : up[w][j] = up'[w][i]
       /\ Says(up'[w], "left", c, member[w][c].gen) => Says(up[w], "left", c, member[w][c].gen)
       /\ Once(up'[w], "left", c, member[w][c].gen) /\ Once(up'[w], "answer", c, member[w][c].gen)
       /\ Says(up'[w], "answer", c, member[w][c].gen) => Says(up[w], "answer", c, member[w][c].gen) \/ Entering(w, c)
       /\ member'[w][c].phase \in {"entering", "shown"} =>
            Entering(w, c) /\ (Says(up'[w], "answer", c, member[w][c].gen) => Says(up[w], "answer", c, member[w][c].gen))
       /\ member'[w][c].gen = member[w][c].gen
  BY <1>1, <1>2, <1>8, <1>11, <1>12
<1> QED BY <1>1, <1>5, <1>8, <1>9, <1>12, <1>13, <1>14, MemberTold

\* A member goes, and the worker says it has left.
LEMMA FinishesDo ==
  ASSUME IInv, UNCHANGED <<connVars, registryVars, running, clientVars, crashes>>,
         NEW w \in Workers, NEW c \in Conns, NEW note \in {"disables", "silent"},
         member[w][c] # NoMember, route[c].state = "leaving", Finishes(w, c, note),
         down' \in [Workers -> Seq(DownMsg)], \A v \in Workers : v # w => down'[v] = down[v],
         \A d \in Conns, v \in Workers : Kept(down[v], down'[v], d),
         \A i \in DOMAIN down'[w] : \E j \in DOMAIN down[w] : down[w][j] = down'[w][i],
         ~Says(down'[w], "leave", c, member[w][c].gen)
  PROVE  IInv'
<1>1. PICK g \in Nat \ {0} : g = member[w][c].gen /\ g \in Nat BY MemberIs
<1>2. /\ gen[c] = g /\ Routed(c) /\ route[c].at = w
      /\ RunEndsOnce(c, w, g) /\ EntryIsAnswered(c, w, g)
      /\ ~Says(down[w], "join", c, g) /\ ~Says(up[w], "left", c, g) /\ ~Says(down'[w], "leave", c, g)
  BY <1>1, MemberIs
<1>3. /\ member' = [member EXCEPT ![w][c] = NoMember]
      /\ late' = IF Entering(w, c) THEN [late EXCEPT ![w] = @ \cup {<<c, g>>}] ELSE late
      /\ up' = Post(up, w, Left(c, g, note))
  BY <1>1 DEF Finishes
<1>4. /\ member' \in [Workers -> [Conns -> Members]] /\ member'[w][c] = NoMember
      /\ \A v \in Workers, d \in Conns : v # w \/ d # c => member'[v][d] = member[v][d]
  <2>1. NoMember \in Members /\ member \in [Workers -> [Conns -> Members]]
    BY DEF Members, IInv, TypeOK
  <2> QED BY <1>3, <2>1
<1>5. /\ late' \in [Workers -> SUBSET (Conns \X (Nat \ {0}))] /\ \A v \in Workers : v # w => late'[v] = late[v]
      /\ late'[w] = IF Entering(w, c) THEN late[w] \cup {<<c, g>>} ELSE late[w]
  <2>1. late \in [Workers -> SUBSET (Conns \X (Nat \ {0}))] /\ <<c, g>> \in Conns \X (Nat \ {0})
    BY DEF IInv, TypeOK
  <2> QED BY <1>3, <2>1
<1>6. PICK x \in UpMsg : x = Left(c, g, note) /\ x.who = c /\ x.gen = g /\ Kind(x) = "left"
  BY LeftFields
<1>7. /\ up' \in [Workers -> Seq(UpMsg)] /\ \A v \in Workers : v # w => up'[v] = up[v]
      /\ \A d \in Conns, v \in Workers : d # c => Kept(up[v], up'[v], d)
      /\ \A i \in DOMAIN up'[w] : up'[w][i].gen = g \/ \E j \in DOMAIN up[w] : up[w][j] = up'[w][i]
      /\ \A k : Says(up'[w], k, c, g) <=> Says(up[w], k, c, g) \/ k = "left"
      /\ \A k : Once(up[w], k, c, g) /\ (k = "left" => ~Says(up[w], k, c, g)) => Once(up'[w], k, c, g)
  <2>1. up' = Post(up, w, x) /\ TypeOK BY <1>3, <1>6 DEF IInv
  <2>2. /\ up' \in [Workers -> Seq(UpMsg)] /\ \A v \in Workers : v # w => up'[v] = up[v]
        /\ \A d \in Conns, v \in Workers : d # x.who => Kept(up[v], up'[v], d)
        /\ \A i \in DOMAIN up'[w] : up'[w][i].gen = x.gen \/ \E j \in DOMAIN up[w] : up[w][j] = up'[w][i]
        /\ \A k : Says(up'[w], k, x.who, x.gen) <=> Says(up[w], k, x.who, x.gen) \/ k = Kind(x)
        /\ \A k : Once(up[w], k, x.who, x.gen) /\ (k = Kind(x) => ~Says(up[w], k, x.who, x.gen))
                     => Once(up'[w], k, x.who, x.gen)
    BY <2>1, PostsAbout
  <2> QED BY <1>6, <2>2
<1>8. TypeOK' BY <1>4, <1>5, <1>7 DEF IInv, TypeOK, connVars, registryVars, clientVars
<1>9. /\ Once(down'[w], "join", c, g) /\ Once(down'[w], "leave", c, g) /\ JoinsFirst(down'[w], c, g)
      /\ ~Says(down'[w], "join", c, g)
  <2>1. Kept(down[w], down'[w], c) OBVIOUS
  <2>2. /\ Once(down[w], "join", c, g) /\ Once(down[w], "leave", c, g) /\ JoinsFirst(down[w], c, g)
    BY <1>2 DEF RunEndsOnce
  <2>3. /\ \A k \in Kinds : Once(down[w], k, c, g) => Once(down'[w], k, c, g)
        /\ JoinsFirst(down[w], c, g) => JoinsFirst(down'[w], c, g)
    BY <1>1, <2>1 DEF Kept
  <2>4. Says(down'[w], "join", c, g) => Says(down[w], "join", c, g) BY <2>1, KeptSays DEF Kinds
  <2> QED BY <1>2, <2>2, <2>3, <2>4 DEF Kinds
<1>10. RunEndsOnce(c, w, g)'
  <2>1. Once(up'[w], "left", c, g) BY <1>2, <1>7 DEF RunEndsOnce
  <2>2. route'[c].state = "leaving" BY DEF connVars
  <2> QED BY <1>2, <1>4, <1>9, <2>1, <2>2 DEF RunEndsOnce, NoMember
<1>11. EntryIsAnswered(c, w, g)'
  <2>1. ~Entering(w, c)' BY <1>4 DEF Entering, NoMember
  <2>2. Once(up'[w], "answer", c, g) /\ (Says(up'[w], "answer", c, g) <=> Says(up[w], "answer", c, g))
    BY <1>2, <1>7 DEF EntryIsAnswered
  <2>3. <<c, g>> \in late'[w] <=> Entering(w, c) \/ <<c, g>> \in late[w] BY <1>5
  <2>4. job' = job BY DEF connVars
  <2> QED BY <1>2, <1>9, <2>1, <2>2, <2>3, <2>4 DEF EntryIsAnswered
<1>12. Good(c)'
  <2>1. \A e \in late'[w] : e[1] = c => e[2] = g \/ e \in late[w] BY <1>5
  <2>2. \A v \in Workers : v # w =>
          up'[v] = up[v] /\ down'[v] = down[v] /\ member'[v][c] = member[v][c] /\ late'[v] = late[v]
    BY <1>4, <1>5, <1>7
  <2>3. \A i \in DOMAIN up'[w] : Kind(up'[w][i]) \in {"left", "answer"} =>
          up'[w][i].gen = g \/ \E j \in DOMAIN up[w] : up[w][j] = up'[w][i]
    BY <1>7
  <2>4. UNCHANGED connVars OBVIOUS
  <2> QED BY <1>1, <1>2, <1>4, <1>8, <1>10, <1>11, <2>1, <2>2, <2>3, <2>4, RunIsGood
<1>13. \A d \in Conns : d # c => Shrinks(d)
  <2>1. \A v \in Workers : \A e \in late'[v] : e[1] # c => e \in late[v] BY <1>5, SMTT(30)
  <2> QED BY <1>4, <1>7, <2>1 DEF Shrinks
<1> QED BY <1>8, <1>12, <1>13, WorkerStepIs

LEMMA LeaveTurnStep ==
  ASSUME IInv, NEW w \in Workers, NEW c \in Conns, LeaveTurn(w, c) PROVE IInv'
<1>1. /\ member[w][c].leaving = "disables" /\ Finishes(w, c, "disables")
      /\ UNCHANGED <<connVars, registryVars, running, down, clientVars, crashes>>
  BY DEF LeaveTurn
<1>2. member[w][c] # NoMember BY <1>1 DEF NoMember
<1>3. PICK g \in Nat : g = member[w][c].gen BY <1>2, MemberIs
<1>4. /\ route[c].state = "leaving" /\ RunEndsOnce(c, w, g) BY <1>1, <1>2, <1>3, MemberIs
<1>5. ~Says(down'[w], "leave", c, g) BY <1>1, <1>4 DEF RunEndsOnce
<1>6. down' \in [Workers -> Seq(DownMsg)] /\ \A d \in Conns, v \in Workers : Kept(down[v], down'[v], d)
  BY <1>1, KeptItself DEF IInv, TypeOK
<1>7. /\ \A v \in Workers : v # w => down'[v] = down[v]
      /\ \A i \in DOMAIN down'[w] : \E j \in DOMAIN down[w] : down[w][j] = down'[w][i]
  BY <1>1
<1>8. UNCHANGED <<connVars, registryVars, running, clientVars, crashes>> /\ Finishes(w, c, "disables")
  BY <1>1
<1> QED BY <1>2, <1>3, <1>4, <1>5, <1>6, <1>7, <1>8, FinishesDo

LEMMA MemberLeavesStep ==
  ASSUME IInv, NEW w \in Workers, MemberLeaves(w) PROVE IInv'
<1>1. Takes(w, "leave") /\ UNCHANGED <<connVars, registryVars, running, clientVars, crashes>>
  BY DEF MemberLeaves
<1>2. PICK x \in DownMsg, c \in Conns, g \in Nat \ {0} : x = Head(down[w]) /\ c = x.who /\ g = x.gen /\ g \in Nat
  BY <1>1, TakesOne
<1>3. /\ down' \in [Workers -> Seq(DownMsg)] /\ \A v \in Workers : v # w => down'[v] = down[v]
      /\ \A d \in Conns, v \in Workers : Kept(down[v], down'[v], d)
      /\ \A i \in DOMAIN down'[w] : \E j \in DOMAIN down[w] : down[w][j] = down'[w][i]
      /\ Routed(c) /\ route[c].at = w /\ gen[c] = g
      /\ Says(down[w], "leave", c, g) /\ ~Says(down'[w], "leave", c, g) /\ ~Says(down[w], "join", c, g)
      /\ RunEndsOnce(c, w, g) /\ EntryIsAnswered(c, w, g) /\ NothingIsStray(c)
  BY <1>1, <1>2, TakesOne
<1>4. /\ ~Says(up[w], "left", c, g) /\ route[c].state = "leaving" /\ member[w][c].leaving = "no"
  BY <1>3 DEF RunEndsOnce
<1>5. /\ Once(down'[w], "join", c, g) /\ Once(down'[w], "leave", c, g) /\ JoinsFirst(down'[w], c, g)
      /\ ~Says(down'[w], "join", c, g)
      /\ Once(up[w], "left", c, g) /\ Once(up[w], "answer", c, g)
  <2>1. Kept(down[w], down'[w], c) BY <1>3
  <2>2. Says(down'[w], "join", c, g) => Says(down[w], "join", c, g) BY <2>1, KeptSays DEF Kinds
  <2>3. /\ Once(down[w], "join", c, g) /\ Once(down[w], "leave", c, g) /\ JoinsFirst(down[w], c, g)
        /\ Once(up[w], "left", c, g) /\ Once(up[w], "answer", c, g)
    BY <1>3 DEF RunEndsOnce, EntryIsAnswered
  <2>4. /\ \A k \in Kinds : Once(down[w], k, c, g) => Once(down'[w], k, c, g)
        /\ JoinsFirst(down[w], c, g) => JoinsFirst(down'[w], c, g)
    BY <1>2, <2>1 DEF Kept
  <2> QED BY <1>3, <2>2, <2>3, <2>4 DEF Kinds
<1>6. \/ /\ member[w][c].gen # g /\ up' = Post(up, w, Left(c, g, "silent")) /\ UNCHANGED <<member, late>>
      \/ /\ member[w][c].gen = g /\ Finishes(w, c, "silent")
      \/ /\ member[w][c].gen = g
         /\ member' = [member EXCEPT ![w][c].leaving = "disables"] /\ UNCHANGED <<late, up>>
  BY <1>2 DEF MemberLeaves
<1>7. CASE member[w][c].gen # g /\ up' = Post(up, w, Left(c, g, "silent")) /\ UNCHANGED <<member, late>>
  <2>1. member[w][c] = NoMember BY <1>3, <1>7 DEF NothingIsStray, Current
  <2>2. PICK y \in UpMsg : y = Left(c, g, "silent") /\ y.who = c /\ y.gen = g /\ Kind(y) = "left"
    BY LeftFields
  <2>3. /\ up' \in [Workers -> Seq(UpMsg)] /\ \A v \in Workers : v # w => up'[v] = up[v]
        /\ \A d \in Conns, v \in Workers : d # c => Kept(up[v], up'[v], d)
        /\ \A i \in DOMAIN up'[w] : up'[w][i].gen = g \/ \E j \in DOMAIN up[w] : up[w][j] = up'[w][i]
        /\ \A k : Says(up'[w], k, c, g) <=> Says(up[w], k, c, g) \/ k = "left"
        /\ \A k : Once(up[w], k, c, g) /\ (k = "left" => ~Says(up[w], k, c, g)) => Once(up'[w], k, c, g)
    <3>1. up' = Post(up, w, y) /\ TypeOK BY <1>7, <2>2 DEF IInv
    <3>2. /\ up' \in [Workers -> Seq(UpMsg)] /\ \A v \in Workers : v # w => up'[v] = up[v]
          /\ \A d \in Conns, v \in Workers : d # y.who => Kept(up[v], up'[v], d)
          /\ \A i \in DOMAIN up'[w] : up'[w][i].gen = y.gen \/ \E j \in DOMAIN up[w] : up[w][j] = up'[w][i]
          /\ \A k : Says(up'[w], k, y.who, y.gen) <=> Says(up[w], k, y.who, y.gen) \/ k = Kind(y)
          /\ \A k : Once(up[w], k, y.who, y.gen) /\ (k = Kind(y) => ~Says(up[w], k, y.who, y.gen))
                       => Once(up'[w], k, y.who, y.gen)
      BY <3>1, PostsAbout
    <3> QED BY <2>2, <3>2
  <2>4. TypeOK' BY <1>1, <1>3, <1>7, <2>3 DEF IInv, TypeOK, connVars, registryVars, clientVars
  <2>5. RunEndsOnce(c, w, g)'
    <3>1. Once(up'[w], "left", c, g) BY <1>4, <1>5, <2>3
    <3>2. route'[c].state = "leaving" /\ member'[w][c] = NoMember
      BY <1>1, <1>4, <1>7, <2>1 DEF connVars
    <3> QED BY <1>3, <1>5, <3>1, <3>2 DEF RunEndsOnce
  <2>6. EntryIsAnswered(c, w, g)'
    <3>1. Once(up'[w], "answer", c, g) /\ (Says(up'[w], "answer", c, g) <=> Says(up[w], "answer", c, g))
      BY <1>5, <2>3
    <3>2. (Entering(w, c)' <=> Entering(w, c)) /\ job' = job /\ late' = late
      BY <1>1, <1>7 DEF Entering, connVars
    <3> QED BY <1>3, <1>5, <3>1, <3>2 DEF EntryIsAnswered
  <2>7. Good(c)'
    <3>1. \A e \in late'[w] : e[1] = c => e[2] = g \/ e \in late[w] BY <1>7
    <3>2. \A v \in Workers : v # w =>
            up'[v] = up[v] /\ down'[v] = down[v] /\ member'[v][c] = member[v][c] /\ late'[v] = late[v]
      BY <1>3, <1>7, <2>3
    <3>3. UNCHANGED connVars /\ member'[w][c] = NoMember BY <1>1, <1>7, <2>1
    <3>4. \A i \in DOMAIN up'[w] : Kind(up'[w][i]) \in {"left", "answer"} =>
            up'[w][i].gen = g \/ \E j \in DOMAIN up[w] : up[w][j] = up'[w][i]
      BY <2>3
    <3> QED BY <1>2, <1>3, <2>4, <2>5, <2>6, <3>1, <3>2, <3>3, <3>4, RunIsGood
  <2>8. \A d \in Conns : d # c => Shrinks(d) BY <1>3, <1>7, <2>3 DEF Shrinks
  <2> QED BY <1>1, <2>4, <2>7, <2>8, WorkerStepIs
<1>8. CASE member[w][c].gen = g /\ Finishes(w, c, "silent")
  <2>1. member[w][c] # NoMember BY <1>2, <1>8 DEF NoMember
  <2>2. ~Says(down'[w], "leave", c, member[w][c].gen) BY <1>3, <1>8
  <2> QED BY <1>1, <1>3, <1>4, <1>8, <2>1, <2>2, FinishesDo
<1>9. CASE member[w][c].gen = g /\ member' = [member EXCEPT ![w][c].leaving = "disables"] /\ UNCHANGED <<late, up>>
  <2>1. member[w][c] # NoMember BY <1>2, <1>9 DEF NoMember
  <2>2. PICK m \in Members : /\ m = [member[w][c] EXCEPT !.leaving = "disables"] /\ m # NoMember /\ m.gen = g
                             /\ m.to = member[w][c].to /\ m.phase = member[w][c].phase
    <3>1. PICK n \in Members : n = member[w][c] /\ n # NoMember BY <2>1 DEF IInv, TypeOK
    <3>2. \A k \in {"disables", "dropped"} :
            LET l == [n EXCEPT !.leaving = k]
            IN  l \in Members /\ l # NoMember /\ l.gen = n.gen /\ l.to = n.to /\ l.phase = n.phase /\ l.leaving = k
      BY <3>1, MemberMoves
    <3> QED BY <1>9, <3>1, <3>2
  <2>3. /\ member' \in [Workers -> [Conns -> Members]] /\ member'[w][c] = m
        /\ \A v \in Workers, d \in Conns : v # w \/ d # c => member'[v][d] = member[v][d]
    <3>1. member \in [Workers -> [Conns -> Members]] BY DEF IInv, TypeOK
    <3>2. member' = [member EXCEPT ![w][c] = m] BY <1>9, <2>2, <3>1
    <3> QED BY <3>1, <3>2
  <2>4. TypeOK' BY <1>1, <1>3, <1>9, <2>3 DEF IInv, TypeOK, connVars, registryVars, clientVars
  <2>5. RunEndsOnce(c, w, g)'
    <3>1. ~Says(up'[w], "left", c, g) /\ Once(up'[w], "left", c, g) BY <1>4, <1>5, <1>9
    <3> QED BY <1>3, <1>5, <3>1 DEF RunEndsOnce
  <2>6. EntryIsAnswered(c, w, g)'
    <3>1. (Entering(w, c)' <=> Entering(w, c)) /\ job' = job /\ late' = late /\ up' = up
      BY <1>1, <1>9, <2>2, <2>3 DEF Entering, connVars
    <3> QED BY <1>3, <1>5, <3>1 DEF EntryIsAnswered
  <2>7. Good(c)'
    <3>1. \A e \in late'[w] : e[1] = c => e[2] = g \/ e \in late[w] BY <1>9
    <3>2. \A v \in Workers : v # w =>
            up'[v] = up[v] /\ down'[v] = down[v] /\ member'[v][c] = member[v][c] /\ late'[v] = late[v]
      BY <1>3, <1>9, <2>3
    <3>3. UNCHANGED connVars BY <1>1
    <3>4. \A i \in DOMAIN up'[w] : Kind(up'[w][i]) \in {"left", "answer"} =>
            up'[w][i].gen = g \/ \E j \in DOMAIN up[w] : up[w][j] = up'[w][i]
      BY <1>9
    <3>5. /\ member'[w][c].gen = g /\ member'[w][c].to = route[c].to /\ route[c].state = "leaving"
      BY <1>3, <1>4, <2>1, <2>2, <2>3 DEF NothingIsStray
    <3> QED BY <1>2, <1>3, <2>4, <2>5, <2>6, <3>1, <3>2, <3>3, <3>4, <3>5, RunIsGood
  <2>8. \A d \in Conns : d # c => Shrinks(d) BY <1>3, <1>9, <2>3, KeptItself DEF Shrinks
  <2> QED BY <1>1, <2>4, <2>7, <2>8, WorkerStepIs
<1> QED BY <1>6, <1>7, <1>8, <1>9

LEMMA LateEntryEndsStep ==
  ASSUME IInv, NEW w \in Workers, NEW c, NEW h, LateEntryEnds(w, c, h) PROVE IInv'
<1>1. /\ <<c, h>> \in late[w] /\ late' = [late EXCEPT ![w] = @ \ {<<c, h>>}]
      /\ UNCHANGED <<connVars, registryVars, running, member, down, clientVars, crashes>>
  BY DEF LateEntryEnds
<1>2. c \in Conns /\ h \in Nat \ {0} /\ late \in [Workers -> SUBSET (Conns \X (Nat \ {0}))]
  BY <1>1 DEF IInv, TypeOK
<1>3. PICK op \in {"joined", "failed"} : up' = Post(up, w, Marker(op, c, h))
  BY DEF LateEntryEnds
<1>4. PICK x \in UpMsg : x = Marker(op, c, h) /\ x.who = c /\ x.gen = h /\ Kind(x) = "answer"
  BY <1>2, MarkerFields
<1>5. up' = Post(up, w, x) /\ TypeOK BY <1>3, <1>4 DEF IInv
<1>6. /\ up' \in [Workers -> Seq(UpMsg)] /\ \A v \in Workers : v # w => up'[v] = up[v]
      /\ \A i \in DOMAIN up'[w] : up'[w][i] = x \/ \E j \in DOMAIN up[w] : up[w][j] = up'[w][i]
      /\ \A k, d, g : Says(up'[w], k, d, g) <=> Says(up[w], k, d, g) \/ About(x, k, d, g)
      /\ \A k, d, g : Once(up[w], k, d, g) /\ (About(x, k, d, g) => ~Says(up[w], k, d, g)) => Once(up'[w], k, d, g)
      /\ \A d : \A v \in Workers : ~(Kind(x) \in Kinds /\ x.who = d) => Kept(up[v], up'[v], d)
  BY <1>5, PostsUp
<1>7. \A k, d, g : About(x, k, d, g) <=> k = "answer" /\ d = c /\ g = h BY <1>4 DEF About
<1>8. /\ late' \in [Workers -> SUBSET (Conns \X (Nat \ {0}))] /\ \A v \in Workers : v # w => late'[v] = late[v]
      /\ late'[w] = late[w] \ {<<c, h>>}
  BY <1>1, <1>2
<1>9. TypeOK' BY <1>1, <1>6, <1>8 DEF IInv, TypeOK, connVars, registryVars, clientVars
<1>10. NothingIsStray(c) /\ JobFitsRoute(c) /\ h <= gen[c]
  <2>1. NothingIsStray(c) /\ JobFitsRoute(c) BY <1>2 DEF IInv, Good
  <2>2. <<c, h>>[1] = c => <<c, h>>[2] <= gen[c] BY <1>1, <2>1 DEF NothingIsStray
  <2> QED BY <2>1, <2>2
<1>11. NothingIsStray(c)'
  <2> SUFFICES ASSUME NEW v \in Workers
           PROVE  /\ \A i \in DOMAIN down'[v] : down'[v][i].who = c =>
                       /\ route'[c].at = v /\ gen'[c] = down'[v][i].gen
                       /\ down'[v][i].op = "join" => down'[v][i].to = route'[c].to
                  /\ \A i \in DOMAIN up'[v] :
                       /\ up'[v][i].op = "left" /\ up'[v][i].who = c => route'[c].at = v /\ gen'[c] = up'[v][i].gen
                       /\ Kind(up'[v][i]) = "answer" /\ up'[v][i].who = c => up'[v][i].gen <= gen'[c]
                  /\ \A e \in late'[v] : e[1] = c => e[2] <= gen'[c]
                  /\ member'[v][c] # NoMember =>
                       /\ route'[c].at = v /\ gen'[c] = member'[v][c].gen /\ route'[c].to = member'[v][c].to
                       /\ member'[v][c].leaving # "no" => route'[c].state = "leaving"
    BY DEF NothingIsStray, Current
  <2>1. gen' = gen /\ route' = route /\ down' = down /\ member' = member BY <1>1 DEF connVars
  <2>2. ASSUME NEW i \in DOMAIN up'[v], up'[v][i].who = c
        PROVE  /\ up'[v][i].op = "left" => route[c].at = v /\ gen[c] = up'[v][i].gen
               /\ Kind(up'[v][i]) = "answer" => up'[v][i].gen <= gen[c]
    <3>1. CASE \E j \in DOMAIN up[v] : up[v][j] = up'[v][i]
      BY <1>10, <2>2, <3>1 DEF NothingIsStray, Current
    <3>2. CASE up'[v][i] = x BY <1>4, <1>10, <3>2 DEF Kind
    <3> QED BY <1>6, <3>1, <3>2
  <2>3. \A e \in late'[v] : e[1] = c => e[2] <= gen[c] BY <1>8, <1>10 DEF NothingIsStray
  <2> QED BY <1>10, <2>1, <2>2, <2>3 DEF NothingIsStray, Current
<1>12. ASSUME Routed(c)'
       PROVE  gen'[c] >= 1 /\ RunEndsOnce(c, route[c].at, gen[c])' /\ EntryIsAnswered(c, route[c].at, gen[c])'
  <2>1. Routed(c) /\ gen' = gen /\ route' = route /\ job' = job /\ down' = down /\ member' = member
    BY <1>1, <1>12 DEF Routed, connVars
  <2>2. PICK v \in Workers, g \in Nat : v = route[c].at /\ g = gen[c]
    BY <1>2, <2>1, RouteFields DEF Routed, IInv, TypeOK
  <2>3. RunEndsOnce(c, v, g) /\ EntryIsAnswered(c, v, g) /\ gen[c] >= 1
    BY <1>2, <2>1, <2>2 DEF IInv, Good
  <2>4. v # w \/ g # h => /\ Says(up'[v], "answer", c, g) <=> Says(up[v], "answer", c, g)
                          /\ Once(up'[v], "answer", c, g) /\ (<<c, g>> \in late'[v] <=> <<c, g>> \in late[v])
    <3>1. Once(up[v], "answer", c, g) BY <2>3 DEF EntryIsAnswered
    <3>2. CASE v # w BY <1>6, <1>8, <3>1, <3>2
    <3>3. CASE v = w /\ g # h BY <1>6, <1>7, <1>8, <3>1, <3>3
    <3> QED BY <3>2, <3>3
  <2>5. v = w /\ g = h => /\ ~Says(up[v], "answer", c, g) /\ ~Says(down[v], "join", c, g) /\ ~Entering(v, c)
                          /\ job[c].phase = "loading" /\ Once(up'[v], "answer", c, g) /\ <<c, g>> \notin late'[v]
    <3> SUFFICES ASSUME v = w, g = h
                 PROVE  /\ ~Says(up[v], "answer", c, g) /\ ~Says(down[v], "join", c, g) /\ ~Entering(v, c)
                        /\ job[c].phase = "loading" /\ Once(up'[v], "answer", c, g) /\ <<c, g>> \notin late'[v]
      OBVIOUS
    <3>1. /\ ~Says(up[v], "answer", c, g) /\ ~Says(down[v], "join", c, g) /\ ~Entering(v, c)
          /\ job[c].phase = "loading" /\ Once(up[v], "answer", c, g)
      BY <1>1, <2>3 DEF EntryIsAnswered
    <3> QED BY <1>6, <1>8, <3>1
  <2>6. EntryIsAnswered(c, v, g)'
    <3>1. Entering(v, c)' <=> Entering(v, c) BY <2>1 DEF Entering
    <3> QED BY <2>1, <2>3, <2>4, <2>5, <3>1 DEF EntryIsAnswered
  <2>7. RunEndsOnce(c, v, g)'
    <3>1. (Says(up'[v], "left", c, g) <=> Says(up[v], "left", c, g)) /\ (Once(up[v], "left", c, g) => Once(up'[v], "left", c, g))
      BY <1>6, <1>7
    <3> QED BY <2>1, <2>3, <3>1 DEF RunEndsOnce
  <2> QED BY <2>1, <2>2, <2>3, <2>6, <2>7
<1>13. Good(c)'
  <2>1. JobFitsRoute(c)' BY <1>1, <1>10 DEF JobFitsRoute, Routed, connVars
  <2> QED BY <1>11, <1>12, <2>1 DEF Good
<1>14. \A d \in Conns : d # c => Shrinks(d)
  <2>1. \A d \in Conns, v \in Workers : d # c => Kept(up[v], up'[v], d) BY <1>4, <1>6
  <2> QED BY <1>1, <1>8, <2>1, KeptItself DEF Shrinks
<1> QED BY <1>1, <1>2, <1>9, <1>13, <1>14, WorkerStepIs

\* What a dungeon says on its own is about no run's end or entry.
LEMMA SaysOnItsOwn ==
  ASSUME IInv, NEW w \in Workers, NEW x \in UpMsg, Kind(x) \notin Kinds, up' = Post(up, w, x),
         UNCHANGED <<connVars, registryVars, workerVars, down, clientVars, crashes>>
  PROVE  IInv'
<1>1. up' \in [Workers -> Seq(UpMsg)] /\ \A d : \A v \in Workers : Kept(up[v], up'[v], d)
  <2>1. TypeOK BY DEF IInv
  <2>2. /\ up' \in [Workers -> Seq(UpMsg)]
        /\ \A d : \A v \in Workers : ~(Kind(x) \in Kinds /\ x.who = d) => Kept(up[v], up'[v], d)
    BY <2>1, PostsUp
  <2> QED BY <2>2
<1>2. TypeOK' BY <1>1 DEF IInv, TypeOK, connVars, registryVars, workerVars, clientVars
<1>3. \A d \in Conns : Follows(d) /\ route'[d].state = route[d].state /\ Shrinks(d)
  BY <1>1, KeptItself DEF Follows, Shrinks, connVars, workerVars
<1>4. RegistryInv' BY <1>2, <1>3, RegistryStays DEF IInv, connVars, registryVars, workerVars
<1>5. \A d \in Conns : Good(d)' BY <1>2, <1>3, OthersAreGood DEF IInv, connVars
<1> QED BY <1>2, <1>4, <1>5 DEF IInv

LEMMA DungeonSpeaksStep ==
  ASSUME IInv, NEW w \in Workers,
         \/ \E m \in MatchIds : RunFinishes(w, m)
         \/ \E c \in Conns, op \in {"door", "home"} : Calls(w, c, op)
  PROVE  IInv'
<1>1. CASE \E m \in MatchIds : RunFinishes(w, m)
  <2>1. PICK m \in MatchIds : RunFinishes(w, m) BY <1>1
  <2>2. PICK x : x = [op |-> "finished", to |-> m] OBVIOUS
  <2>3. x \in UpMsg /\ Kind(x) \notin Kinds BY <2>2 DEF UpMsg, Kind, Kinds
  <2>4. up' = Post(up, w, x) /\ UNCHANGED <<connVars, registryVars, workerVars, down, clientVars, crashes>>
    BY <2>1, <2>2 DEF RunFinishes
  <2> QED BY <2>3, <2>4, SaysOnItsOwn
<1>2. CASE \E c \in Conns, op \in {"door", "home"} : Calls(w, c, op)
  <2>1. PICK c \in Conns, op \in {"door", "home"} : Calls(w, c, op) BY <1>2
  <2>2. member[w][c] # NoMember BY <2>1 DEF Calls, NoMember
  <2>3. PICK g \in Nat \ {0} : g = member[w][c].gen BY <2>2, MemberIs
  <2>4. PICK x \in UpMsg : x = Marker(op, c, g) /\ Kind(x) = op BY MarkerFields
  <2>5. Kind(x) \notin Kinds BY <2>4 DEF Kinds
  <2>6. up' = Post(up, w, x) /\ UNCHANGED <<connVars, registryVars, workerVars, down, clientVars, crashes>>
    BY <2>1, <2>3, <2>4 DEF Calls
  <2> QED BY <2>5, <2>6, SaysOnItsOwn
<1> QED BY <1>1, <1>2

\* A request to close is about no run's end or entry.
LEMMA DropSays ==
  ASSUME TypeOK, NEW w \in Workers, NEW c \in Conns, NEW g \in Nat \ {0},
         up' = up \/ up' = Post(up, w, Marker("close", c, g))
  PROVE  /\ up' \in [Workers -> Seq(UpMsg)] /\ \A v \in Workers : v # w => up'[v] = up[v]
         /\ \A d : \A v \in Workers : Kept(up[v], up'[v], d)
         /\ \A i \in DOMAIN up'[w] : Kind(up'[w][i]) \in Kinds => \E j \in DOMAIN up[w] : up[w][j] = up'[w][i]
         /\ \A k \in Kinds : \A d, h : Says(up'[w], k, d, h) <=> Says(up[w], k, d, h)
         /\ \A k \in Kinds : \A d, h : Once(up[w], k, d, h) => Once(up'[w], k, d, h)
<1>1. CASE up' = up BY <1>1, KeptItself DEF TypeOK
<1>2. CASE up' = Post(up, w, Marker("close", c, g))
  <2>1. PICK x \in UpMsg : x = Marker("close", c, g) /\ Kind(x) = "close" BY MarkerFields
  <2>2. Kind(x) \notin Kinds /\ \A k \in Kinds : \A d, h : ~About(x, k, d, h)
    BY <2>1 DEF Kinds, About
  <2>3. up' = Post(up, w, x) BY <1>2, <2>1
  <2> QED BY <2>2, <2>3, PostsUp
<1> QED BY <1>1, <1>2

LEMMA QueueDroppedStep ==
  ASSUME IInv, NEW w \in Workers, NEW c \in Conns, QueueDropped(w, c) PROVE IInv'
<1>1. /\ member[w][c] # NoMember
      /\ member' = [member EXCEPT ![w][c].leaving = IF @ = "disables" THEN "dropped" ELSE @]
      /\ UNCHANGED <<connVars, registryVars, running, late, down, clientVars, crashes>>
  BY DEF QueueDropped
<1>2. PICK g \in Nat \ {0} : /\ g = member[w][c].gen /\ gen[c] = g /\ member[w][c] \in Members
                             /\ Routed(c) /\ route[c].at = w /\ route[c].to = member[w][c].to
                             /\ member[w][c].leaving # "no" => route[c].state = "leaving"
                             /\ RunEndsOnce(c, w, g) /\ EntryIsAnswered(c, w, g)
  BY <1>1, MemberIs
<1>3. up' = up \/ up' = Post(up, w, Marker("close", c, g)) BY <1>2 DEF QueueDropped
<1>4. /\ up' \in [Workers -> Seq(UpMsg)] /\ \A v \in Workers : v # w => up'[v] = up[v]
      /\ \A d \in Conns, v \in Workers : Kept(up[v], up'[v], d)
      /\ \A i \in DOMAIN up'[w] : Kind(up'[w][i]) \in Kinds => \E j \in DOMAIN up[w] : up[w][j] = up'[w][i]
      /\ \A k \in {"left", "answer"} : Says(up'[w], k, c, g) <=> Says(up[w], k, c, g)
      /\ \A k \in {"left", "answer"} : Once(up[w], k, c, g) => Once(up'[w], k, c, g)
  <2>1. TypeOK BY DEF IInv
  <2>2. {"left", "answer"} \subseteq Kinds BY DEF Kinds
  <2> QED BY <1>3, <2>1, <2>2, DropSays
<1>5. PICK m \in Members : /\ m # NoMember /\ m.gen = g /\ m.to = member[w][c].to /\ m.phase = member[w][c].phase
                           /\ m.leaving # "no" <=> member[w][c].leaving # "no"
                           /\ member' = [member EXCEPT ![w][c] = m]
  <2>1. member \in [Workers -> [Conns -> Members]] BY DEF IInv, TypeOK
  <2>2. CASE member[w][c].leaving = "disables"
    <3>1. PICK n \in Members : n = member[w][c] /\ n # NoMember BY <1>1, <1>2
    <3>2. \A l \in {"disables", "dropped"} :
            LET k == [n EXCEPT !.leaving = l]
            IN  k \in Members /\ k # NoMember /\ k.gen = n.gen /\ k.to = n.to /\ k.phase = n.phase /\ k.leaving = l
      BY <3>1, MemberMoves
    <3>3. PICK k \in Members : /\ k = [n EXCEPT !.leaving = "dropped"] /\ k # NoMember /\ k.gen = n.gen
                               /\ k.to = n.to /\ k.phase = n.phase /\ k.leaving = "dropped"
      BY <3>2
    <3>4. member' = [member EXCEPT ![w][c] = k] BY <1>1, <2>1, <2>2, <3>1, <3>3
    <3> QED BY <1>2, <2>2, <3>1, <3>3, <3>4
  <2>3. CASE member[w][c].leaving # "disables"
    <3>1. [member[w][c] EXCEPT !.leaving = @] = member[w][c] BY <1>1, <1>2 DEF Members
    <3>2. member' = [member EXCEPT ![w][c] = member[w][c]] BY <1>1, <2>1, <2>3, <3>1
    <3> QED BY <1>1, <1>2, <3>2
  <2> QED BY <2>2, <2>3
<1>6. /\ member' \in [Workers -> [Conns -> Members]] /\ member'[w][c] = m
      /\ \A v \in Workers, d \in Conns : v # w \/ d # c => member'[v][d] = member[v][d]
  BY <1>5 DEF IInv, TypeOK
<1>7. TypeOK' BY <1>1, <1>4, <1>6 DEF IInv, TypeOK, connVars, registryVars, clientVars
<1>8. RunEndsOnce(c, w, g)' BY <1>1, <1>2, <1>4, <1>5, <1>6 DEF RunEndsOnce, connVars
<1>9. EntryIsAnswered(c, w, g)'
  <2>1. (Entering(w, c)' <=> Entering(w, c)) /\ job' = job /\ late' = late /\ down' = down
    BY <1>1, <1>5, <1>6 DEF Entering, connVars
  <2> QED BY <1>2, <1>4, <2>1 DEF EntryIsAnswered
<1>10. Good(c)'
  <2>1. \A e \in late'[w] : e[1] = c => e[2] = g \/ e \in late[w] BY <1>1
  <2>2. /\ \A v \in Workers : v # w =>
              up'[v] = up[v] /\ down'[v] = down[v] /\ member'[v][c] = member[v][c] /\ late'[v] = late[v]
        /\ \A i \in DOMAIN down'[w] : \E j \in DOMAIN down[w] : down[w][j] = down'[w][i]
    BY <1>1, <1>4, <1>6
  <2>3. UNCHANGED connVars BY <1>1
  <2>4. \A i \in DOMAIN up'[w] : Kind(up'[w][i]) \in {"left", "answer"} =>
          up'[w][i].gen = g \/ \E j \in DOMAIN up[w] : up[w][j] = up'[w][i]
    BY <1>4 DEF Kinds
  <2>5. /\ member'[w][c].gen = g /\ member'[w][c].to = route[c].to
        /\ member'[w][c].leaving # "no" => route[c].state = "leaving"
    BY <1>2, <1>5, <1>6
  <2> QED BY <1>2, <1>7, <1>8, <1>9, <2>1, <2>2, <2>3, <2>4, <2>5, RunIsGood
<1>11. \A d \in Conns : d # c => Shrinks(d) BY <1>1, <1>4, <1>6, KeptItself DEF Shrinks
<1> QED BY <1>1, <1>7, <1>10, <1>11, WorkerStepIs

-----------------------------------------------------------------------------
(* A run is over: it was left, or its worker died.                         *)

LEMMA JobAfterLeftIs ==
  ASSUME TypeOK, NEW c \in Conns
  PROVE  JobAfterLeft(c) \in Jobs /\ JobAfterLeft(c).phase \in {"none", "admitting", "checking"}
<1>1. PICK j \in Jobs : j = job[c] BY DEF TypeOK
<1>2. NoJob \in Jobs /\ NoJob.phase = "none" BY DEF Jobs, NoJob
<1>3. CASE job[c].phase = "leaving" /\ c \notin cancelled
  <2>1. j # NoJob BY <1>1, <1>2, <1>3
  <2>2. \A q \in {"admitting", "loading", "unwinding", "failing"} :
          [j EXCEPT !.phase = q] \in Jobs /\ [j EXCEPT !.phase = q].phase = q
    BY <2>1, JobFields
  <2>3. [job[c] EXCEPT !.phase = "admitting"] \in Jobs /\ [job[c] EXCEPT !.phase = "admitting"].phase = "admitting"
    BY <1>1, <2>2
  <2>4. JobAfterLeft(c) = [job[c] EXCEPT !.phase = "admitting"] BY <1>3 DEF JobAfterLeft
  <2> QED BY <2>3, <2>4
<1>4. CASE ~(job[c].phase = "leaving" /\ c \notin cancelled)
  <2>1. JobAfterLeft(c) = IF job[c].phase \in {"admitting", "checking"} THEN job[c] ELSE NoJob
    BY <1>4 DEF JobAfterLeft
  <2> QED BY <1>1, <1>2, <2>1
<1> QED BY <1>3, <1>4

LEMMA SettledDoes ==
  ASSUME TypeOK, NEW S \in SUBSET Conns, Settled(S)
  PROVE  /\ route' \in [Conns -> Routes] /\ job' \in [Conns -> Jobs] /\ cancelled' \subseteq Conns
         /\ exit' \in [Conns -> {"none", "leaving", "waiting"}]
         /\ \A c \in S : route'[c] = NoRoute /\ job'[c].phase # "loading"
         /\ \A c \in Conns \ S : route'[c] = route[c] /\ job'[c] = job[c] /\ (c \in cancelled => c \in cancelled')
<1>1. /\ route' = [c \in Conns |-> IF c \in S THEN NoRoute ELSE route[c]]
      /\ job' = [c \in Conns |-> IF c \in S THEN JobAfterLeft(c) ELSE job[c]]
      /\ cancelled' = cancelled \ {c \in S : JobAfterLeft(c) = NoJob}
      /\ exit' = [c \in Conns |->
           IF c \notin S \/ exit[c] # "leaving" THEN exit[c]
           ELSE IF JobAfterLeft(c) = NoJob THEN "none" ELSE "waiting"]
  BY DEF Settled
<1>2. NoRoute \in Routes BY DEF Routes
<1>3. \A c \in Conns : JobAfterLeft(c) \in Jobs /\ JobAfterLeft(c).phase # "loading"
  BY JobAfterLeftIs
<1>4. route' \in [Conns -> Routes] BY <1>1, <1>2 DEF TypeOK
<1>5. job' \in [Conns -> Jobs] BY <1>1, <1>3 DEF TypeOK
<1>6. cancelled' \subseteq Conns /\ exit' \in [Conns -> {"none", "leaving", "waiting"}]
  BY <1>1 DEF TypeOK
<1>7. \A c \in S : route'[c] = NoRoute /\ job'[c].phase # "loading" BY <1>1, <1>3
<1>8. \A c \in Conns \ S : route'[c] = route[c] /\ job'[c] = job[c] /\ (c \in cancelled => c \in cancelled')
  BY <1>1
<1> QED BY <1>4, <1>5, <1>6, <1>7, <1>8

\* The worker's last word about a run.
LEMMA LeftHeard ==
  ASSUME IInv, NEW w \in Workers, Hears(w, "left"), IsCurrent(w, Head(up[w])),
         UNCHANGED <<member, late, down>>
  PROVE  LET c == Head(up[w]).who
         IN  /\ c \in Conns /\ Good(c) /\ route[c].state = "leaving"
             /\ \A v \in Workers :
                  /\ \A i \in DOMAIN down'[v] : down'[v][i].who # c
                  /\ \A i \in DOMAIN up'[v] : ~(up'[v][i].op = "left" /\ up'[v][i].who = c)
                  /\ Kept(up[v], up'[v], c) /\ \A e \in late'[v] : e[1] = c => e \in late[v]
                  /\ member'[v][c] = NoMember
<1>1. PICK x \in UpMsg, c \in Conns, g \in Nat \ {0} : x = Head(up[w]) /\ c = x.who /\ g = x.gen /\ x.op = "left" /\ g \in Nat
  BY HearsOne, MessageFields DEF IInv
<1>2. /\ up' \in [Workers -> Seq(UpMsg)] /\ up'[w] = Tail(up[w]) /\ \A v \in Workers : v # w => up'[v] = up[v]
      /\ \A d \in Conns, v \in Workers : Kept(up[v], up'[v], d)
      /\ up[w] \in Seq(UpMsg) /\ up[w] # <<>>
  BY HearsOne DEF IInv
<1>3. /\ route[c].at = w /\ gen[c] = g /\ Routed(c) BY <1>1 DEF IsCurrent, Routed, NoRoute
<1>4. Good(c) /\ RunEndsOnce(c, w, g) /\ NothingIsStray(c) BY <1>1, <1>3 DEF IInv, Good
<1>5. About(x, "left", c, g) BY <1>1 DEF About, Kind
<1>6. Says(up[w], "left", c, g) /\ ~Says(up'[w], "left", c, g)
  <2>1. /\ \A k, d, h : About(Head(up[w]), k, d, h) => Says(up[w], k, d, h)
        /\ \A k, d, h : About(Head(up[w]), k, d, h) /\ Once(up[w], k, d, h) => ~Says(Tail(up[w]), k, d, h)
    BY <1>2, SaidFirst
  <2>2. Once(up[w], "left", c, g) BY <1>4 DEF RunEndsOnce
  <2> QED BY <1>1, <1>2, <1>5, <2>1, <2>2
<1>7. /\ route[c].state = "leaving" /\ member[w][c] = NoMember
      /\ ~Says(down[w], "join", c, g) /\ ~Says(down[w], "leave", c, g)
  BY <1>4, <1>6 DEF RunEndsOnce
<1>8. ASSUME NEW v \in Workers, NEW i \in DOMAIN down[v], down[v][i].who = c PROVE FALSE
  <2>1. v = w /\ down[v][i].gen = g BY <1>3, <1>4, <1>8 DEF NothingIsStray, Current
  <2>2. down[v][i] \in DownMsg BY ElementOfSeq DEF IInv, TypeOK
  <2>3. down[v][i].op \in {"join", "leave"} BY <2>2 DEF DownMsg
  <2> QED BY <1>7, <1>8, <2>1, <2>3 DEF Says, About, Kind
<1>9. ASSUME NEW v \in Workers, NEW i \in DOMAIN up'[v], up'[v][i].op = "left", up'[v][i].who = c PROVE FALSE
  <2>1. Kind(up'[v][i]) = "left" BY <1>9 DEF Kind
  <2>2. PICK j \in DOMAIN up[v] : up[v][j] = up'[v][i] BY <1>2, <1>9, <2>1 DEF Kept, Kinds
  <2>3. v = w /\ up'[v][i].gen = g BY <1>3, <1>4, <1>9, <2>2 DEF NothingIsStray, Current
  <2> QED BY <1>6, <1>9, <2>1, <2>3 DEF Says, About
<1>10. \A v \in Workers : member[v][c] = NoMember
  BY <1>3, <1>4, <1>7 DEF NothingIsStray, Current
<1> QED BY <1>1, <1>2, <1>4, <1>7, <1>8, <1>9, <1>10

LEMMA LeftStep ==
  ASSUME IInv, NEW w \in Workers, LeftArrives(w) PROVE IInv'
<1>1. Hears(w, "left") /\ UNCHANGED <<registryVars, workerVars, down, crashes>>
  BY DEF LeftArrives
<1>2. /\ up' \in [Workers -> Seq(UpMsg)] /\ \A d \in Conns, v \in Workers : Kept(up[v], up'[v], d)
  BY <1>1, HearsOne DEF IInv
<1>3. CASE ~IsCurrent(w, Head(up[w]))
  <2>1. UNCHANGED <<connVars, clientVars>> BY <1>3 DEF LeftArrives
  <2>2. TypeOK'
    BY <1>1, <1>2, <2>1 DEF IInv, TypeOK, connVars, registryVars, workerVars, clientVars
  <2> QED BY <1>1, <2>1, <2>2, UpHeardStays DEF connVars, registryVars, workerVars
<1>4. CASE IsCurrent(w, Head(up[w]))
  <2>1. PICK c : c = Head(up[w]).who OBVIOUS
  <2>2. /\ c \in Conns /\ Good(c) /\ route[c].state = "leaving"
        /\ \A v \in Workers :
             /\ \A i \in DOMAIN down'[v] : down'[v][i].who # c
             /\ \A i \in DOMAIN up'[v] : ~(up'[v][i].op = "left" /\ up'[v][i].who = c)
             /\ Kept(up[v], up'[v], c) /\ \A e \in late'[v] : e[1] = c => e \in late[v]
             /\ member'[v][c] = NoMember
    BY <1>1, <1>4, <2>1, LeftHeard DEF workerVars
  <2>3. PICK S \in SUBSET Conns : S = {c} /\ Settled(S) BY <1>4, <2>1, <2>2 DEF LeftArrives
  <2>4. /\ shown' \subseteq Conns /\ home' \subseteq Conns /\ UNCHANGED <<online, gen>>
    BY <1>4, <2>1, <2>2 DEF LeftArrives, IInv, TypeOK
  <2>5. /\ route' \in [Conns -> Routes] /\ job' \in [Conns -> Jobs] /\ cancelled' \subseteq Conns
        /\ exit' \in [Conns -> {"none", "leaving", "waiting"}]
        /\ \A d \in S : route'[d] = NoRoute /\ job'[d].phase # "loading"
        /\ \A d \in Conns \ S : route'[d] = route[d] /\ job'[d] = job[d] /\ (d \in cancelled => d \in cancelled')
    BY <2>3, SettledDoes DEF IInv
  <2>6. TypeOK' BY <1>1, <1>2, <2>4, <2>5 DEF IInv, TypeOK, registryVars, workerVars
  <2>7. route'[c] = NoRoute /\ job'[c].phase # "loading" BY <2>3, <2>5
  <2>8. Good(c)' BY <2>2, <2>4, <2>6, <2>7, GoodUnrouted DEF IInv
  <2>9. ASSUME NEW d \in Conns, d # c
        PROVE  Follows(d) /\ route'[d].state = route[d].state /\ Shrinks(d) /\ job'[d] = job[d] /\ (d \in cancelled => d \in cancelled')
    <3>1. d \in Conns \ S BY <2>3, <2>9
    <3> QED BY <1>1, <1>2, <2>5, <3>1, KeptItself DEF Follows, Shrinks, workerVars
  <2>10. \A d \in Conns : d # c => Good(d)' BY <2>4, <2>6, <2>9, OthersAreGood DEF IInv
  <2>11. RegistryInv'
    <3>1. \A d \in Conns : \/ Follows(d) /\ route'[d].state = route[d].state
                           \/ route'[d] = NoRoute /\ route[d].state \notin {"joining", "entered"}
      BY <2>2, <2>7, <2>9
    <3>2. \A m \in MatchIds : state'[m] = state[m] BY <1>1 DEF registryVars
    <3> QED BY <1>1, <2>4, <2>6, <3>1, <3>2, RegistryStays DEF IInv, registryVars, workerVars
  <2> QED BY <2>6, <2>8, <2>10, <2>11 DEF IInv
<1> QED BY <1>3, <1>4

LEMMA WorkerDiesStep ==
  ASSUME IInv, NEW w \in Workers, WorkerDies(w) PROVE IInv'
<1>1. PICK S \in SUBSET Conns : S = {c \in Conns : route[c].at = w} OBVIOUS
<1>2. PICK L \in SUBSET Conns, M \in {{route[c].to : c \in S}} :
         L = {c \in S : route[c].state # "leaving"} /\ M = {route[c].to : c \in S}
  BY <1>1
<1>3. /\ crashes < MaxCrashes /\ crashes' = crashes + 1 /\ running' = running \ {w}
      /\ member' = [member EXCEPT ![w] = [c \in Conns |-> NoMember]] /\ late' = [late EXCEPT ![w] = {}]
      /\ up' = [up EXCEPT ![w] = <<>>] /\ down' = [down EXCEPT ![w] = <<>>]
      /\ Settled(S) /\ RemovedAndClosed(L, M)
      /\ shown' \subseteq shown /\ home' \subseteq Conns /\ UNCHANGED <<online, gen>>
  BY <1>1, <1>2 DEF WorkerDies, IInv, TypeOK
<1>4. /\ route' \in [Conns -> Routes] /\ job' \in [Conns -> Jobs] /\ cancelled' \subseteq Conns
      /\ exit' \in [Conns -> {"none", "leaving", "waiting"}]
      /\ \A d \in S : route'[d] = NoRoute /\ job'[d].phase # "loading"
      /\ \A d \in Conns \ S : route'[d] = route[d] /\ job'[d] = job[d] /\ (d \in cancelled => d \in cancelled')
  BY <1>3, SettledDoes DEF IInv
<1>5. M \in SUBSET MatchIds BY <1>1, <1>2, RouteFields DEF IInv, TypeOK
<1>6. /\ RegistryTypeOK' /\ RegistryAgrees'
      /\ \A d \in Conns : in'[d] = IF d \in L \/ in[d] \in M THEN NoMatch ELSE in[d]
  <2>1. RegistryTypeOK /\ RegistryAgrees BY DEF IInv, TypeOK, RegistryTypeOK, RegistryInv
  <2> QED BY <1>3, <1>5, <2>1, RegistryShrinks
<1>7. /\ member' \in [Workers -> [Conns -> Members]] /\ \A c \in Conns : member'[w][c] = NoMember
      /\ late' \in [Workers -> SUBSET (Conns \X (Nat \ {0}))] /\ late'[w] = {}
      /\ up' \in [Workers -> Seq(UpMsg)] /\ up'[w] = <<>>
      /\ down' \in [Workers -> Seq(DownMsg)] /\ down'[w] = <<>>
      /\ \A v \in Workers : v # w => member'[v] = member[v] /\ late'[v] = late[v] /\ up'[v] = up[v] /\ down'[v] = down[v]
  <2>1. NoMember \in Members /\ <<>> \in Seq(UpMsg) /\ <<>> \in Seq(DownMsg) BY DEF Members
  <2> QED BY <1>3, <2>1 DEF IInv, TypeOK
<1>8. TypeOK'
  <2>1. crashes' \in 0..MaxCrashes BY <1>3 DEF IInv, TypeOK
  <2> QED BY <1>3, <1>4, <1>6, <1>7, <2>1 DEF IInv, TypeOK, RegistryTypeOK
<1>9. ASSUME NEW c \in Conns \ S PROVE Good(c)'
  <2>1. Follows(c) /\ route'[c].state = route[c].state BY <1>4, <1>9 DEF Follows
  <2>2. ASSUME NEW v \in Workers
        PROVE  /\ member'[v][c] \in {member[v][c], NoMember}
               /\ Kept(up[v], up'[v], c) /\ Kept(down[v], down'[v], c)
               /\ \A e \in late'[v] : e[1] = c => e \in late[v]
    <3>1. CASE v = w
      <4>1. member'[v][c] = NoMember /\ up'[v] = <<>> /\ down'[v] = <<>> /\ late'[v] = {}
        BY <1>7, <1>9, <3>1
      <4>2. Kept(up[v], <<>>, c) /\ Kept(down[v], <<>>, c) BY KeptNothing
      <4> QED BY <4>1, <4>2
    <3>2. CASE v # w
      <4>1. member'[v] = member[v] /\ up'[v] = up[v] /\ down'[v] = down[v] /\ late'[v] = late[v]
        BY <1>7, <3>2
      <4>2. Kept(up[v], up[v], c) /\ Kept(down[v], down[v], c) BY KeptItself
      <4> QED BY <4>1, <4>2
    <3> QED BY <3>1, <3>2
  <2>3. Shrinks(c) BY <2>2 DEF Shrinks
  <2> QED BY <1>3, <1>4, <1>8, <1>9, <2>1, <2>3, OthersAreGood DEF IInv
<1>10. ASSUME NEW c \in S PROVE Good(c)'
  <2>1. c \in Conns /\ route[c].at = w /\ Good(c) /\ NothingIsStray(c)
    BY <1>1, <1>10 DEF IInv, Good
  <2>2. ASSUME NEW v \in Workers
        PROVE  /\ \A i \in DOMAIN down'[v] : down'[v][i].who # c
               /\ \A i \in DOMAIN up'[v] : ~(up'[v][i].op = "left" /\ up'[v][i].who = c)
               /\ Kept(up[v], up'[v], c) /\ \A e \in late'[v] : e[1] = c => e \in late[v]
               /\ member'[v][c] = NoMember
    <3>1. CASE v = w
      <4>1. member'[v][c] = NoMember /\ up'[v] = <<>> /\ down'[v] = <<>> /\ late'[v] = {}
        BY <1>7, <2>1, <3>1
      <4>2. Kept(up[v], <<>>, c) BY KeptNothing
      <4> QED BY <4>1, <4>2
    <3>2. CASE v # w
      <4>1. member'[v] = member[v] /\ up'[v] = up[v] /\ down'[v] = down[v] /\ late'[v] = late[v]
        BY <1>7, <3>2
      <4>2. Kept(up[v], up[v], c) BY KeptItself
      <4>3. \A g : ~Current(v, c, g) BY <2>1, <3>2 DEF Current
      <4>4. /\ \A i \in DOMAIN down[v] : down[v][i].who # c
            /\ \A i \in DOMAIN up[v] : ~(up[v][i].op = "left" /\ up[v][i].who = c)
            /\ member[v][c] = NoMember
        BY <2>1, <4>3 DEF NothingIsStray
      <4> QED BY <4>1, <4>2, <4>4
    <3> QED BY <3>1, <3>2
  <2>3. route'[c] = NoRoute /\ job'[c].phase # "loading" /\ gen'[c] = gen[c] BY <1>3, <1>4
  <2> QED BY <1>8, <2>1, <2>2, <2>3, GoodUnrouted DEF IInv
<1>11. PlacesAreHeld'
  <2> SUFFICES ASSUME NEW c \in Conns
               PROVE  in'[c] = IF route'[c].state \in {"joining", "entered"} THEN route'[c].to ELSE NoMatch
    BY DEF PlacesAreHeld
  <2>1. in[c] = IF route[c].state \in {"joining", "entered"} THEN route[c].to ELSE NoMatch
    BY DEF IInv, RegistryInv, PlacesAreHeld
  <2>2. CASE c \in S
    <3>1. in'[c] = NoMatch BY <1>2, <1>6, <2>1, <2>2
    <3> QED BY <1>4, <2>2, <3>1 DEF NoRoute
  <2>3. CASE c \notin S
    <3>1. in[c] \notin M
      <4> SUFFICES ASSUME in[c] \in M PROVE FALSE OBVIOUS
      <4>1. PICK d \in S : route[d].to = in[c] BY <1>2
      <4>2. in[c] = route[c].to BY <1>5, <2>1
      <4>3. route[c].at = route[d].at
        BY <1>1, <4>1, <4>2 DEF IInv, RegistryInv, OneWorkerPerMatch
      <4> QED BY <1>1, <2>3, <4>1, <4>3
    <3>2. c \notin L BY <1>2, <2>3
    <3> QED BY <1>4, <1>6, <2>1, <2>3, <3>1, <3>2
  <2> QED BY <2>2, <2>3
<1>12. OneWorkerPerMatch'
  <2>1. \A c \in Conns : c \in S => route'[c] = NoRoute BY <1>4
  <2>2. \A c \in Conns : c \notin S => route'[c] = route[c] /\ route[c].at # w BY <1>1, <1>4
  <2>3. ASSUME NEW c \in Conns, NEW d \in Conns, route'[c].to = route'[d].to PROVE route'[c].at = route'[d].at
    <3>1. Routed(c)' <=> Routed(d)' BY <1>4, <2>3, RouteFields DEF Routed
    <3>2. CASE Routed(c)'
      BY <2>1, <2>2, <2>3, <3>1, <3>2 DEF Routed, IInv, RegistryInv, OneWorkerPerMatch
    <3>3. CASE ~Routed(c)' BY <3>1, <3>3 DEF Routed
    <3> QED BY <3>2, <3>3
  <2>4. ASSUME NEW c \in Conns, Routed(c)' PROVE route'[c].at \in running'
    <3>1. c \notin S /\ route'[c] = route[c] /\ route[c].at # w /\ Routed(c)
      BY <2>1, <2>2, <2>4 DEF Routed
    <3> QED BY <1>3, <3>1 DEF IInv, RegistryInv, OneWorkerPerMatch
  <2> QED BY <2>3, <2>4 DEF OneWorkerPerMatch
<1>13. OnlyTheOpenHavePlaces' BY <1>3, <1>6 DEF IInv, RegistryInv, OnlyTheOpenHavePlaces, Open
<1> QED BY <1>6, <1>8, <1>9, <1>10, <1>11, <1>12, <1>13 DEF IInv, RegistryInv

LEMMA WorkerReplacedStep ==
  ASSUME IInv, NEW w \in Workers, WorkerReplaced(w) PROVE IInv'
<1>1. running' = running \cup {w} /\ UNCHANGED <<connVars, registryVars, member, late, up, down, clientVars, crashes>>
  BY DEF WorkerReplaced
<1>2. TypeOK' BY <1>1 DEF IInv, TypeOK, connVars, registryVars, clientVars
<1>3. \A d \in Conns : Follows(d) /\ route'[d].state = route[d].state /\ Shrinks(d)
  BY <1>1, KeptItself DEF Follows, Shrinks, connVars
<1>4. \A d \in Conns : Good(d)' BY <1>1, <1>2, <1>3, OthersAreGood DEF IInv, connVars
<1>5. PlacesAreHeld' /\ RegistryAgrees' /\ OneWorkerPerMatch' /\ OnlyTheOpenHavePlaces'
  BY <1>1 DEF IInv, RegistryInv, PlacesAreHeld, RegistryAgrees, OneWorkerPerMatch, OnlyTheOpenHavePlaces, Routed, Open,
              connVars, registryVars
<1> QED BY <1>2, <1>4, <1>5 DEF IInv, RegistryInv

-----------------------------------------------------------------------------
(* All of it.                                                              *)

LEMMA EntryInvIs == EntryInv <=> RegistryInv /\ \A c \in Conns : Good(c)
BY DEF EntryInv, RegistryInv, RunsAreFollowed, Good

LEMMA StepStays ==
  ASSUME IInv, UNCHANGED vars PROVE IInv'
<1>1. /\ UNCHANGED <<connVars, registryVars, member, late, running, up, down, clientVars, crashes>>
  BY DEF vars, workerVars
<1>2. TypeOK' BY <1>1 DEF IInv, TypeOK, connVars, registryVars, clientVars
<1>3. \A d \in Conns : Follows(d) /\ route'[d].state = route[d].state /\ Shrinks(d)
  BY <1>1, KeptItself DEF Follows, Shrinks, connVars
<1>4. \A d \in Conns : Good(d)' BY <1>1, <1>2, <1>3, OthersAreGood DEF IInv, connVars
<1>5. RegistryInv' BY <1>1, <1>2, <1>3, RegistryStays DEF IInv, connVars, registryVars
<1> QED BY <1>2, <1>4, <1>5 DEF IInv

LEMMA InitHolds == Init => IInv
<1> SUFFICES ASSUME Init PROVE IInv OBVIOUS
<1>1. TypeOK
  <2>1. NoJob \in Jobs /\ NoRoute \in Routes /\ NoMember \in Members /\ <<>> \in Seq(UpMsg) /\ <<>> \in Seq(DownMsg)
    BY DEF Jobs, Routes, Members
  <2>2. 0 \in 0..MaxCrashes OBVIOUS
  <2> QED BY <2>1, <2>2 DEF Init, TypeOK
<1>2. RegistryInv
  <2>1. \A c \in Conns : route[c] = NoRoute /\ in[c] = NoMatch /\ online[c] = "off" BY DEF Init
  <2>2. \A a \in Accounts : byAccount[a] = NoMatch BY DEF Init
  <2> QED BY <2>1, <2>2
      DEF RegistryInv, PlacesAreHeld, RegistryAgrees, OneWorkerPerMatch, OnlyTheOpenHavePlaces, NoRoute, Routed, Open
<1>3. ASSUME NEW c \in Conns PROVE Good(c)
  <2>1. /\ route[c] = NoRoute /\ job[c] = NoJob
        /\ \A w \in Workers : up[w] = <<>> /\ down[w] = <<>> /\ late[w] = {} /\ member[w][c] = NoMember
    BY DEF Init
  <2>2. ~Routed(c) /\ NoJob.phase = "none" BY <2>1 DEF Routed, NoJob
  <2>3. NothingIsStray(c) BY <2>1 DEF NothingIsStray
  <2>4. JobFitsRoute(c) BY <2>1, <2>2 DEF JobFitsRoute
  <2> QED BY <2>2, <2>3, <2>4 DEF Good
<1> QED BY <1>1, <1>2, <1>3 DEF IInv

LEMMA NextKeeps ==
  ASSUME IInv, [Next]_vars PROVE IInv'
<1>1. ASSUME NEW c \in Conns, ConnNext(c) PROVE IInv' BY <1>1, ConnStep
<1>2. ASSUME NEW w \in Workers, MainHears(w) PROVE IInv'
  BY <1>2, ReadyStep, JoinedStep, FailedStep, LeftStep, DoorStep, HomeStep, CloseArrivesStep, MatchStep
     DEF MainHears
<1>3. ASSUME NEW w \in Workers, WorkerNext(w) PROVE IInv'
  BY <1>3, MemberJoinsStep, MemberLeavesStep, EntryReadyStep, EntryFailsStep, LeaveTurnStep, LateEntryEndsStep,
     DungeonSpeaksStep, QueueDroppedStep DEF WorkerNext
<1>4. ASSUME NEW w \in Workers, WorkerDies(w) \/ WorkerReplaced(w) PROVE IInv'
  BY <1>4, WorkerDiesStep, WorkerReplacedStep
<1>5. CASE UNCHANGED vars BY <1>5, StepStays
<1> QED BY <1>1, <1>2, <1>3, <1>4, <1>5 DEF Next

LEMMA EntryHolds == Spec => []IInv
<1>1. Init => IInv BY InitHolds
<1>2. IInv /\ [Next]_vars => IInv' BY NextKeeps
<1> QED BY <1>1, <1>2, PTL DEF Spec

-----------------------------------------------------------------------------
(* What is promised of the ways in and out, for any number of connections, *)
(* accounts, matches and workers, and any number of deaths of workers.     *)

\* Every variable keeps to its type.
THEOREM EntryTypeCorrect == Spec => []TypeOK
<1>1. IInv => TypeOK BY DEF IInv
<1> QED BY <1>1, EntryHolds, PTL

\* Registry, routes, jobs, channels and members follow each other at every moment: what
\* the four theorems below are parts or consequences of.
THEOREM EntryInvHolds == Spec => []EntryInv
<1>1. IInv => EntryInv BY EntryInvIs DEF IInv
<1> QED BY <1>1, EntryHolds, PTL

\* No entry that was refused, cancelled, lost with its worker or displaced leaves its
\* place in the match registry taken, and nobody is in a dungeon without one.
THEOREM PlacesAreAlwaysHeld == Spec => []PlacesAreHeld
<1>1. IInv => PlacesAreHeld BY DEF IInv, RegistryInv
<1> QED BY <1>1, EntryHolds, PTL

\* The registry's three indices agree whatever is removed from them and in which order:
\* an account is in one match at most, once, and the index by account leads to it.
THEOREM RegistryAlwaysAgrees == Spec => []RegistryAgrees
<1>1. IInv => RegistryAgrees BY DEF IInv, RegistryInv
<1> QED BY <1>1, EntryHolds, PTL

\* A match never runs on two workers, and nobody is routed to one that has died.
THEOREM MatchesHaveOneWorker == Spec => []OneWorkerPerMatch
<1>1. IInv => OneWorkerPerMatch BY DEF IInv, RegistryInv
<1> QED BY <1>1, EntryHolds, PTL

\* A worker keeps nobody whose connection the main thread has sent elsewhere, whichever
\* messages of entries, exits and deaths cross on the way.
THEOREM NobodyStaysAsAGhost == Spec => []NoGhosts
<1>1. IInv => NoGhosts
  <2> SUFFICES ASSUME IInv, NEW w \in Workers, NEW c \in Conns, member[w][c] # NoMember
               PROVE  /\ route[c].at = w /\ route[c].to = member[w][c].to /\ gen[c] = member[w][c].gen
                      /\ member[w][c].leaving # "no" => route[c].state = "leaving"
    BY DEF NoGhosts
  <2>1. NothingIsStray(c) BY DEF IInv, Good
  <2> QED BY <2>1 DEF NothingIsStray, Current
<1> QED BY <1>1, EntryHolds, PTL

-----------------------------------------------------------------------------
(* Phases: what SessionPhases promises, as a table of what one step may    *)
(* change.                                                                 *)

\* The phase of a connection whose socket is o, with a transition in phase p, exit e, and a run if r.
PhaseOf(o, p, e, r) ==
  IF o \in {"closing", "gone"} THEN "gone"
  ELSE IF o = "on" /\ e # "none" THEN "exiting"
  ELSE IF o = "on" /\ p \in {"unwinding", "failing"} THEN "loading"
  ELSE IF o = "on" /\ p # "none" THEN p
  ELSE IF r THEN "active" ELSE "town"

\* From phase a to b, the client's dungeon from s to t, and ExitComplete from h to k.
Moved(a, b, s, t, h, k) ==
  \/ a = b /\ (s <=> t) /\ (h <=> k)
  \/ a = "town" /\ b = "admitting" /\ (s <=> t) /\ ~k
  \/ a = "admitting" /\ b = "loading" /\ (s <=> t) /\ (h <=> k)
  \/ a = b /\ b \in {"loading", "exiting"} /\ ~h /\ t /\ ~k
  \/ a = "loading" /\ b = "active" /\ (s <=> t) /\ (h <=> k)
  \/ a \in {"admitting", "loading"} /\ b = "town" /\ ~t /\ (h <=> k)
  \/ a = "active" /\ b = "checking" /\ (s <=> t) /\ (h <=> k)
  \/ a = "checking" /\ b \in {"active", "leaving"} /\ (s <=> t) /\ (h <=> k)
  \/ a \in {"checking", "leaving"} /\ b = "admitting" /\ ~t /\ (h <=> k)
  \/ a \notin {"exiting", "gone"} /\ b = "exiting" /\ (s <=> t) /\ (h <=> k)
  \/ b = "town" /\ ~t /\ k
  \/ a \in {"exiting", "admitting"} /\ b = "exiting" /\ ~t /\ k
  \/ a = "exiting" /\ b = "town" /\ (s <=> t) /\ (h <=> k)
  \/ a # "gone" /\ b = "gone" /\ (s <=> t) /\ (h <=> k)

LEMMA MovedIs ==
  ASSUME NEW c \in Conns, Moved(Phase(c), Phase(c)', c \in shown, c \in shown', c \in home, c \in home')
  PROVE  [Conn(c)!Next]_(Conn(c)!vars)
<1>1. PICK a : a = Phase(c) OBVIOUS
<1>2. PICK b : b = Phase(c)' OBVIOUS
<1>3. Moved(a, b, c \in shown, c \in shown', c \in home, c \in home') BY <1>1, <1>2
<1> QED
  BY <1>1, <1>2, <1>3
  DEF Moved, Conn!Next, Conn!vars, Conn!Moves, Conn!RequestEntry, Conn!Admitted, Conn!Shown, Conn!Started, Conn!GivenUp,
      Conn!DoorTried, Conn!DoorRefused, Conn!DoorTaken, Conn!DoorPassed, Conn!Exit, Conn!ExitComplete, Conn!Exited, Conn!Closed

LEMMA PhaseIs ==
  ASSUME IInv, IInv', NEW c \in Conns
  PROVE  /\ Phase(c) = PhaseOf(online[c], job[c].phase, exit[c], route[c] # NoRoute)
         /\ Phase(c)' = PhaseOf(online'[c], job'[c].phase, exit'[c], route'[c] # NoRoute)
<1>1. InDungeon(c) <=> route[c] # NoRoute
  BY RouteFields DEF IInv, TypeOK, RegistryInv, PlacesAreHeld, InDungeon, Routed
<1>2. InDungeon(c)' <=> route'[c] # NoRoute
  BY RouteFields DEF IInv, TypeOK, RegistryInv, PlacesAreHeld, InDungeon, Routed
<1>3. Phase(c) = PhaseOf(online[c], job[c].phase, exit[c], route[c] # NoRoute)
  BY <1>1 DEF Phase, PhaseOf, Open
<1>4. Phase(c)' = PhaseOf(online'[c], job'[c].phase, exit'[c], route'[c] # NoRoute)
  BY <1>2 DEF Phase, PhaseOf, Open
<1> QED BY <1>3, <1>4

\* A step of c is a step of its phases: its variables say so.
FollowsPhases(c) ==
  Moved(PhaseOf(online[c], job[c].phase, exit[c], route[c] # NoRoute),
        PhaseOf(online'[c], job'[c].phase, exit'[c], route'[c] # NoRoute),
        c \in shown, c \in shown', c \in home, c \in home')

LEMMA PhasesFollowed ==
  ASSUME IInv, IInv', NEW c \in Conns, FollowsPhases(c) PROVE [Conn(c)!Next]_(Conn(c)!vars)
<1>1. Moved(Phase(c), Phase(c)', c \in shown, c \in shown', c \in home, c \in home')
  BY PhaseIs DEF FollowsPhases
<1> QED BY <1>1, MovedIs

-----------------------------------------------------------------------------
(* What the channels say of what a client is shown.                        *)

\* r keeps what q says of c, but for what is about other things than "ready".
Passes(q, r, c) ==
  /\ \A g : Says(r, "ready", c, g) => Says(q, "ready", c, g)
  /\ \A g : ReadyFirst(q, c, g) => ReadyFirst(r, c, g)

LEMMA PassesItself == ASSUME NEW q, NEW c PROVE Passes(q, q, c)
BY DEF Passes

LEMMA PassesNothing == ASSUME NEW c PROVE Passes(<<>>, <<>>, c) /\ \A q : Passes(q, <<>>, c)
BY DEF Passes, Says, ReadyFirst

\* One more message at the end.
LEMMA ReadyOnce ==
  ASSUME NEW X, NEW q \in Seq(X), NEW x \in X
  PROVE  LET r == Append(q, x)
         IN  /\ \A c, g : ReadyFirst(q, c, g) /\ (About(x, "ready", c, g) => ~Says(q, "answer", c, g) /\ ~Says(q, "left", c, g))
                            => ReadyFirst(r, c, g)
             /\ \A c, g : TakenDown(q, c, g) => TakenDown(r, c, g)
             /\ \A c, g : x = Left(c, g, "disables") => TakenDown(r, c, g)
             /\ \A c : (\A g : ~About(x, "ready", c, g)) => Passes(q, r, c)
<1>0. PICK r : r = Append(q, x) OBVIOUS
<1>1. /\ r \in Seq(X) /\ Len(r) = Len(q) + 1 /\ r[Len(q) + 1] = x
      /\ \A i \in 1..Len(q) : r[i] = q[i]
  BY <1>0, AppendProperties
<1>2. DOMAIN q = 1..Len(q) /\ DOMAIN r = 1..(Len(q) + 1) /\ Len(q) \in Nat
  BY <1>1, LenProperties
<1>3. \A i \in DOMAIN r : (i \in DOMAIN q /\ r[i] = q[i]) \/ (i = Len(q) + 1 /\ r[i] = x)
  BY <1>1, <1>2
<1>4. Len(q) + 1 \in DOMAIN r /\ \A i \in DOMAIN q : i \in DOMAIN r /\ r[i] = q[i] /\ i < Len(q) + 1
  BY <1>1, <1>2
<1>5. ASSUME NEW c, NEW g, ReadyFirst(q, c, g),
             About(x, "ready", c, g) => ~Says(q, "answer", c, g) /\ ~Says(q, "left", c, g)
      PROVE  ReadyFirst(r, c, g)
  <2> SUFFICES ASSUME NEW i \in DOMAIN r, NEW j \in DOMAIN r, About(r[i], "ready", c, g),
                      About(r[j], "answer", c, g) \/ About(r[j], "left", c, g)
               PROVE  i < j
    BY DEF ReadyFirst
  <2>1. CASE i \in DOMAIN q /\ r[i] = q[i] /\ j \in DOMAIN q /\ r[j] = q[j]
    BY <1>5, <2>1 DEF ReadyFirst
  <2>2. CASE i \in DOMAIN q /\ j = Len(q) + 1 BY <1>4, <2>2
  <2>3. CASE i = Len(q) + 1 /\ r[i] = x /\ j \in DOMAIN q /\ r[j] = q[j] BY <1>5, <2>3 DEF Says
  <2>4. CASE i = Len(q) + 1 /\ r[i] = x /\ j = Len(q) + 1 /\ r[j] = x BY <2>4 DEF About
  <2> QED BY <1>3, <2>1, <2>2, <2>3, <2>4
<1>6. \A c, g : TakenDown(q, c, g) => TakenDown(r, c, g) BY <1>4 DEF TakenDown
<1>7. \A c, g : x = Left(c, g, "disables") => TakenDown(r, c, g) BY <1>1, <1>4 DEF TakenDown
<1>8. ASSUME NEW c, \A g : ~About(x, "ready", c, g) PROVE Passes(q, r, c)
  <2>1. \A g : Says(r, "ready", c, g) => Says(q, "ready", c, g) BY <1>3, <1>8 DEF Says
  <2>2. \A g : ReadyFirst(q, c, g) => ReadyFirst(r, c, g) BY <1>5, <1>8
  <2> QED BY <2>1, <2>2 DEF Passes
<1> QED BY <1>0, <1>5, <1>6, <1>7, <1>8

\* The first message taken.
LEMMA ReadyTaken ==
  ASSUME NEW X, NEW q \in Seq(X), q # <<>>
  PROVE  /\ \A c : Passes(q, Tail(q), c)
         /\ \A c, g : TakenDown(q, c, g) => TakenDown(Tail(q), c, g) \/ Head(q) = Left(c, g, "disables")
         /\ \A c, g : ReadyFirst(q, c, g) /\ (About(Head(q), "answer", c, g) \/ About(Head(q), "left", c, g))
                        => ~Says(q, "ready", c, g)
<1>0. PICK r : r = Tail(q) OBVIOUS
<1>1. /\ r \in Seq(X) /\ Len(r) = Len(q) - 1 /\ Len(q) \in Nat /\ Len(q) >= 1 /\ Head(q) = q[1]
      /\ \A i \in 1..Len(r) : r[i] = q[i + 1]
  BY <1>0, HeadTailProperties, LenProperties, EmptySeq
<1>2. DOMAIN q = 1..Len(q) /\ DOMAIN r = 1..(Len(q) - 1) BY <1>1, LenProperties
<1>3. \A i \in DOMAIN r : i + 1 \in DOMAIN q /\ r[i] = q[i + 1] /\ i \in Int BY <1>1, <1>2
<1>4. 1 \in DOMAIN q /\ \A i \in DOMAIN q : i \in Int /\ i >= 1 /\ (i = 1 \/ (i - 1 \in DOMAIN r /\ r[i - 1] = q[i]))
  BY <1>1, <1>2
<1>5. ASSUME NEW c PROVE Passes(q, r, c)
  <2>1. \A g : Says(r, "ready", c, g) => Says(q, "ready", c, g) BY <1>3 DEF Says
  <2>2. ASSUME NEW g, ReadyFirst(q, c, g), NEW i \in DOMAIN r, NEW j \in DOMAIN r, About(r[i], "ready", c, g),
               About(r[j], "answer", c, g) \/ About(r[j], "left", c, g)
        PROVE  i < j
    <3>1. i + 1 < j + 1 BY <1>3, <2>2 DEF ReadyFirst
    <3> QED BY <1>3, <3>1
  <2>3. \A g : ReadyFirst(q, c, g) => ReadyFirst(r, c, g) BY <2>2 DEF ReadyFirst
  <2> QED BY <2>1, <2>3 DEF Passes
<1>6. \A c, g : TakenDown(q, c, g) => TakenDown(r, c, g) \/ Head(q) = Left(c, g, "disables")
  BY <1>1, <1>4 DEF TakenDown
<1>7. ASSUME NEW c, NEW g, ReadyFirst(q, c, g), About(q[1], "answer", c, g) \/ About(q[1], "left", c, g),
             NEW i \in DOMAIN q, About(q[i], "ready", c, g)
      PROVE  FALSE
  <2>1. i < 1 BY <1>4, <1>7 DEF ReadyFirst
  <2> QED BY <1>4, <2>1
<1> QED BY <1>0, <1>1, <1>5, <1>6, <1>7 DEF Says

-----------------------------------------------------------------------------
(* One connection, and the others.                                         *)

Fits(c) == TransitionFits(c) /\ ShownFits(c) /\ NotesFit(c)
\* A step misleads nobody and is a step of c's phases, unless c is misled already.
StepFits(c) == (Misled(c) \/ [Conn(c)!Next]_(Conn(c)!vars)) /\ (Misled(c)' => Misled(c))

\* Worker w has what c is shown, or says that it is taken down.
Shows(w, c, g) == member[w][c].phase \in {"shown", "in", "failed"} \/ TakenDown(up[w], c, g)
\* What is said of c, and shown to it, is what was.
ShownOn(c) ==
  \A w \in Workers :
    /\ Passes(up[w], up'[w], c)
    /\ Open(c) /\ w = route[c].at /\ Shows(w, c, gen[c]) =>
         member'[w][c].phase \in {"shown", "in", "failed"} \/ TakenDown(up'[w], c, gen[c])
WrittenOn(c) ==
  \A w \in Workers : \A i \in DOMAIN down'[w] :
    down'[w][i].op = "leave" /\ down'[w][i].who = c /\ down'[w][i].note = "closed" =>
      ~Open(c)' \/ \E j \in DOMAIN down[w] : down[w][j] = down'[w][i]
SameConn(c) ==
  /\ online'[c] = online[c] /\ job'[c] = job[c] /\ exit'[c] = exit[c] /\ gen'[c] = gen[c] /\ route'[c] = route[c]
  /\ c \in cancelled' <=> c \in cancelled
  /\ c \in shown' <=> c \in shown
  /\ c \in home' <=> c \in home

LEMMA ShownPasses ==
  ASSUME TypeOK, TypeOK', NEW c \in Conns, ShownFits(c), Open(c)' => Open(c), gen'[c] = gen[c],
         route'[c].at = route[c].at, c \in shown' => c \in shown, ShownOn(c),
         Open(c) /\ job[c].phase = "loading" =>
           job'[c].phase = "loading" \/ \A w \in Workers : w = route[c].at => ~Says(up'[w], "ready", c, gen[c])
  PROVE  ShownFits(c)'
<1> SUFFICES ASSUME Open(c)'
             PROVE  IF Routed(c)' THEN ShownByRun(c, route[c].at, gen[c])' ELSE c \notin shown'
  BY DEF ShownFits
<1>1. Routed(c)' <=> Routed(c) BY RouteFields DEF TypeOK, Routed
<1>2. CASE ~Routed(c) BY <1>1, <1>2 DEF ShownFits
<1>3. CASE Routed(c)
  <2>1. PICK w \in Workers, g \in Nat : w = route[c].at /\ g = gen[c]
    BY <1>3, RouteFields DEF TypeOK, Routed
  <2>2. ShownByRun(c, w, g) BY <1>3, <2>1 DEF ShownFits
  <2>3. ReadyFirst(up'[w], c, g) /\ (Says(up'[w], "ready", c, g) => Says(up[w], "ready", c, g))
    BY <2>2 DEF ShownOn, Passes, ShownByRun
  <2>4. c \in shown' \/ Says(up'[w], "ready", c, g) =>
          member'[w][c].phase \in {"shown", "in", "failed"} \/ TakenDown(up'[w], c, g)
    BY <2>1, <2>2, <2>3 DEF ShownOn, ShownByRun, Shows
  <2>5. Says(up'[w], "ready", c, g) => job'[c].phase = "loading"
    BY <2>1, <2>2, <2>3 DEF ShownByRun
  <2>6. ShownByRun(c, w, g)' BY <2>3, <2>4, <2>5 DEF ShownByRun
  <2> QED BY <1>1, <1>3, <2>1, <2>6
<1> QED BY <1>2, <1>3

LEMMA NotesPass ==
  ASSUME NEW c \in Conns, NotesFit(c), Open(c)' => Open(c), gen'[c] = gen[c], WrittenOn(c),
         \A w \in Workers, g \in Nat : Says(up'[w], "ready", c, g) => Says(up[w], "ready", c, g), TypeOK'
  PROVE  NotesFit(c)'
<1>1. ASSUME NEW w \in Workers, NEW i \in DOMAIN up'[w], About(up'[w][i], "ready", c, up'[w][i].gen)
      PROVE  up'[w][i].gen <= gen'[c]
  <2>1. up'[w][i] \in UpMsg BY ElementOfSeq DEF TypeOK
  <2>2. PICK g \in Nat : g = up'[w][i].gen BY <1>1, <2>1, MessageFields DEF About, Kind
  <2>3. Says(up[w], "ready", c, g) BY <1>1, <2>2 DEF Says
  <2>4. PICK j \in DOMAIN up[w] : About(up[w][j], "ready", c, g) BY <2>3 DEF Says
  <2> QED BY <2>2, <2>4 DEF NotesFit, About
<1>2. ASSUME NEW w \in Workers, NEW i \in DOMAIN down'[w],
             down'[w][i].op = "leave", down'[w][i].who = c, down'[w][i].note = "closed"
      PROVE  ~Open(c)'
  BY <1>2 DEF WrittenOn, NotesFit
<1> QED BY <1>1, <1>2 DEF NotesFit

LEMMA OthersFit ==
  ASSUME IInv, IInv', NEW c \in Conns, Fits(c), SameConn(c), ShownOn(c), WrittenOn(c)
  PROVE  Fits(c)' /\ StepFits(c)
<1>1. TypeOK /\ TypeOK' /\ (Open(c)' <=> Open(c)) /\ (Routed(c)' <=> Routed(c))
  BY DEF IInv, Open, Routed, SameConn
<1>2. TransitionFits(c)' BY <1>1 DEF Fits, TransitionFits, SameConn
<1>3. ShownFits(c)' BY <1>1, ShownPasses DEF Fits, SameConn
<1>4. NotesFit(c)' BY <1>1, NotesPass DEF Fits, SameConn, ShownOn, Passes
<1>5. StepFits(c)
  <2>1. FollowsPhases(c) BY DEF SameConn, FollowsPhases, Moved
  <2>2. Misled(c)' => Misled(c) BY <1>1 DEF Misled, SameConn
  <2> QED BY <2>1, <2>2, PhasesFollowed DEF StepFits
<1> QED BY <1>2, <1>3, <1>4, <1>5 DEF Fits

-----------------------------------------------------------------------------
(* Connections that close.                                                 *)

LEMMA LeaveWrites ==
  ASSUME IInv, NEW c \in Conns, NEW note \in {"disables", "closed"}, Leave(c, note),
         note = "closed" \/ ~Open(c) => ~Open(c)', NEW d \in Conns
  PROVE  WrittenOn(d)
<1>1. CASE down' = down BY <1>1 DEF WrittenOn
<1>2. CASE down' # down
  <2>1. PICK x : x = [op |-> "leave", who |-> c, gen |-> gen[c], note |-> IF Open(c) THEN note ELSE "closed"]
    OBVIOUS
  <2>2. Routed(c) /\ down' = Post(down, route[c].at, x) BY <1>2, <2>1 DEF Leave
  <2>3. PICK w \in Workers : w = route[c].at BY <2>2, RouteFields DEF IInv, TypeOK, Routed
  <2>4. gen[c] \in Nat \ {0} BY <2>2 DEF IInv, TypeOK, Good
  <2>5. x \in DownMsg /\ x.op = "leave" /\ x.who = c /\ (x.note = "closed" => ~Open(c)')
    BY <2>1, <2>4 DEF DownMsg
  <2>6. down \in [Workers -> Seq(DownMsg)] /\ down[w] \in Seq(DownMsg) BY DEF IInv, TypeOK
  <2>7. down'[w] = Append(down[w], x) /\ \A v \in Workers : v # w => down'[v] = down[v]
    BY <2>2, <2>3, <2>6 DEF Post
  <2>8. \A i \in DOMAIN Append(down[w], x) : Append(down[w], x)[i] = x \/ \E j \in DOMAIN down[w] : down[w][j] = Append(down[w], x)[i]
    BY <2>5, <2>6, SaidMore
  <2>9. \A i \in DOMAIN down'[w] : down'[w][i] = x \/ \E j \in DOMAIN down[w] : down[w][j] = down'[w][i]
    BY <2>7, <2>8
  <2> QED BY <2>5, <2>7, <2>9 DEF WrittenOn
<1> QED BY <1>1, <1>2

LEMMA LeaveOf ==
  ASSUME IInv, NEW c \in Conns, NEW note \in {"disables", "closed"}, Leave(c, note)
  PROVE  /\ \A d \in Conns : d # c => route'[d] = route[d]
         /\ \A d \in Conns : route'[d].at = route[d].at
         /\ route'[c] # NoRoute <=> route[c] # NoRoute
         /\ Routed(c) => route'[c].state = "leaving"
         /\ ~Routed(c) => route'[c] = route[c]
<1>1. Routed(c) => gen[c] >= 1 BY DEF IInv, Good
<1>2. /\ \A d \in Conns : d # c => route'[d] = route[d]
      /\ \A d \in Conns : route'[d].at = route[d].at /\ (Routed(d)' <=> Routed(d))
      /\ Routed(c) => route'[c].state = "leaving"
  BY <1>1, LeaveDoes DEF IInv
<1> QED BY <1>2 DEF Routed

LEMMA ShownStays ==
  ASSUME up' = up, member' = member, NEW c \in Conns PROVE ShownOn(c)
BY PassesItself DEF ShownOn, Shows

\* Connections that close, or are displaced.
LEMMA ClosesOnceHeardFit ==
  ASSUME IInv, IInv', ClientInv, NEW c \in Conns, online[c] \in {"on", "closing"}, online'[c] \in {"closing", "gone"},
         Disconnect(c), UNCHANGED <<job, exit, gen, workerVars, clientVars>>, \A d \in Conns : ShownOn(d)
  PROVE  /\ Fits(c)' /\ StepFits(c)
         /\ \A d \in Conns : d # c /\ online'[d] = online[d] => Fits(d)' /\ StepFits(d)
<1>1. Leave(c, "closed") /\ \A d \in Conns : d # c => (d \in cancelled' <=> d \in cancelled)
  BY DEF Disconnect
<1>2. ~Open(c)' BY DEF Open
<1>3. /\ \A d \in Conns : d # c => route'[d] = route[d]
      /\ \A d \in Conns : route'[d].at = route[d].at
      /\ route'[c] # NoRoute <=> route[c] # NoRoute
  BY <1>1, LeaveOf
<1>4. \A d \in Conns : ShownOn(d) /\ WrittenOn(d) BY <1>1, <1>2, LeaveWrites
<1>5. ASSUME NEW d \in Conns, d # c, online'[d] = online[d] PROVE Fits(d)' /\ StepFits(d)
  <2>1. SameConn(d) BY <1>1, <1>3, <1>5 DEF SameConn, clientVars
  <2> QED BY <1>4, <1>5, <2>1, OthersFit DEF ClientInv, Fits
<1>6. Fits(c)'
  <2>1. TransitionFits(c)' /\ ShownFits(c)' BY <1>2 DEF TransitionFits, ShownFits
  <2>2. NotesFit(c)' BY <1>2, <1>4, NotesPass DEF IInv, ClientInv, ShownOn, Passes
  <2> QED BY <2>1, <2>2 DEF Fits
<1>7. StepFits(c)
  <2>1. FollowsPhases(c) BY <1>3 DEF FollowsPhases, Moved, PhaseOf, clientVars
  <2>2. ~Misled(c)' BY <1>2 DEF Misled
  <2> QED BY <2>1, <2>2, PhasesFollowed DEF StepFits
<1> QED BY <1>5, <1>6, <1>7

LEMMA ClosesFit ==
  ASSUME IInv, IInv', ClientInv, NEW c \in Conns, online[c] \in {"on", "closing"}, online'[c] \in {"closing", "gone"},
         Disconnect(c), UNCHANGED <<job, exit, gen, workerVars, up, clientVars>>
  PROVE  /\ Fits(c)' /\ StepFits(c)
         /\ \A d \in Conns : d # c /\ online'[d] = online[d] => Fits(d)' /\ StepFits(d)
<1>1. \A d \in Conns : ShownOn(d) BY ShownStays DEF workerVars
<1> QED BY <1>1, ClosesOnceHeardFit

LEMMA CloseFits ==
  ASSUME IInv, IInv', ClientInv, NEW c \in Conns, Closes(c) \/ SocketCloses(c), NEW d \in Conns
  PROVE  Fits(d)' /\ StepFits(d)
<1>1. /\ online[c] \in {"on", "closing"} /\ Disconnect(c)
      /\ UNCHANGED <<job, exit, gen, workerVars, up, clientVars>>
      /\ online' = [online EXCEPT ![c] = "closing"] \/ online' = [online EXCEPT ![c] = "gone"]
  BY DEF Closes, SocketCloses, Open
<1>2. online'[c] \in {"closing", "gone"} /\ (d # c => online'[d] = online[d])
  BY <1>1 DEF IInv, TypeOK
<1> QED BY <1>1, <1>2, ClosesFit

\* The newcomer: of it nothing has been said yet.
LEMMA NewcomerFits ==
  ASSUME IInv, IInv', ClientInv, NEW c \in Conns, online[c] = "off", online'[c] = "on", route'[c] = route[c],
         UNCHANGED <<job, exit, gen, workerVars, up, clientVars>>, c \in cancelled' <=> c \in cancelled, WrittenOn(c)
  PROVE  Fits(c)' /\ StepFits(c)
<1>1. /\ route[c] = NoRoute /\ job[c] = NoJob /\ exit[c] = "none"
      /\ c \notin cancelled /\ c \notin shown /\ c \notin home
  BY DEF ClientInv, TransitionFits
<1>2. NoJob.phase = "none" /\ NoRoute.state = "none" /\ NoRoute.at = NoWorker
  BY DEF NoJob, NoRoute
<1>3. Open(c)' /\ ~Routed(c)' BY <1>1 DEF Open, Routed
<1>4. TransitionFits(c)' BY <1>1, <1>2, <1>3 DEF TransitionFits
<1>5. ShownFits(c)' BY <1>1, <1>3 DEF ShownFits, clientVars
<1>6. NotesFit(c)'
  <2>1. ASSUME NEW w \in Workers, NEW i \in DOMAIN down'[w], down'[w][i].op = "leave", down'[w][i].who = c
        PROVE  FALSE
    <3>1. NothingIsStray(c)' BY DEF IInv, Good
    <3>2. route'[c].at = w BY <2>1, <3>1 DEF NothingIsStray, Current
    <3> QED BY <1>1, <1>2, <3>2
  <2>2. up' = up /\ gen' = gen /\ NotesFit(c) BY DEF ClientInv
  <2> QED BY <2>1, <2>2 DEF NotesFit
<1>7. StepFits(c)
  <2>1. FollowsPhases(c) BY <1>1, <1>2 DEF FollowsPhases, Moved, PhaseOf, clientVars
  <2>2. ~Misled(c)' BY <1>1 DEF Misled, clientVars
  <2> QED BY <2>1, <2>2, PhasesFollowed DEF StepFits
<1> QED BY <1>4, <1>5, <1>6, <1>7 DEF Fits

LEMMA LoginFits ==
  ASSUME IInv, IInv', ClientInv, NEW c \in Conns, Login(c), NEW d \in Conns
  PROVE  Fits(d)' /\ StepFits(d)
<1>1. online[c] = "off" /\ UNCHANGED <<job, exit, gen, workerVars, up, clientVars>> BY DEF Login
<1>2. CASE Displaced(c) = {}
  <2>1. online' = [online EXCEPT ![c] = "on"] /\ UNCHANGED <<cancelled, route, down>>
    BY <1>2 DEF Login
  <2>2. online'[c] = "on" /\ (d # c => online'[d] = online[d]) BY <2>1 DEF IInv, TypeOK
  <2>3. \A e \in Conns : ShownOn(e) /\ WrittenOn(e)
    BY <1>1, <2>1, ShownStays DEF WrittenOn, workerVars
  <2>4. CASE d = c BY <1>1, <2>1, <2>2, <2>3, <2>4, NewcomerFits
  <2>5. CASE d # c
    <3>1. SameConn(d) BY <1>1, <2>1, <2>2, <2>5 DEF SameConn, clientVars
    <3> QED BY <2>3, <3>1, OthersFit DEF ClientInv, Fits
  <2> QED BY <2>4, <2>5
<1>3. CASE Displaced(c) # {}
  <2>1. PICK e \in Displaced(c) : online' = [online EXCEPT ![c] = "on", ![e] = "closing"] /\ Disconnect(e)
    BY <1>3 DEF Login
  <2>2. e \in Conns /\ e # c /\ online[e] = "on" BY <2>1 DEF Displaced, Open
  <2>3. /\ online'[c] = "on" /\ online'[e] = "closing"
        /\ d # c /\ d # e => online'[d] = online[d]
    BY <2>1, <2>2 DEF IInv, TypeOK
  <2>4. /\ Fits(e)' /\ StepFits(e)
        /\ \A f \in Conns : f # e /\ online'[f] = online[f] => Fits(f)' /\ StepFits(f)
    BY <1>1, <2>1, <2>2, <2>3, ClosesFit
  <2>5. CASE d = c
    <3>1. Leave(e, "closed") /\ (c \in cancelled' <=> c \in cancelled) /\ ~Open(e)'
      BY <2>1, <2>2, <2>3 DEF Disconnect, Open
    <3>2. route'[c] = route[c] BY <2>2, <3>1, LeaveOf
    <3>3. WrittenOn(c) BY <2>2, <3>1, LeaveWrites
    <3> QED BY <1>1, <2>3, <2>5, <3>1, <3>2, <3>3, NewcomerFits
  <2> QED BY <2>2, <2>3, <2>4, <2>5
<1> QED BY <1>2, <1>3

-----------------------------------------------------------------------------
(* What connections ask for.                                               *)

\* A step of the main thread about c alone.
OnlyOf(c) ==
  /\ \A d \in Conns : d # c => SameConn(d)
  /\ \A d \in Conns : ShownOn(d) /\ WrittenOn(d)
  /\ online' = online /\ gen' = gen /\ route'[c].at = route[c].at

LEMMA OneFits ==
  ASSUME IInv, IInv', ClientInv, NEW c \in Conns, OnlyOf(c), TransitionFits(c)', c \in shown' => c \in shown,
         Open(c) /\ job[c].phase = "loading" =>
           job'[c].phase = "loading" \/ \A w \in Workers : w = route[c].at => ~Says(up'[w], "ready", c, gen[c]),
         Misled(c) \/ FollowsPhases(c), Misled(c)' => Misled(c)
  PROVE  \A d \in Conns : Fits(d)' /\ StepFits(d)
<1>1. ASSUME NEW d \in Conns, d # c PROVE Fits(d)' /\ StepFits(d)
  BY <1>1, OthersFit DEF OnlyOf, ClientInv, Fits
<1>2. Open(c)' => Open(c) BY DEF OnlyOf, Open
<1>3. ShownFits(c)' BY <1>2, ShownPasses DEF IInv, ClientInv, OnlyOf
<1>4. NotesFit(c)' BY <1>2, NotesPass DEF IInv, ClientInv, OnlyOf, ShownOn, Passes
<1>5. StepFits(c) BY PhasesFollowed DEF StepFits
<1> QED BY <1>1, <1>3, <1>4, <1>5 DEF Fits

LEMMA JobPhases ==
  ASSUME IInv, NEW c \in Conns
  PROVE  /\ job[c] # NoJob <=> job[c].phase # "none"
         /\ job[c].phase \in {"none", "admitting", "loading", "unwinding", "failing", "checking", "leaving"}
<1>1. job[c] \in Jobs BY DEF IInv, TypeOK
<1> QED BY <1>1, JobFields

LEMMA RequestEntryFits ==
  ASSUME IInv, IInv', ClientInv, NEW c \in Conns, RequestEntry(c)
  PROVE  \A d \in Conns : Fits(d)' /\ StepFits(d)
<1>1. /\ Open(c) /\ job[c] = NoJob /\ exit[c] = "none" /\ ~Routed(c)
      /\ job' = [job EXCEPT ![c] = [kind |-> "entry", phase |-> "admitting"]]
      /\ home' = home \ {c}
      /\ UNCHANGED <<online, cancelled, exit, gen, route, workerVars, up, down, shown>>
  BY DEF RequestEntry, Busy, InDungeon
<1>2. /\ job'[c].phase = "admitting" /\ NoJob.phase = "none" /\ job'[c] # NoJob
      /\ \A d \in Conns : d # c => job'[d] = job[d]
  BY <1>1 DEF IInv, TypeOK, NoJob
<1>3. OnlyOf(c) BY <1>1, <1>2, ShownStays DEF OnlyOf, SameConn, WrittenOn, workerVars
<1>4. TransitionFits(c) /\ (Open(c)' <=> Open(c)) /\ (Routed(c)' <=> Routed(c))
  BY <1>1 DEF ClientInv, Open, Routed
<1>5. TransitionFits(c)' BY <1>1, <1>2, <1>4 DEF TransitionFits, Open, Routed, NoRoute
<1>6. FollowsPhases(c) BY <1>1, <1>2 DEF FollowsPhases, Moved, PhaseOf, Open, Routed
<1>7. ~Misled(c)' BY <1>1 DEF Misled
<1> QED BY <1>1, <1>2, <1>3, <1>5, <1>6, <1>7, OneFits

\* A connection that is to be sent home, by itself or by its dungeon.
LEMMA ExitsFit ==
  ASSUME IInv, IInv', ClientInv, NEW c \in Conns, Exits(c), UNCHANGED <<online, job, gen, workerVars, shown>>,
         Open(c) \/ Routed(c), \A d \in Conns : ShownOn(d)
  PROVE  \A d \in Conns : Fits(d)' /\ StepFits(d)
<1>1. /\ exit[c] = "none" /\ Leave(c, "disables")
      /\ cancelled' = IF job[c] # NoJob THEN cancelled \cup {c} ELSE cancelled
      /\ exit' = [exit EXCEPT ![c] = IF Routed(c) THEN "leaving" ELSE IF job[c] # NoJob THEN "waiting" ELSE "none"]
      /\ home' = IF Routed(c) \/ ~Open(c) THEN home ELSE home \cup {c}
  BY DEF Exits
<1>2. /\ \A d \in Conns : d # c => route'[d] = route[d] /\ exit'[d] = exit[d]
      /\ route'[c].at = route[c].at /\ (route'[c] # NoRoute <=> route[c] # NoRoute)
      /\ Routed(c) => route'[c].state = "leaving"
      /\ ~Routed(c) => route'[c] = route[c]
      /\ exit'[c] = IF Routed(c) THEN "leaving" ELSE IF job[c] # NoJob THEN "waiting" ELSE "none"
  BY <1>1, LeaveOf DEF IInv, TypeOK
<1>3. OnlyOf(c)
  <2>1. \A d \in Conns : d # c => SameConn(d) BY <1>1, <1>2 DEF SameConn
  <2>2. \A d \in Conns : WrittenOn(d) BY <1>1, LeaveWrites DEF Open
  <2> QED BY <1>2, <2>1, <2>2 DEF OnlyOf
<1>4. /\ TransitionFits(c) /\ ShownFits(c) /\ (Open(c)' <=> Open(c)) /\ (Routed(c)' <=> Routed(c))
      /\ job[c] # NoJob <=> job[c].phase # "none"
      /\ job[c].phase \in {"none", "admitting", "loading", "unwinding", "failing", "checking", "leaving"}
  <2>1. TransitionFits(c) /\ ShownFits(c) BY DEF ClientInv
  <2>2. (Open(c)' <=> Open(c)) /\ (Routed(c)' <=> Routed(c)) BY <1>2 DEF Open, Routed
  <2> QED BY <2>1, <2>2, JobPhases
<1>5. TransitionFits(c)' BY <1>1, <1>2, <1>4 DEF TransitionFits, Open, Routed, NoRoute
<1>6. Misled(c) \/ FollowsPhases(c)
  <2>1. CASE Open(c) /\ Routed(c)
    BY <1>1, <1>2, <1>4, <2>1 DEF FollowsPhases, Moved, PhaseOf, Open, Routed
  <2>2. CASE Open(c) /\ ~Routed(c)
    <3>1. c \notin shown /\ c \in home' BY <1>1, <1>4, <2>2 DEF ShownFits
    <3>2. job[c].phase \in {"none", "admitting", "checking"} /\ (job[c] # NoJob => c \notin cancelled)
      BY <1>1, <1>4, <2>2 DEF TransitionFits
    <3>3. CASE job[c].phase = "checking"
      BY <1>1, <1>4, <2>2, <3>2, <3>3 DEF TransitionFits, Misled
    <3>4. CASE job[c].phase # "checking"
      BY <1>1, <1>2, <1>4, <2>2, <3>1, <3>2, <3>4 DEF FollowsPhases, Moved, PhaseOf, Open, Routed
    <3> QED BY <3>3, <3>4
  <2>3. CASE ~Open(c)
    <3>1. online[c] # "off" BY <2>3, <1>4 DEF TransitionFits, Routed
    <3>2. online[c] \in {"closing", "gone"} BY <2>3, <3>1 DEF IInv, TypeOK, Open
    <3> QED BY <1>1, <2>3, <3>2 DEF FollowsPhases, Moved, PhaseOf
  <2> QED BY <2>1, <2>2, <2>3
<1>7. Misled(c)' => Misled(c) BY <1>1, <1>4 DEF Misled
<1> QED BY <1>3, <1>5, <1>6, <1>7, OneFits

LEMMA RequestExitFits ==
  ASSUME IInv, IInv', ClientInv, NEW c \in Conns, RequestExit(c)
  PROVE  \A d \in Conns : Fits(d)' /\ StepFits(d)
<1>1. Exits(c) /\ Open(c) /\ UNCHANGED <<online, job, gen, workerVars, up, shown>>
  BY DEF RequestExit
<1>2. \A d \in Conns : ShownOn(d) BY <1>1, ShownStays DEF workerVars
<1> QED BY <1>1, <1>2, ExitsFit

-----------------------------------------------------------------------------
(* Entries and doors.                                                      *)

LEMMA JobEndsOf ==
  ASSUME IInv, NEW c \in Conns, JobEnds(c)
  PROVE  /\ job'[c] = NoJob /\ job'[c].phase = "none" /\ c \notin cancelled'
         /\ exit'[c] = IF exit[c] = "waiting" THEN "none" ELSE exit[c]
         /\ \A d \in Conns : d # c =>
              job'[d] = job[d] /\ exit'[d] = exit[d] /\ (d \in cancelled' <=> d \in cancelled)
BY DEF JobEnds, IInv, TypeOK, NoJob

\* An admission or a door check that ends without a run to leave.
LEMMA EndsFit ==
  ASSUME IInv, IInv', ClientInv, NEW c \in Conns, job[c].phase \in {"admitting", "checking"}, JobEnds(c),
         route' = route, UNCHANGED <<online, gen, workerVars, up, down, clientVars>>
  PROVE  \A d \in Conns : Fits(d)' /\ StepFits(d)
<1>1. /\ job'[c] = NoJob /\ job'[c].phase = "none" /\ c \notin cancelled'
      /\ exit'[c] = IF exit[c] = "waiting" THEN "none" ELSE exit[c]
      /\ \A d \in Conns : d # c => job'[d] = job[d] /\ exit'[d] = exit[d] /\ (d \in cancelled' <=> d \in cancelled)
  BY JobEndsOf
<1>2. OnlyOf(c) BY <1>1, ShownStays DEF OnlyOf, SameConn, WrittenOn, workerVars, clientVars
<1>3. /\ TransitionFits(c) /\ ShownFits(c) /\ (Open(c)' <=> Open(c)) /\ (Routed(c)' <=> Routed(c))
      /\ job[c].phase = "admitting" => ~Routed(c)
      /\ exit[c] \in {"none", "leaving", "waiting"} /\ shown' = shown /\ home' = home /\ job[c] # NoJob
  BY DEF ClientInv, Open, Routed, IInv, TypeOK, Good, JobFitsRoute, clientVars, NoJob
<1>4. TransitionFits(c)' BY <1>1, <1>3 DEF TransitionFits, Open, Routed, NoRoute
<1>5. Misled(c) \/ FollowsPhases(c)
  <2>1. CASE Open(c) /\ exit[c] = "none" /\ ~Routed(c)
    <3>1. c \notin shown BY <1>3, <2>1 DEF ShownFits
    <3>2. CASE job[c].phase = "admitting"
      BY <1>1, <1>3, <2>1, <3>1, <3>2 DEF FollowsPhases, Moved, PhaseOf, Open, Routed
    <3>3. CASE job[c].phase = "checking" BY <1>3, <2>1, <3>3 DEF TransitionFits, Misled
    <3> QED BY <3>2, <3>3
  <2>2. CASE Open(c) /\ exit[c] = "none" /\ Routed(c)
    BY <1>1, <1>3, <2>2 DEF FollowsPhases, Moved, PhaseOf, Open, Routed
  <2>3. CASE Open(c) /\ exit[c] # "none"
    BY <1>1, <1>3, <2>3 DEF FollowsPhases, Moved, PhaseOf, Open, Routed, TransitionFits, NoRoute
  <2>4. CASE ~Open(c)
    <3>1. online[c] \in {"closing", "gone"} BY <1>3, <2>4 DEF IInv, TypeOK, Open, TransitionFits
    <3> QED BY <1>3, <3>1 DEF FollowsPhases, Moved, PhaseOf
  <2> QED BY <1>3, <2>1, <2>2, <2>3, <2>4
<1>6. Misled(c)' => Misled(c) BY <1>1, <1>3 DEF Misled
<1> QED BY <1>2, <1>3, <1>4, <1>5, <1>6, OneFits

LEMMA AdmissionEndsFit ==
  ASSUME IInv, IInv', ClientInv, NEW c \in Conns, AdmissionEnds(c) \/ DoorStays(c)
  PROVE  \A d \in Conns : Fits(d)' /\ StepFits(d)
BY EndsFit DEF AdmissionEnds, DoorStays

LEMMA DoorAdmissionThrowsFit ==
  ASSUME IInv, IInv', ClientInv, NEW c \in Conns, DoorAdmissionThrows(c)
  PROVE  \A d \in Conns : Fits(d)' /\ StepFits(d)
<1>1. /\ job[c].phase = "admitting" /\ JobEnds(c) /\ Leave(c, "disables")
      /\ UNCHANGED <<online, gen, workerVars, up, clientVars>>
  BY DEF DoorAdmissionThrows
<1>2. ~Routed(c) BY <1>1 DEF IInv, Good, JobFitsRoute
<1>3. UNCHANGED <<route, down>> BY <1>1, <1>2 DEF Leave
<1> QED BY <1>1, <1>3, EndsFit

LEMMA DoorLeavesFit ==
  ASSUME IInv, IInv', ClientInv, NEW c \in Conns, DoorLeaves(c)
  PROVE  \A d \in Conns : Fits(d)' /\ StepFits(d)
<1>1. /\ job[c].phase = "checking" /\ c \notin cancelled /\ Leave(c, "disables")
      /\ job' = [job EXCEPT ![c].phase = IF Routed(c) THEN "leaving" ELSE "admitting"]
      /\ UNCHANGED <<online, cancelled, exit, gen, workerVars, up, clientVars>>
  BY DEF DoorLeaves
<1>2. /\ \A d \in Conns : d # c => route'[d] = route[d] /\ job'[d] = job[d]
      /\ route'[c].at = route[c].at /\ (route'[c] # NoRoute <=> route[c] # NoRoute)
      /\ Routed(c) => route'[c].state = "leaving"
      /\ ~Routed(c) => route'[c] = route[c]
  BY <1>1, LeaveOf DEF IInv, TypeOK
<1>3. /\ job[c] # NoJob /\ job'[c] # NoJob
      /\ job'[c].phase = IF Routed(c) THEN "leaving" ELSE "admitting"
  <2>1. PICK j \in Jobs : j = job[c] BY DEF IInv, TypeOK
  <2>2. j = NoJob \/ j \in [kind : {"entry"}, phase : {"admitting", "loading", "unwinding", "failing"}]
        \/ j \in [kind : {"door"}, phase : {"checking", "leaving", "admitting", "loading", "unwinding", "failing"}]
    BY DEF Jobs
  <2>3. PICK k : k = [j EXCEPT !.phase = IF Routed(c) THEN "leaving" ELSE "admitting"] OBVIOUS
  <2>4. k.phase = IF Routed(c) THEN "leaving" ELSE "admitting"
    BY <1>1, <2>1, <2>2, <2>3 DEF NoJob
  <2>5. job'[c] = k BY <1>1, <2>1, <2>3 DEF IInv, TypeOK
  <2> QED BY <1>1, <2>4, <2>5 DEF NoJob
<1>4. OnlyOf(c)
  <2>1. \A d \in Conns : d # c => SameConn(d) BY <1>1, <1>2 DEF SameConn, clientVars
  <2>2. \A d \in Conns : ShownOn(d) /\ WrittenOn(d)
    BY <1>1, ShownStays, LeaveWrites DEF Open, workerVars
  <2> QED BY <1>1, <1>2, <2>1, <2>2 DEF OnlyOf
<1>5. /\ TransitionFits(c) /\ (Open(c)' <=> Open(c)) /\ (Routed(c)' <=> Routed(c))
      /\ shown' = shown /\ home' = home
      /\ Open(c) => exit[c] = "none" /\ exit'[c] = "none"
  BY <1>1, <1>2, <1>3 DEF ClientInv, Open, Routed, TransitionFits, clientVars
<1>6. TransitionFits(c)' BY <1>1, <1>2, <1>3, <1>5 DEF TransitionFits, Open, Routed, NoRoute
<1>7. Misled(c) \/ FollowsPhases(c)
  <2>1. CASE Open(c) /\ Routed(c)
    BY <1>1, <1>2, <1>3, <1>5, <2>1 DEF FollowsPhases, Moved, PhaseOf, Open, Routed
  <2>2. CASE Open(c) /\ ~Routed(c) BY <1>1, <1>3, <1>5, <2>2 DEF TransitionFits, Misled
  <2>3. CASE ~Open(c)
    <3>1. online[c] \in {"closing", "gone"}
      BY <1>3, <1>5, <2>3 DEF IInv, TypeOK, Open, TransitionFits
    <3> QED BY <1>1, <1>5, <3>1 DEF FollowsPhases, Moved, PhaseOf
  <2> QED BY <2>1, <2>2, <2>3
<1>8. Misled(c)' => Misled(c) BY <1>1, <1>3, <1>5 DEF Misled
<1> QED BY <1>1, <1>4, <1>5, <1>6, <1>7, <1>8, OneFits

LEMMA AdmittedFits ==
  ASSUME IInv, IInv', ClientInv, NEW c \in Conns, NEW m \in MatchIds, NEW w \in Workers, Admitted(c, m, w)
  PROVE  \A d \in Conns : Fits(d)' /\ StepFits(d)
<1>0. PICK g \in Nat : g = gen[c] + 1 BY DEF IInv, TypeOK
<1>1. /\ job[c].phase = "admitting" /\ c \notin cancelled /\ Open(c)
      /\ gen' = [gen EXCEPT ![c] = @ + 1]
      /\ route' = [route EXCEPT ![c] = [at |-> w, to |-> m, state |-> "joining"]]
      /\ down' = Post(down, w, [op |-> "join", who |-> c, gen |-> gen'[c], to |-> m])
      /\ job' = [job EXCEPT ![c].phase = "loading"]
      /\ UNCHANGED <<online, cancelled, exit, workerVars, up, clientVars>>
  BY DEF Admitted
<1>2. /\ gen'[c] = g /\ gen[c] \in Nat /\ route'[c] = [at |-> w, to |-> m, state |-> "joining"]
      /\ \A d \in Conns : d # c => gen'[d] = gen[d] /\ route'[d] = route[d]
  BY <1>0, <1>1 DEF IInv, TypeOK
<1>3. job'[c].phase = "loading" /\ \A d \in Conns : d # c => job'[d] = job[d]
  <2>1. job[c] # NoJob BY <1>1 DEF NoJob
  <2> QED BY <1>1, <2>1, JobMoves DEF IInv
<1>4. \A d \in Conns : ShownOn(d) /\ WrittenOn(d)
  <2>1. PICK x : x = [op |-> "join", who |-> c, gen |-> g, to |-> m] OBVIOUS
  <2>2. x \in DownMsg /\ x.op = "join" BY <1>0, <2>1 DEF DownMsg, IInv, TypeOK
  <2>3. down \in [Workers -> Seq(DownMsg)] /\ down[w] \in Seq(DownMsg) /\ down' = Post(down, w, x)
    BY <1>1, <1>2, <2>1 DEF IInv, TypeOK
  <2>4. down'[w] = Append(down[w], x) /\ \A v \in Workers : v # w => down'[v] = down[v]
    BY <2>3 DEF Post
  <2>5. \A i \in DOMAIN Append(down[w], x) :
          Append(down[w], x)[i] = x \/ \E j \in DOMAIN down[w] : down[w][j] = Append(down[w], x)[i]
    BY <2>2, <2>3, SaidMore
  <2>6. \A i \in DOMAIN down'[w] : down'[w][i] = x \/ \E j \in DOMAIN down[w] : down[w][j] = down'[w][i]
    BY <2>4, <2>5
  <2>7. \A d \in Conns : WrittenOn(d)
    <3> SUFFICES ASSUME NEW d \in Conns, NEW v \in Workers, NEW i \in DOMAIN down'[v], down'[v][i].op = "leave"
                 PROVE  \E j \in DOMAIN down[v] : down[v][j] = down'[v][i]
      BY DEF WrittenOn
    <3>1. CASE v = w BY <2>2, <2>6, <3>1
    <3>2. CASE v # w BY <2>4, <3>2
    <3> QED BY <3>1, <3>2
  <2>8. \A d \in Conns : ShownOn(d) BY <1>1, ShownStays DEF workerVars
  <2> QED BY <2>7, <2>8
<1>5. ASSUME NEW d \in Conns, d # c PROVE Fits(d)' /\ StepFits(d)
  <2>1. SameConn(d) BY <1>1, <1>2, <1>3, <1>5 DEF SameConn, clientVars
  <2> QED BY <1>4, <2>1, OthersFit DEF ClientInv, Fits
<1>6. /\ TransitionFits(c) /\ ShownFits(c) /\ NotesFit(c) /\ Open(c)' /\ ~Routed(c)
      /\ shown' = shown /\ home' = home /\ exit' = exit /\ cancelled' = cancelled
      /\ job[c] # NoJob
  BY <1>1 DEF ClientInv, Open, clientVars, IInv, Good, JobFitsRoute, NoJob
<1>7. exit[c] = "none" /\ c \notin shown /\ Routed(c)' /\ route'[c].state = "joining" /\ route'[c].at = w
  <2>1. exit[c] = "none" /\ c \notin shown BY <1>1, <1>6 DEF TransitionFits, ShownFits
  <2>2. Routed(c)' BY <1>2 DEF Routed, NoRoute
  <2> QED BY <1>2, <2>1, <2>2
<1>8. TransitionFits(c)' BY <1>1, <1>3, <1>6, <1>7 DEF TransitionFits, Open
<1>9. ASSUME NEW v \in Workers, NEW h \in Nat, Says(up'[v], "ready", c, h) PROVE h <= gen[c]
  BY <1>1, <1>6, <1>9 DEF Says, NotesFit, About
<1>10. ShownFits(c)'
  <2>1. ~Says(up'[w], "ready", c, g) BY <1>0, <1>2, <1>9
  <2>2. ReadyFirst(up'[w], c, g) BY <2>1 DEF ReadyFirst, Says
  <2>3. ShownByRun(c, w, g)' BY <1>6, <1>7, <2>1, <2>2 DEF ShownByRun
  <2> QED BY <1>2, <1>7, <2>3 DEF ShownFits
<1>11. NotesFit(c)'
  <2>1. ASSUME NEW v \in Workers, NEW i \in DOMAIN up'[v], About(up'[v][i], "ready", c, up'[v][i].gen)
        PROVE  up'[v][i].gen <= gen'[c]
    <3>1. up'[v][i] \in UpMsg BY ElementOfSeq DEF IInv, TypeOK
    <3>2. PICK h \in Nat : h = up'[v][i].gen BY <2>1, <3>1, MessageFields DEF About, Kind
    <3>3. h <= gen[c] BY <1>9, <2>1, <3>2 DEF Says
    <3> QED BY <1>0, <1>2, <3>2, <3>3
  <2>2. ASSUME NEW v \in Workers, NEW i \in DOMAIN down'[v],
               down'[v][i].op = "leave", down'[v][i].who = c, down'[v][i].note = "closed"
        PROVE  ~Open(c)'
    BY <1>1, <1>4, <1>6, <2>2 DEF WrittenOn, NotesFit
  <2> QED BY <2>1, <2>2 DEF NotesFit
<1>12. StepFits(c)
  <2>1. FollowsPhases(c) BY <1>1, <1>3, <1>6, <1>7 DEF FollowsPhases, Moved, PhaseOf, Open
  <2>2. Misled(c)' => Misled(c) BY <1>1, <1>6 DEF Misled
  <2> QED BY <2>1, <2>2, PhasesFollowed DEF StepFits
<1> QED BY <1>5, <1>8, <1>10, <1>11, <1>12 DEF Fits

LEMMA ConnFits ==
  ASSUME IInv, IInv', ClientInv, NEW c \in Conns, ConnNext(c)
  PROVE  \A d \in Conns : Fits(d)' /\ StepFits(d)
BY LoginFits, CloseFits, RequestEntryFits, RequestExitFits, AdmissionEndsFit, DoorAdmissionThrowsFit, DoorLeavesFit,
   AdmittedFits DEF ConnNext

-----------------------------------------------------------------------------
(* What the main thread hears.                                             *)

LEMMA HeardOn ==
  ASSUME IInv, NEW w \in Workers, NEW op, Hears(w, op), member' = member, NEW d \in Conns,
         op # "left" \/ d # Head(up[w]).who \/ ~IsCurrent(w, Head(up[w]))
  PROVE  ShownOn(d)
<1>1. /\ up'[w] = Tail(up[w]) /\ \A v \in Workers : v # w => up'[v] = up[v]
      /\ up[w] \in Seq(UpMsg) /\ up[w] # <<>> /\ Head(up[w]).op = op
  BY HearsOne DEF IInv
<1>2. /\ Passes(up[w], up'[w], d)
      /\ \A g : TakenDown(up[w], d, g) => TakenDown(up'[w], d, g) \/ Head(up[w]) = Left(d, g, "disables")
  <2>1. /\ \A c : Passes(up[w], Tail(up[w]), c)
        /\ \A c, g : TakenDown(up[w], c, g) => TakenDown(Tail(up[w]), c, g) \/ Head(up[w]) = Left(c, g, "disables")
    BY <1>1, ReadyTaken
  <2> QED BY <1>1, <2>1
<1>3. ASSUME w = route[d].at, Head(up[w]) = Left(d, gen[d], "disables") PROVE FALSE
  <2>1. Head(up[w]).op = "left" /\ Head(up[w]).who = d /\ Head(up[w]).gen = gen[d]
    BY <1>3 DEF Left
  <2> QED BY <1>1, <1>3, <2>1 DEF IsCurrent
<1>4. ASSUME NEW v \in Workers
      PROVE  /\ Passes(up[v], up'[v], d)
             /\ Open(d) /\ v = route[d].at /\ Shows(v, d, gen[d]) =>
                  member'[v][d].phase \in {"shown", "in", "failed"} \/ TakenDown(up'[v], d, gen[d])
  <2>1. CASE v = w BY <1>2, <1>3, <2>1 DEF Shows
  <2>2. CASE v # w BY <1>1, <2>2, PassesItself DEF Shows
  <2> QED BY <2>1, <2>2
<1> QED BY <1>4 DEF ShownOn

\* A message that changes nothing of any connection.
LEMMA HeardInVain ==
  ASSUME IInv, IInv', ClientInv, NEW w \in Workers, NEW op, Hears(w, op),
         op # "left" \/ ~IsCurrent(w, Head(up[w])), UNCHANGED <<connVars, member, down, clientVars>>
  PROVE  \A d \in Conns : Fits(d)' /\ StepFits(d)
<1> SUFFICES ASSUME NEW d \in Conns PROVE Fits(d)' /\ StepFits(d) OBVIOUS
<1>1. ShownOn(d) BY HeardOn
<1>2. SameConn(d) /\ WrittenOn(d) BY DEF SameConn, WrittenOn, connVars, clientVars
<1> QED BY <1>1, <1>2, OthersFit DEF ClientInv, Fits

\* The message heard is the first of those on their way.
LEMMA SaysTheHead ==
  ASSUME IInv, NEW w \in Workers, NEW op, Hears(w, op), NEW c, NEW g, NEW k, About(Head(up[w]), k, c, g)
  PROVE  Says(up[w], k, c, g)
<1>1. up[w] \in Seq(UpMsg) /\ up[w] # <<>> BY HearsOne DEF IInv
<1>2. 1 \in DOMAIN up[w] /\ Head(up[w]) = up[w][1]
  BY <1>1, EmptySeq, LenProperties, HeadTailProperties
<1> QED BY <1>2 DEF Says

LEMMA ReadyFits ==
  ASSUME IInv, IInv', ClientInv, NEW w \in Workers, ReadyArrives(w)
  PROVE  \A d \in Conns : Fits(d)' /\ StepFits(d)
<1>1. /\ Hears(w, "ready")
      /\ shown' = IF IsCurrent(w, Head(up[w])) /\ Open(Head(up[w]).who) THEN shown \cup {Head(up[w]).who} ELSE shown
      /\ UNCHANGED <<connVars, registryVars, workerVars, down, home, crashes>>
  BY DEF ReadyArrives
<1>2. CASE ~(IsCurrent(w, Head(up[w])) /\ Open(Head(up[w]).who))
  BY <1>1, <1>2, HeardInVain DEF workerVars, clientVars
<1>3. CASE IsCurrent(w, Head(up[w])) /\ Open(Head(up[w]).who)
  <2>1. PICK c \in Conns, g \in Nat : c = Head(up[w]).who /\ g = Head(up[w]).gen /\ Head(up[w]).op = "ready"
    <3>1. Head(up[w]) \in UpMsg /\ Head(up[w]).op = "ready" BY <1>1, HearsOne DEF IInv
    <3>2. Head(up[w]).who \in Conns /\ Head(up[w]).gen \in Nat \ {0} BY <3>1, MessageFields
    <3> QED BY <3>1, <3>2
  <2>2. /\ route[c].at = w /\ gen[c] = g /\ Open(c) /\ shown' = shown \cup {c}
        /\ About(Head(up[w]), "ready", c, g)
    BY <1>1, <1>3, <2>1 DEF IsCurrent, About, Kind
  <2>3. Routed(c) BY <2>2 DEF Routed, NoRoute
  <2>4. Says(up[w], "ready", c, g) BY <1>1, <2>2, SaysTheHead
  <2>5. ShownByRun(c, w, g) /\ TransitionFits(c) /\ NotesFit(c)
    BY <2>2, <2>3 DEF ClientInv, ShownFits
  <2>6. job[c].phase = "loading" /\ Shows(w, c, g) BY <2>4, <2>5 DEF ShownByRun, Shows
  <2>7. \A d \in Conns : ShownOn(d) /\ WrittenOn(d) BY <1>1, HeardOn DEF WrittenOn, workerVars
  <2>8. ASSUME NEW d \in Conns, d # c PROVE Fits(d)' /\ StepFits(d)
    <3>1. SameConn(d) BY <1>1, <2>2, <2>8 DEF SameConn, connVars
    <3> QED BY <2>7, <3>1, OthersFit DEF ClientInv, Fits
  <2>9. TransitionFits(c)' BY <1>1, <2>2, <2>5 DEF TransitionFits, connVars, Open, Routed
  <2>10. ShownFits(c)'
    <3>1. ReadyFirst(up'[w], c, g) /\ (member'[w][c].phase \in {"shown", "in", "failed"} \/ TakenDown(up'[w], c, g))
      BY <2>2, <2>5, <2>6, <2>7 DEF ShownOn, Passes, ShownByRun
    <3>2. ShownByRun(c, w, g)' BY <1>1, <2>6, <3>1 DEF ShownByRun, connVars
    <3> QED BY <1>1, <2>2, <2>3, <3>2 DEF ShownFits, connVars, Routed
  <2>11. NotesFit(c)' BY <1>1, <2>5, <2>7, NotesPass DEF IInv, ShownOn, Passes, connVars, Open
  <2>12. StepFits(c)
    <3>1. CASE c \in home BY <2>2, <2>3, <3>1 DEF StepFits, Misled
    <3>2. CASE c \notin home
      <4>1. FollowsPhases(c)
        BY <1>1, <2>2, <2>6, <3>2 DEF FollowsPhases, Moved, PhaseOf, connVars, Open
      <4>2. ~Misled(c)' BY <1>1, <3>2 DEF Misled
      <4> QED BY <4>1, <4>2, PhasesFollowed DEF StepFits
    <3> QED BY <3>1, <3>2
  <2> QED BY <2>8, <2>9, <2>10, <2>11, <2>12 DEF Fits
<1> QED BY <1>2, <1>3

LEMMA MatchFits ==
  ASSUME IInv, IInv', ClientInv, NEW w \in Workers, MatchArrives(w)
  PROVE  \A d \in Conns : Fits(d)' /\ StepFits(d)
<1>1. PICK op \in {"finished", "matchFailed"} : Hears(w, op) BY DEF MatchArrives
<1>2. UNCHANGED <<connVars, member, down, clientVars>> BY DEF MatchArrives, workerVars
<1> QED BY <1>1, <1>2, HeardInVain

LEMMA HomeFits ==
  ASSUME IInv, IInv', ClientInv, NEW w \in Workers, HomeArrives(w)
  PROVE  \A d \in Conns : Fits(d)' /\ StepFits(d)
<1>1. /\ Hears(w, "home") /\ UNCHANGED <<online, job, gen, workerVars, shown>>
      /\ IF IsCurrent(w, Head(up[w])) /\ exit[Head(up[w]).who] = "none" THEN Exits(Head(up[w]).who)
         ELSE UNCHANGED <<cancelled, exit, route, registryVars, down, home>>
  BY DEF HomeArrives
<1>2. CASE ~(IsCurrent(w, Head(up[w])) /\ exit[Head(up[w]).who] = "none")
  BY <1>1, <1>2, HeardInVain DEF connVars, workerVars, clientVars
<1>3. CASE IsCurrent(w, Head(up[w])) /\ exit[Head(up[w]).who] = "none"
  <2>1. PICK c \in Conns : c = Head(up[w]).who BY <1>1, HearsOne, MessageFields DEF IInv
  <2>2. Exits(c) /\ Routed(c) BY <1>1, <1>3, <2>1 DEF IsCurrent, Routed, NoRoute
  <2>3. \A d \in Conns : ShownOn(d) BY <1>1, HeardOn DEF workerVars
  <2> QED BY <1>1, <2>2, <2>3, ExitsFit
<1> QED BY <1>2, <1>3

LEMMA CloseArrivesFits ==
  ASSUME IInv, IInv', ClientInv, NEW w \in Workers, CloseArrives(w)
  PROVE  \A d \in Conns : Fits(d)' /\ StepFits(d)
<1>1. Hears(w, "close") /\ UNCHANGED <<job, exit, gen, workerVars, clientVars, crashes>>
  BY DEF CloseArrives
<1>2. PICK c \in Conns : c = Head(up[w]).who BY <1>1, HearsOne, MessageFields DEF IInv
<1>3. \A d \in Conns : ShownOn(d) BY <1>1, HeardOn DEF workerVars
<1>4. CASE Open(c) /\ online' = [online EXCEPT ![c] = "closing"] /\ Disconnect(c)
  <2>1. /\ online[c] \in {"on", "closing"} /\ online'[c] \in {"closing", "gone"}
        /\ \A d \in Conns : d # c => online'[d] = online[d]
    BY <1>4 DEF Open, IInv, TypeOK
  <2> QED BY <1>1, <1>3, <1>4, <2>1, ClosesOnceHeardFit
<1>5. CASE UNCHANGED <<online, cancelled, route, registryVars, down>>
  BY <1>1, <1>5, HeardInVain DEF connVars, workerVars, clientVars
<1> QED BY <1>2, <1>4, <1>5 DEF CloseArrives

LEMMA DoorFits ==
  ASSUME IInv, IInv', ClientInv, NEW w \in Workers, DoorArrives(w)
  PROVE  \A d \in Conns : Fits(d)' /\ StepFits(d)
<1>1. /\ Hears(w, "door")
      /\ UNCHANGED <<online, cancelled, exit, gen, route, registryVars, workerVars, down, clientVars, crashes>>
  BY DEF DoorArrives
<1>2. CASE job' = job BY <1>1, <1>2, HeardInVain DEF connVars, workerVars
<1>3. CASE job' # job
  <2>1. PICK c \in Conns : c = Head(up[w]).who BY <1>1, HearsOne, MessageFields DEF IInv
  <2>2. /\ IsCurrent(w, Head(up[w])) /\ ~Busy(c)
        /\ job' = [job EXCEPT ![c] = [kind |-> "door", phase |-> "checking"]]
    BY <1>3, <2>1 DEF DoorArrives
  <2>3. /\ Routed(c) /\ job[c] = NoJob /\ exit[c] = "none" /\ job[c].phase = "none"
        /\ job'[c].phase = "checking" /\ job'[c] # NoJob /\ \A d \in Conns : d # c => job'[d] = job[d]
    BY <2>1, <2>2 DEF IsCurrent, Routed, NoRoute, Busy, IInv, TypeOK, NoJob
  <2>4. OnlyOf(c)
    <3>1. \A d \in Conns : ShownOn(d) BY <1>1, HeardOn DEF workerVars
    <3> QED BY <1>1, <2>3, <3>1 DEF OnlyOf, SameConn, WrittenOn, clientVars
  <2>5. /\ TransitionFits(c) /\ (Open(c)' <=> Open(c)) /\ (Routed(c)' <=> Routed(c)) /\ route'[c] = route[c]
        /\ exit' = exit /\ cancelled' = cancelled /\ home' = home /\ shown' = shown /\ online' = online
    BY <1>1 DEF ClientInv, Open, Routed, clientVars
  <2>6. TransitionFits(c)' BY <2>3, <2>5 DEF TransitionFits, Open, Routed
  <2>7. FollowsPhases(c) BY <2>3, <2>5 DEF FollowsPhases, Moved, PhaseOf, Routed, TransitionFits
  <2>8. Misled(c)' => Misled(c) BY <2>3, <2>5 DEF Misled
  <2> QED BY <2>3, <2>4, <2>5, <2>6, <2>7, <2>8, OneFits
<1> QED BY <1>2, <1>3

\* The answer of an entry: what it has shown has been heard before.
LEMMA AnswerFits ==
  ASSUME IInv, ClientInv, NEW w \in Workers, NEW op \in {"joined", "failed"}, Hears(w, op), IsCurrent(w, Head(up[w]))
  PROVE  LET c == Head(up[w]).who
         IN  /\ c \in Conns /\ Routed(c) /\ job[c].phase = "loading" /\ job[c] # NoJob
             /\ c \notin cancelled => route[c].state = "joining"
             /\ online[c] # "off"
             /\ Open(c) => \A v \in Workers : v = route[c].at => ~Says(up'[v], "ready", c, gen[c])
             /\ Open(c) /\ c \in cancelled => exit[c] = "leaving" /\ route[c].state = "leaving"
             /\ Open(c) /\ c \notin cancelled => exit[c] = "none"
<1>1. PICK c : c = Head(up[w]).who OBVIOUS
<1>2. /\ c \in Conns /\ Routed(c) /\ job[c].phase = "loading" /\ job[c] # NoJob
      /\ c \notin cancelled => route[c].state = "joining"
  BY <1>1, AnswerHeard
<1>3. online[c] # "off" /\ (Open(c) => TransitionFits(c) /\ ShownFits(c))
  BY <1>2 DEF ClientInv, TransitionFits
<1>4. ASSUME Open(c) PROVE ~Says(up'[w], "ready", c, gen[c]) /\ w = route[c].at
  <2>1. route[c].at = w /\ gen[c] = Head(up[w]).gen BY <1>1 DEF IsCurrent
  <2>2. About(Head(up[w]), "answer", c, gen[c]) BY <1>1, <2>1 DEF About, Kind, Hears
  <2>3. up[w] \in Seq(UpMsg) /\ up[w] # <<>> /\ up'[w] = Tail(up[w]) BY HearsOne DEF IInv
  <2>4. ReadyFirst(up[w], c, gen[c]) BY <1>2, <1>3, <1>4, <2>1 DEF ShownFits, ShownByRun
  <2>5. /\ \A d : Passes(up[w], Tail(up[w]), d)
        /\ \A d, g : ReadyFirst(up[w], d, g) /\ (About(Head(up[w]), "answer", d, g) \/ About(Head(up[w]), "left", d, g))
                       => ~Says(up[w], "ready", d, g)
    BY <2>3, ReadyTaken
  <2> QED BY <2>1, <2>2, <2>3, <2>4, <2>5 DEF Passes
<1>5. ASSUME Open(c), c \in cancelled PROVE exit[c] = "leaving" /\ route[c].state = "leaving"
  <2>1. exit[c] \in {"none", "leaving", "waiting"} BY <1>2 DEF IInv, TypeOK
  <2> QED BY <1>2, <1>3, <1>5, <2>1 DEF TransitionFits
<1>6. Open(c) /\ c \notin cancelled => exit[c] = "none" BY <1>2, <1>3 DEF TransitionFits
<1> QED BY <1>1, <1>2, <1>3, <1>4, <1>5, <1>6

LEMMA JoinedFits ==
  ASSUME IInv, IInv', ClientInv, NEW w \in Workers, JoinedArrives(w)
  PROVE  \A d \in Conns : Fits(d)' /\ StepFits(d)
<1>1. Hears(w, "joined") /\ UNCHANGED <<registryVars, workerVars, down, clientVars, crashes>>
  BY DEF JoinedArrives
<1>2. CASE ~IsCurrent(w, Head(up[w]))
  <2>1. UNCHANGED connVars BY <1>2 DEF JoinedArrives
  <2> QED BY <1>1, <2>1, HeardInVain DEF workerVars
<1>3. CASE IsCurrent(w, Head(up[w]))
  <2>1. PICK c : c = Head(up[w]).who OBVIOUS
  <2>2. /\ c \in Conns /\ Routed(c) /\ job[c].phase = "loading" /\ job[c] # NoJob
        /\ online[c] # "off"
        /\ Open(c) => \A v \in Workers : v = route[c].at => ~Says(up'[v], "ready", c, gen[c])
        /\ Open(c) /\ c \in cancelled => exit[c] = "leaving" /\ route[c].state = "leaving"
        /\ Open(c) /\ c \notin cancelled => exit[c] = "none"
    BY <1>1, <1>3, <2>1, AnswerFits
  <2>3. /\ TransitionFits(c) /\ shown' = shown /\ home' = home
        /\ online[c] \in {"on", "closing", "gone"}
    BY <1>1, <2>2 DEF ClientInv, clientVars, IInv, TypeOK
  <2>4. \A d \in Conns : ShownOn(d) /\ WrittenOn(d) BY <1>1, HeardOn DEF WrittenOn, workerVars
  <2>5. CASE c \in cancelled
    <3>1. job' = [job EXCEPT ![c].phase = "unwinding"] /\ UNCHANGED <<online, cancelled, exit, gen, route>>
      BY <1>3, <2>1, <2>5 DEF JoinedArrives
    <3>2. job'[c].phase = "unwinding" /\ job'[c] # NoJob /\ \A d \in Conns : d # c => job'[d] = job[d]
      <4>1. PICK p \in {"admitting", "loading", "unwinding", "failing"} : p = "unwinding"
        OBVIOUS
      <4>2. job'[c].phase = p /\ \A d \in Conns : d # c => job'[d] = job[d]
        BY <2>2, <3>1, <4>1, JobMoves DEF IInv
      <4> QED BY <4>1, <4>2 DEF NoJob
    <3>3. OnlyOf(c) BY <2>3, <2>4, <3>1, <3>2 DEF OnlyOf, SameConn
    <3>4. TransitionFits(c)' BY <2>2, <2>3, <2>5, <3>1, <3>2 DEF TransitionFits, Open, Routed
    <3>5. FollowsPhases(c)
      BY <2>2, <2>3, <2>5, <3>1, <3>2 DEF FollowsPhases, Moved, PhaseOf, Open, Routed
    <3>6. Misled(c)' => Misled(c) BY <2>3, <2>2, <3>1 DEF Misled, Open, Routed
    <3> QED BY <2>2, <2>3, <3>3, <3>4, <3>5, <3>6, OneFits
  <2>6. CASE c \notin cancelled
    <3>1. route' = [route EXCEPT ![c].state = "entered"] /\ JobEnds(c) /\ UNCHANGED <<online, gen>>
      BY <1>3, <2>1, <2>6 DEF JoinedArrives
    <3>2. /\ job'[c] = NoJob /\ job'[c].phase = "none" /\ c \notin cancelled'
          /\ exit'[c] = IF exit[c] = "waiting" THEN "none" ELSE exit[c]
          /\ \A d \in Conns : d # c => job'[d] = job[d] /\ exit'[d] = exit[d] /\ (d \in cancelled' <=> d \in cancelled)
      BY <2>2, <3>1, JobEndsOf
    <3>3. /\ route'[c].at = route[c].at /\ route'[c].state = "entered" /\ route'[c] # NoRoute
          /\ \A d \in Conns : d # c => route'[d] = route[d]
      <4>1. PICK r \in Routes : r = route[c] /\ r # NoRoute BY <2>2 DEF IInv, TypeOK, Routed
      <4>2. PICK q : q = [r EXCEPT !.state = "entered"] OBVIOUS
      <4>3. q.at = r.at /\ q.state = "entered" BY <4>1, <4>2 DEF Routes
      <4>4. route'[c] = q /\ \A d \in Conns : d # c => route'[d] = route[d]
        BY <2>2, <3>1, <4>1, <4>2 DEF IInv, TypeOK
      <4> QED BY <4>1, <4>3, <4>4 DEF NoRoute
    <3>4. OnlyOf(c) BY <2>3, <2>4, <3>1, <3>2, <3>3 DEF OnlyOf, SameConn
    <3>5. TransitionFits(c)'
      BY <2>2, <2>3, <2>6, <3>1, <3>2, <3>3 DEF TransitionFits, Open, Routed
    <3>6. FollowsPhases(c)
      BY <2>2, <2>3, <2>6, <3>1, <3>2, <3>3 DEF FollowsPhases, Moved, PhaseOf, Open, Routed
    <3>7. Misled(c)' => Misled(c) BY <2>2, <2>3, <3>1 DEF Misled, Open
    <3> QED BY <2>2, <2>3, <3>4, <3>5, <3>6, <3>7, OneFits
  <2> QED BY <2>5, <2>6
<1> QED BY <1>2, <1>3

LEMMA FailedFits ==
  ASSUME IInv, IInv', ClientInv, NEW w \in Workers, FailedArrives(w)
  PROVE  \A d \in Conns : Fits(d)' /\ StepFits(d)
<1>1. Hears(w, "failed") /\ UNCHANGED <<workerVars, clientVars, crashes>> BY DEF FailedArrives
<1>2. CASE ~IsCurrent(w, Head(up[w]))
  <2>1. UNCHANGED <<connVars, down>> BY <1>2 DEF FailedArrives
  <2> QED BY <1>1, <2>1, HeardInVain DEF workerVars
<1>3. CASE IsCurrent(w, Head(up[w]))
  <2>1. PICK c : c = Head(up[w]).who OBVIOUS
  <2>2. /\ c \in Conns /\ Routed(c) /\ job[c].phase = "loading" /\ job[c] # NoJob
        /\ online[c] # "off"
        /\ Open(c) => \A v \in Workers : v = route[c].at => ~Says(up'[v], "ready", c, gen[c])
        /\ Open(c) /\ c \in cancelled => exit[c] = "leaving" /\ route[c].state = "leaving"
        /\ Open(c) /\ c \notin cancelled => exit[c] = "none"
    BY <1>1, <1>3, <2>1, AnswerFits
  <2>3. /\ TransitionFits(c) /\ shown' = shown /\ home' = home
        /\ online[c] \in {"on", "closing", "gone"}
    BY <1>1, <2>2 DEF ClientInv, clientVars, IInv, TypeOK
  <2>4. \A d \in Conns : ShownOn(d) BY <1>1, HeardOn DEF workerVars
  <2>5. CASE c \in cancelled
    <3>1. JobEnds(c) /\ UNCHANGED <<online, gen, route, down>>
      BY <1>3, <2>1, <2>5 DEF FailedArrives
    <3>2. /\ job'[c] = NoJob /\ job'[c].phase = "none" /\ c \notin cancelled'
          /\ exit'[c] = IF exit[c] = "waiting" THEN "none" ELSE exit[c]
          /\ \A d \in Conns : d # c => job'[d] = job[d] /\ exit'[d] = exit[d] /\ (d \in cancelled' <=> d \in cancelled)
      BY <2>2, <3>1, JobEndsOf
    <3>3. OnlyOf(c) BY <2>3, <2>4, <3>1, <3>2 DEF OnlyOf, SameConn, WrittenOn
    <3>4. TransitionFits(c)' BY <2>2, <2>3, <2>5, <3>1, <3>2 DEF TransitionFits, Open, Routed
    <3>5. FollowsPhases(c)
      BY <2>2, <2>3, <2>5, <3>1, <3>2 DEF FollowsPhases, Moved, PhaseOf, Open, Routed
    <3>6. Misled(c)' => Misled(c) BY <2>2, <2>3, <3>1 DEF Misled, Open
    <3> QED BY <2>2, <2>3, <3>3, <3>4, <3>5, <3>6, OneFits
  <2>6. CASE c \notin cancelled
    <3>1. /\ job' = [job EXCEPT ![c].phase = "failing"] /\ Leave(c, "disables")
          /\ UNCHANGED <<online, cancelled, exit, gen>>
      BY <1>3, <2>1, <2>6 DEF FailedArrives
    <3>2. job'[c].phase = "failing" /\ job'[c] # NoJob /\ \A d \in Conns : d # c => job'[d] = job[d]
      <4>1. PICK p \in {"admitting", "loading", "unwinding", "failing"} : p = "failing" OBVIOUS
      <4>2. job'[c].phase = p /\ \A d \in Conns : d # c => job'[d] = job[d]
        BY <2>2, <3>1, <4>1, JobMoves DEF IInv
      <4> QED BY <4>1, <4>2 DEF NoJob
    <3>3. /\ \A d \in Conns : d # c => route'[d] = route[d]
          /\ route'[c].at = route[c].at /\ (route'[c] # NoRoute <=> route[c] # NoRoute)
          /\ route'[c].state = "leaving"
      BY <2>2, <3>1, LeaveOf
    <3>4. OnlyOf(c)
      <4>1. \A d \in Conns : WrittenOn(d) BY <2>2, <3>1, LeaveWrites DEF Open
      <4> QED BY <2>3, <2>4, <3>1, <3>2, <3>3, <4>1 DEF OnlyOf, SameConn
    <3>5. TransitionFits(c)'
      BY <2>2, <2>3, <2>6, <3>1, <3>2, <3>3 DEF TransitionFits, Open, Routed
    <3>6. FollowsPhases(c)
      BY <2>2, <2>3, <2>6, <3>1, <3>2, <3>3 DEF FollowsPhases, Moved, PhaseOf, Open, Routed
    <3>7. Misled(c)' => Misled(c) BY <2>2, <2>3, <3>1, <3>3 DEF Misled, Open, Routed
    <3> QED BY <2>2, <2>3, <3>4, <3>5, <3>6, <3>7, OneFits
  <2> QED BY <2>5, <2>6
<1> QED BY <1>2, <1>3

-----------------------------------------------------------------------------
(* A run is over: it was left, or its worker died.                         *)

LEMMA JobAfterLeftOf ==
  ASSUME IInv, NEW c \in Conns
  PROVE  /\ job[c].phase = "leaving" /\ c \notin cancelled => JobAfterLeft(c).phase = "admitting"
         /\ job[c].phase = "checking" => JobAfterLeft(c).phase = "checking"
         /\ job[c].phase \in {"none", "loading", "unwinding", "failing"} \/ (job[c].phase = "leaving" /\ c \in cancelled)
              => JobAfterLeft(c) = NoJob
         /\ JobAfterLeft(c) = NoJob <=> JobAfterLeft(c).phase = "none"
<1>1. JobAfterLeft(c) \in Jobs BY JobAfterLeftIs DEF IInv
<1>2. JobAfterLeft(c) = NoJob <=> JobAfterLeft(c).phase = "none" BY <1>1, JobFields
<1>3. ASSUME job[c].phase = "leaving", c \notin cancelled PROVE JobAfterLeft(c).phase = "admitting"
  <2>1. PICK j \in Jobs : j = job[c] BY DEF IInv, TypeOK
  <2>2. j # NoJob BY <1>3, <2>1 DEF NoJob
  <2>3. \A q \in {"admitting", "loading", "unwinding", "failing"} : [j EXCEPT !.phase = q].phase = q
    BY <2>2, JobFields
  <2>4. JobAfterLeft(c) = [j EXCEPT !.phase = "admitting"] BY <1>3, <2>1 DEF JobAfterLeft
  <2> QED BY <2>3, <2>4
<1>4. job[c].phase = "checking" => JobAfterLeft(c).phase = "checking" BY DEF JobAfterLeft
<1>5. job[c].phase \in {"none", "loading", "unwinding", "failing"} \/ (job[c].phase = "leaving" /\ c \in cancelled)
        => JobAfterLeft(c) = NoJob
  BY DEF JobAfterLeft
<1> QED BY <1>2, <1>3, <1>4, <1>5

\* The connection whose run is over, and what it is told.
LEMMA RunIsOver ==
  ASSUME IInv, ClientInv, NEW c \in Conns, Routed(c), route'[c] = NoRoute, job'[c] = JobAfterLeft(c), online' = online,
         c \in cancelled' <=> c \in cancelled /\ JobAfterLeft(c) # NoJob,
         exit'[c] = IF exit[c] # "leaving" THEN exit[c] ELSE IF JobAfterLeft(c) = NoJob THEN "none" ELSE "waiting",
         IF Open(c) THEN c \notin shown' ELSE c \in shown' <=> c \in shown,
         c \in home' <=> c \in home \/ (Open(c) /\ (route[c].state = "entered" \/ exit[c] = "leaving"))
  PROVE  /\ TransitionFits(c)' /\ (Misled(c)' \/ FollowsPhases(c))
         /\ route[c].state = "leaving" => (FollowsPhases(c) /\ ~Misled(c)') \/ Misled(c)
<1>1. /\ job[c].phase = "leaving" /\ c \notin cancelled => JobAfterLeft(c).phase = "admitting"
      /\ job[c].phase = "checking" => JobAfterLeft(c).phase = "checking"
      /\ job[c].phase \in {"none", "loading", "unwinding", "failing"} \/ (job[c].phase = "leaving" /\ c \in cancelled)
           => JobAfterLeft(c) = NoJob
      /\ JobAfterLeft(c) = NoJob <=> JobAfterLeft(c).phase = "none"
  BY JobAfterLeftOf
<1>2. /\ job[c] # NoJob <=> job[c].phase # "none"
      /\ job[c].phase \in {"none", "loading", "unwinding", "failing", "checking", "leaving"}
  BY JobPhases DEF IInv, Good, JobFitsRoute
<1>3. /\ TransitionFits(c) /\ ~Routed(c)' /\ route'[c].state = "none" /\ (Open(c)' <=> Open(c))
      /\ route[c].state \in {"joining", "entered", "leaving"} /\ exit[c] \in {"none", "leaving", "waiting"}
      /\ online[c] \in {"on", "closing", "gone"}
  <2>1. TransitionFits(c) /\ ~Routed(c)' /\ route'[c].state = "none" /\ (Open(c)' <=> Open(c))
    BY DEF ClientInv, Routed, NoRoute, Open
  <2>2. route[c] \in Routes /\ route[c] # NoRoute /\ exit[c] \in {"none", "leaving", "waiting"}
    BY DEF IInv, TypeOK, Routed
  <2>3. route[c].state \in {"joining", "entered", "leaving"} BY <2>2, RouteFields
  <2>4. online[c] \in {"on", "closing", "gone"} BY <2>1, <2>2 DEF IInv, TypeOK, TransitionFits
  <2> QED BY <2>1, <2>2, <2>3, <2>4
<1>4. CASE ~Open(c)
  <2>1. TransitionFits(c)' /\ ~Misled(c)' BY <1>3, <1>4 DEF TransitionFits, Misled, Open
  <2>2. FollowsPhases(c) BY <1>3, <1>4 DEF FollowsPhases, Moved, PhaseOf, Open
  <2> QED BY <2>1, <2>2
<1>5. CASE Open(c) /\ exit[c] = "leaving"
  <2>1. c \notin shown' /\ c \in home' /\ (job[c] # NoJob => c \in cancelled)
    BY <1>3, <1>5 DEF TransitionFits
  <2>2. CASE job[c].phase = "checking"
    <3>1. job'[c] # NoJob /\ job'[c].phase = "checking" /\ c \in cancelled' /\ exit'[c] = "waiting"
      BY <1>1, <1>2, <1>5, <2>1, <2>2
    <3>2. TransitionFits(c)' /\ ~Misled(c)'
      BY <1>3, <1>5, <2>1, <3>1 DEF TransitionFits, Misled, Open
    <3>3. FollowsPhases(c) BY <1>3, <1>5, <2>1, <3>1 DEF FollowsPhases, Moved, PhaseOf, Open
    <3> QED BY <3>2, <3>3
  <2>3. CASE job[c].phase # "checking"
    <3>1. job'[c] = NoJob /\ job'[c].phase = "none" /\ c \notin cancelled' /\ exit'[c] = "none"
      BY <1>1, <1>2, <1>5, <2>1, <2>3
    <3>2. TransitionFits(c)' /\ ~Misled(c)'
      BY <1>3, <1>5, <2>1, <3>1 DEF TransitionFits, Misled, Open
    <3>3. FollowsPhases(c)
      BY <1>3, <1>5, <2>1, <3>1 DEF FollowsPhases, Moved, PhaseOf, Open, Routed
    <3> QED BY <3>2, <3>3
  <2> QED BY <2>2, <2>3
<1>6. CASE Open(c) /\ exit[c] # "leaving"
  <2>1. exit[c] = "none" /\ exit'[c] = "none" /\ c \notin cancelled /\ c \notin cancelled' /\ c \notin shown'
    BY <1>3, <1>6 DEF TransitionFits
  <2>2. CASE route[c].state = "leaving"
    <3>1. job[c].phase \in {"leaving", "failing"} /\ (c \in home' <=> c \in home)
      BY <1>3, <1>6, <2>2 DEF TransitionFits
    <3>2. job'[c].phase = IF job[c].phase = "leaving" THEN "admitting" ELSE "none"
      BY <1>1, <2>1, <3>1
    <3>3. TransitionFits(c)' BY <1>1, <1>3, <1>6, <2>1, <3>2 DEF TransitionFits, Open
    <3>4. FollowsPhases(c)
      BY <1>3, <1>6, <2>1, <3>1, <3>2 DEF FollowsPhases, Moved, PhaseOf, Open
    <3>5. Misled(c)' => Misled(c) BY <1>3, <3>1 DEF Misled
    <3> QED BY <3>3, <3>4, <3>5
  <2>3. CASE route[c].state = "joining"
    <3>1. job[c].phase = "loading" /\ (c \in home' <=> c \in home)
      BY <1>3, <1>6, <2>3 DEF TransitionFits
    <3>2. job'[c] = NoJob /\ job'[c].phase = "none" BY <1>1, <3>1
    <3>3. TransitionFits(c)' BY <1>3, <1>6, <2>1, <3>2 DEF TransitionFits, Open
    <3>4. FollowsPhases(c)
      BY <1>3, <1>6, <2>1, <3>1, <3>2 DEF FollowsPhases, Moved, PhaseOf, Open
    <3> QED BY <2>3, <3>3, <3>4
  <2>4. CASE route[c].state = "entered"
    <3>1. c \in home' BY <1>6, <2>4
    <3>2. job'[c].phase \in {"none", "admitting", "checking"} /\ (job'[c] # NoJob <=> job'[c].phase # "none")
      BY <1>1, <1>2, <2>1
    <3>3. TransitionFits(c)' BY <1>3, <1>6, <2>1, <3>1, <3>2 DEF TransitionFits, Open
    <3>4. CASE job'[c] # NoJob BY <1>3, <1>6, <2>1, <2>4, <3>1, <3>3, <3>4 DEF Misled
    <3>5. CASE job'[c] = NoJob
      <4>1. FollowsPhases(c)
        BY <1>3, <1>6, <2>1, <3>1, <3>2, <3>5 DEF FollowsPhases, Moved, PhaseOf, Open
      <4> QED BY <2>4, <3>3, <4>1
    <3> QED BY <3>4, <3>5
  <2> QED BY <1>3, <2>2, <2>3, <2>4
<1> QED BY <1>4, <1>5, <1>6

\* The worker's last word takes down what is shown, unless nothing is.
LEMMA LeftTakesDown ==
  ASSUME IInv, ClientInv, NEW w \in Workers, Hears(w, "left"), IsCurrent(w, Head(up[w])), member[w][Head(up[w]).who] = NoMember,
         Open(Head(up[w]).who), Head(up[w]).who \in shown
  PROVE  Head(up[w]).note = "disables"
<1>1. up[w] \in Seq(UpMsg) /\ up[w] # <<>> /\ Head(up[w]) \in UpMsg /\ Head(up[w]).op = "left"
  BY HearsOne DEF IInv
<1>2. PICK c \in Conns, g \in Nat : c = Head(up[w]).who /\ g = Head(up[w]).gen
  BY <1>1, MessageFields
<1>3. route[c].at = w /\ gen[c] = g /\ Routed(c) BY <1>2 DEF IsCurrent, Routed, NoRoute
<1>4. ShownByRun(c, w, g) /\ RunEndsOnce(c, w, g)
  BY <1>2, <1>3 DEF ClientInv, ShownFits, IInv, Good
<1>5. TakenDown(up[w], c, g) BY <1>2, <1>4 DEF ShownByRun, NoMember
<1>6. PICK i \in DOMAIN up[w] : up[w][i] = Left(c, g, "disables") BY <1>5 DEF TakenDown
<1>7. 1 \in DOMAIN up[w] /\ Head(up[w]) = up[w][1]
  BY <1>1, EmptySeq, LenProperties, HeadTailProperties
<1>8. About(up[w][1], "left", c, g) BY <1>1, <1>2, <1>7 DEF About, Kind
<1>9. About(up[w][i], "left", c, g) /\ up[w][i].note = "disables" BY <1>6 DEF About, Kind, Left
<1>10. i = 1 BY <1>4, <1>7, <1>8, <1>9 DEF RunEndsOnce, Once
<1> QED BY <1>7, <1>9, <1>10

LEMMA LeftFits ==
  ASSUME IInv, IInv', ClientInv, NEW w \in Workers, LeftArrives(w)
  PROVE  \A d \in Conns : Fits(d)' /\ StepFits(d)
<1>1. Hears(w, "left") /\ UNCHANGED <<registryVars, workerVars, down, crashes>>
  BY DEF LeftArrives
<1>2. CASE ~IsCurrent(w, Head(up[w]))
  <2>1. UNCHANGED <<connVars, clientVars>> BY <1>2 DEF LeftArrives
  <2> QED BY <1>1, <1>2, <2>1, HeardInVain DEF workerVars
<1>3. CASE IsCurrent(w, Head(up[w]))
  <2>1. PICK c : c = Head(up[w]).who OBVIOUS
  <2>2. c \in Conns /\ route[c].state = "leaving" /\ \A v \in Workers : member'[v][c] = NoMember
    BY <1>1, <1>3, <2>1, LeftHeard DEF workerVars
  <2>3. /\ shown' = IF Head(up[w]).note = "disables" /\ Open(c) THEN shown \ {c} ELSE shown
        /\ home' = IF exit[c] = "leaving" /\ Open(c) THEN home \cup {c} ELSE home
        /\ Settled({c}) /\ UNCHANGED <<online, gen>>
    BY <1>3, <2>1 DEF LeftArrives
  <2>4. /\ route' = [d \in Conns |-> IF d \in {c} THEN NoRoute ELSE route[d]]
        /\ job' = [d \in Conns |-> IF d \in {c} THEN JobAfterLeft(d) ELSE job[d]]
        /\ cancelled' = cancelled \ {d \in {c} : JobAfterLeft(d) = NoJob}
        /\ exit' = [d \in Conns |->
             IF d \notin {c} \/ exit[d] # "leaving" THEN exit[d] ELSE IF JobAfterLeft(d) = NoJob THEN "none" ELSE "waiting"]
    BY <2>3 DEF Settled
  <2>5. Routed(c) /\ member' = member BY <1>1, <2>2 DEF Routed, NoRoute, workerVars
  <2>6. IF Open(c) THEN c \notin shown' ELSE c \in shown' <=> c \in shown
    <3>1. member[w][c] = NoMember BY <2>2, <2>5
    <3>2. Open(c) /\ c \in shown => Head(up[w]).note = "disables"
      BY <1>1, <1>3, <2>1, <3>1, LeftTakesDown
    <3> QED BY <2>3, <3>2
  <2>7. /\ TransitionFits(c)'
        /\ (FollowsPhases(c) /\ ~Misled(c)') \/ Misled(c)
    <3>1. /\ route'[c] = NoRoute /\ job'[c] = JobAfterLeft(c)
          /\ c \in cancelled' <=> c \in cancelled /\ JobAfterLeft(c) # NoJob
          /\ exit'[c] = IF exit[c] # "leaving" THEN exit[c] ELSE IF JobAfterLeft(c) = NoJob THEN "none" ELSE "waiting"
      BY <2>2, <2>4
    <3>2. c \in home' <=> c \in home \/ (Open(c) /\ (route[c].state = "entered" \/ exit[c] = "leaving"))
      BY <2>2, <2>3
    <3> QED BY <2>2, <2>3, <2>5, <2>6, <3>1, <3>2, RunIsOver
  <2>8. ASSUME NEW d \in Conns, d # c PROVE Fits(d)' /\ StepFits(d)
    <3>1. SameConn(d) BY <2>3, <2>4, <2>8 DEF SameConn
    <3>2. ShownOn(d) /\ WrittenOn(d) BY <1>1, <2>1, <2>8, HeardOn DEF WrittenOn, workerVars
    <3> QED BY <3>1, <3>2, OthersFit DEF ClientInv, Fits
  <2>9. ShownFits(c)'
    <3>1. ~Routed(c)' /\ (Open(c)' <=> Open(c)) BY <2>2, <2>3, <2>4 DEF Routed, Open
    <3> QED BY <2>6, <3>1 DEF ShownFits
  <2>10. NotesFit(c)'
    <3>1. /\ up'[w] = Tail(up[w]) /\ \A v \in Workers : v # w => up'[v] = up[v]
          /\ up[w] \in Seq(UpMsg) /\ up[w] # <<>>
      BY <1>1, HearsOne DEF IInv
    <3>2. \A v \in Workers : Passes(up[v], up'[v], c)
      <4>1. \A d : Passes(up[w], Tail(up[w]), d) BY <3>1, ReadyTaken
      <4> QED BY <3>1, <4>1, PassesItself
    <3>3. WrittenOn(c) /\ (Open(c)' => Open(c)) /\ gen'[c] = gen[c]
      BY <1>1, <2>3 DEF WrittenOn, Open
    <3> QED BY <2>2, <3>2, <3>3, NotesPass DEF IInv, ClientInv, Passes
  <2>11. StepFits(c) BY <2>2, <2>7, PhasesFollowed DEF StepFits
  <2> QED BY <2>7, <2>8, <2>9, <2>10, <2>11 DEF Fits
<1> QED BY <1>2, <1>3

\* A worker's death: the only step that may mislead, and a step of the phases for whom it does not.
LEMMA WorkerDiesFits ==
  ASSUME IInv, IInv', ClientInv, NEW w \in Workers, WorkerDies(w), NEW d \in Conns
  PROVE  Fits(d)' /\ (Misled(d) \/ Misled(d)' \/ [Conn(d)!Next]_(Conn(d)!vars))
<1>1. PICK S \in SUBSET Conns : S = {c \in Conns : route[c].at = w} OBVIOUS
<1>2. /\ Settled(S) /\ UNCHANGED <<online, gen>>
      /\ member' = [member EXCEPT ![w] = [c \in Conns |-> NoMember]]
      /\ up' = [up EXCEPT ![w] = <<>>] /\ down' = [down EXCEPT ![w] = <<>>]
      /\ shown' = shown \ {c \in S : Open(c)}
      /\ home' = home \cup {c \in S : /\ route[c].state = "entered" \/ exit[c] = "leaving"
                                      /\ Open(c)}
  BY <1>1 DEF WorkerDies
<1>3. /\ route' = [c \in Conns |-> IF c \in S THEN NoRoute ELSE route[c]]
      /\ job' = [c \in Conns |-> IF c \in S THEN JobAfterLeft(c) ELSE job[c]]
      /\ cancelled' = cancelled \ {c \in S : JobAfterLeft(c) = NoJob}
      /\ exit' = [c \in Conns |->
           IF c \notin S \/ exit[c] # "leaving" THEN exit[c] ELSE IF JobAfterLeft(c) = NoJob THEN "none" ELSE "waiting"]
  BY <1>2 DEF Settled
<1>4. /\ up'[w] = <<>> /\ down'[w] = <<>>
      /\ \A v \in Workers : v # w => up'[v] = up[v] /\ down'[v] = down[v] /\ member'[v] = member[v]
  BY <1>2 DEF IInv, TypeOK
<1>5. \A v \in Workers : Passes(up[v], up'[v], d) BY <1>4, PassesItself, PassesNothing
<1>6. WrittenOn(d)
  <2> SUFFICES ASSUME NEW v \in Workers, NEW i \in DOMAIN down'[v] PROVE \E j \in DOMAIN down[v] : down[v][j] = down'[v][i]
    BY DEF WrittenOn
  <2>1. v # w BY <1>4
  <2> QED BY <1>4, <2>1
<1>7. CASE d \notin S
  <2>1. SameConn(d) BY <1>2, <1>3, <1>7 DEF SameConn
  <2>2. ShownOn(d)
    <3> SUFFICES ASSUME NEW v \in Workers, v = route[d].at, Shows(v, d, gen[d])
                 PROVE  member'[v][d].phase \in {"shown", "in", "failed"} \/ TakenDown(up'[v], d, gen[d])
      BY <1>5 DEF ShownOn
    <3>1. v # w BY <1>1, <1>7
    <3> QED BY <1>4, <3>1 DEF Shows
  <2>3. Fits(d)' /\ StepFits(d) BY <1>6, <2>1, <2>2, OthersFit DEF ClientInv, Fits
  <2> QED BY <2>3 DEF StepFits
<1>8. CASE d \in S
  <2>1. Routed(d) BY <1>1, <1>8 DEF Routed, NoRoute
  <2>2. /\ route'[d] = NoRoute /\ job'[d] = JobAfterLeft(d)
        /\ d \in cancelled' <=> d \in cancelled /\ JobAfterLeft(d) # NoJob
        /\ exit'[d] = IF exit[d] # "leaving" THEN exit[d] ELSE IF JobAfterLeft(d) = NoJob THEN "none" ELSE "waiting"
        /\ IF Open(d) THEN d \notin shown' ELSE d \in shown' <=> d \in shown
        /\ d \in home' <=> d \in home \/ (Open(d) /\ (route[d].state = "entered" \/ exit[d] = "leaving"))
    BY <1>2, <1>3, <1>8
  <2>3. TransitionFits(d)' /\ (Misled(d)' \/ FollowsPhases(d)) BY <1>2, <2>1, <2>2, RunIsOver
  <2>4. ShownFits(d)'
    <3>1. ~Routed(d)' /\ (Open(d)' <=> Open(d)) BY <1>2, <2>2 DEF Routed, Open
    <3> QED BY <2>2, <3>1 DEF ShownFits
  <2>5. NotesFit(d)'
    <3>1. (Open(d)' => Open(d)) /\ gen'[d] = gen[d] BY <1>2 DEF Open
    <3> QED BY <1>5, <1>6, <3>1, NotesPass DEF IInv, ClientInv, Passes
  <2> QED BY <2>3, <2>4, <2>5, PhasesFollowed DEF Fits
<1> QED BY <1>7, <1>8

-----------------------------------------------------------------------------
(* The workers.                                                            *)

\* What a worker adds about a connection, and takes.
LEMMA AppendShows ==
  ASSUME NEW q \in Seq(UpMsg), NEW x \in UpMsg, NEW d, x.op = "ready" => x.who # d
  PROVE  /\ Passes(q, Append(q, x), d)
         /\ \A g : TakenDown(q, d, g) \/ x = Left(d, g, "disables") => TakenDown(Append(q, x), d, g)
<1>1. \A g : ~About(x, "ready", d, g) BY DEF About, Kind
<1>2. /\ \A c, g : TakenDown(q, c, g) => TakenDown(Append(q, x), c, g)
      /\ \A c, g : x = Left(c, g, "disables") => TakenDown(Append(q, x), c, g)
      /\ \A c : (\A g : ~About(x, "ready", c, g)) => Passes(q, Append(q, x), c)
  BY ReadyOnce
<1> QED BY <1>1, <1>2

LEMMA PostShows ==
  ASSUME IInv, NEW w \in Workers, NEW x \in UpMsg, up' = Post(up, w, x), NEW d \in Conns, x.op = "ready" => x.who # d,
         \A v \in Workers : Open(d) /\ v = route[d].at /\ member[v][d].phase \in {"shown", "in", "failed"} =>
           member'[v][d].phase \in {"shown", "in", "failed"} \/ (v = w /\ x = Left(d, gen[d], "disables"))
  PROVE  ShownOn(d)
<1>1. up[w] \in Seq(UpMsg) /\ up'[w] = Append(up[w], x) /\ \A v \in Workers : v # w => up'[v] = up[v]
  BY DEF IInv, TypeOK, Post
<1>2. /\ Passes(up[w], up'[w], d)
      /\ \A g : TakenDown(up[w], d, g) \/ x = Left(d, g, "disables") => TakenDown(up'[w], d, g)
  <2>1. /\ Passes(up[w], Append(up[w], x), d)
        /\ \A g : TakenDown(up[w], d, g) \/ x = Left(d, g, "disables") => TakenDown(Append(up[w], x), d, g)
    BY <1>1, AppendShows
  <2> QED BY <1>1, <2>1
<1>3. ASSUME NEW v \in Workers
      PROVE  /\ Passes(up[v], up'[v], d)
             /\ Open(d) /\ v = route[d].at /\ Shows(v, d, gen[d]) =>
                  member'[v][d].phase \in {"shown", "in", "failed"} \/ TakenDown(up'[v], d, gen[d])
  <2>1. CASE v = w BY <1>2, <2>1 DEF Shows
  <2>2. CASE v # w BY <1>1, <2>2, PassesItself DEF Shows
  <2> QED BY <2>1, <2>2
<1> QED BY <1>3 DEF ShownOn

LEMMA WorkerFits ==
  ASSUME IInv, IInv', ClientInv, UNCHANGED <<connVars, clientVars>>, NEW d \in Conns, ShownOn(d), WrittenOn(d)
  PROVE  Fits(d)' /\ StepFits(d)
<1>1. SameConn(d) BY DEF SameConn, connVars, clientVars
<1> QED BY <1>1, OthersFit DEF ClientInv, Fits

LEMMA TakesWrites ==
  ASSUME IInv, NEW w \in Workers, NEW op \in {"join", "leave"}, Takes(w, op), NEW d \in Conns
  PROVE  WrittenOn(d)
<1>1. /\ \A v \in Workers : v # w => down'[v] = down[v]
      /\ \A i \in DOMAIN down'[w] : \E j \in DOMAIN down[w] : down[w][j] = down'[w][i]
  BY TakesOne
<1> QED BY <1>1 DEF WrittenOn

LEMMA MemberJoinsFits ==
  ASSUME IInv, IInv', ClientInv, NEW w \in Workers, MemberJoins(w)
  PROVE  \A d \in Conns : Fits(d)' /\ StepFits(d)
<1>1. Takes(w, "join") /\ UNCHANGED <<connVars, registryVars, running, late, clientVars, crashes>>
  BY DEF MemberJoins
<1>2. PICK x \in DownMsg, c \in Conns, g \in Nat \ {0} : x = Head(down[w]) /\ c = x.who /\ g = x.gen
  BY <1>1, TakesOne
<1>3. member[w][c] = NoMember
  <2>1. RunEndsOnce(c, w, g) /\ Says(down[w], "join", c, g) BY <1>1, <1>2, TakesOne
  <2> QED BY <2>1 DEF RunEndsOnce
<1>4. ASSUME NEW d \in Conns PROVE ShownOn(d)
  <2>1. CASE up' = up /\ member' = [member EXCEPT ![w][c] = [gen |-> x.gen, to |-> x.to, phase |-> "entering", leaving |-> "no"]]
    <3>1. \A v \in Workers : member[v][d].phase \in {"shown", "in", "failed"} => member'[v][d] = member[v][d]
      BY <1>3, <2>1 DEF IInv, TypeOK, NoMember
    <3> QED BY <2>1, <3>1, PassesItself DEF ShownOn, Shows
  <2>2. CASE up' = Post(up, w, Marker("failed", c, g)) /\ member' = member
    <3>1. PICK y \in UpMsg : y = Marker("failed", c, g) /\ y.op = "failed" BY MarkerFields
    <3> QED BY <2>2, <3>1, PostShows
  <2> QED BY <1>2, <2>1, <2>2 DEF MemberJoins
<1> QED BY <1>1, <1>4, TakesWrites, WorkerFits

LEMMA SpeaksFits ==
  ASSUME IInv, IInv', ClientInv, NEW w \in Workers, NEW x \in UpMsg, x.op # "ready", up' = Post(up, w, x),
         UNCHANGED <<connVars, clientVars, down>>,
         \A d \in Conns, v \in Workers : member[v][d].phase \in {"shown", "in", "failed"} =>
           member'[v][d].phase \in {"shown", "in", "failed"} \/ (v = w /\ x = Left(d, gen[d], "disables"))
  PROVE  \A d \in Conns : Fits(d)' /\ StepFits(d)
<1> SUFFICES ASSUME NEW d \in Conns PROVE Fits(d)' /\ StepFits(d) OBVIOUS
<1>1. ShownOn(d) BY PostShows
<1>2. WrittenOn(d) BY DEF WrittenOn
<1> QED BY <1>1, <1>2, WorkerFits

LEMMA LateEntryEndsFits ==
  ASSUME IInv, IInv', ClientInv, NEW w \in Workers, NEW e \in late[w], LateEntryEnds(w, e[1], e[2])
  PROVE  \A d \in Conns : Fits(d)' /\ StepFits(d)
<1>1. UNCHANGED <<connVars, clientVars, down, member>> BY DEF LateEntryEnds
<1>2. e[1] \in Conns /\ e[2] \in Nat \ {0} BY DEF IInv, TypeOK
<1>3. PICK op \in {"joined", "failed"} : up' = Post(up, w, Marker(op, e[1], e[2]))
  BY DEF LateEntryEnds
<1>4. PICK x \in UpMsg : x = Marker(op, e[1], e[2]) /\ x.op = op BY <1>2, MarkerFields
<1>5. x.op # "ready" /\ up' = Post(up, w, x) BY <1>3, <1>4
<1> QED BY <1>1, <1>5, SpeaksFits

LEMMA DungeonSpeaksFits ==
  ASSUME IInv, IInv', ClientInv, NEW w \in Workers,
         \/ \E m \in MatchIds : RunFinishes(w, m)
         \/ \E c \in Conns, op \in {"door", "home"} : Calls(w, c, op)
  PROVE  \A d \in Conns : Fits(d)' /\ StepFits(d)
<1>1. CASE \E m \in MatchIds : RunFinishes(w, m)
  <2>1. PICK m \in MatchIds : RunFinishes(w, m) BY <1>1
  <2>2. PICK x : x = [op |-> "finished", to |-> m] OBVIOUS
  <2>3. x \in UpMsg /\ x.op # "ready" BY <2>2 DEF UpMsg
  <2>4. up' = Post(up, w, x) /\ UNCHANGED <<connVars, clientVars, down, member>>
    BY <2>1, <2>2 DEF RunFinishes, workerVars
  <2> QED BY <2>3, <2>4, SpeaksFits
<1>2. CASE \E c \in Conns, op \in {"door", "home"} : Calls(w, c, op)
  <2>1. PICK c \in Conns, op \in {"door", "home"} : Calls(w, c, op) BY <1>2
  <2>2. member[w][c] # NoMember BY <2>1 DEF Calls, NoMember
  <2>3. PICK g \in Nat \ {0} : g = member[w][c].gen BY <2>2, MemberIs
  <2>4. PICK x \in UpMsg : x = Marker(op, c, g) /\ x.op = op BY MarkerFields
  <2>5. up' = Post(up, w, x) /\ x.op # "ready" /\ UNCHANGED <<connVars, clientVars, down, member>>
    BY <2>1, <2>3, <2>4 DEF Calls, workerVars
  <2> QED BY <2>5, SpeaksFits
<1> QED BY <1>1, <1>2

LEMMA QueueDroppedFits ==
  ASSUME IInv, IInv', ClientInv, NEW w \in Workers, NEW c \in Conns, QueueDropped(w, c)
  PROVE  \A d \in Conns : Fits(d)' /\ StepFits(d)
<1>1. /\ member[w][c] # NoMember
      /\ member' = [member EXCEPT ![w][c].leaving = IF @ = "disables" THEN "dropped" ELSE @]
      /\ UNCHANGED <<connVars, clientVars, down>>
  BY DEF QueueDropped
<1>2. PICK n \in Members : n = member[w][c] /\ n # NoMember BY <1>1 DEF IInv, TypeOK
<1>3. \A v \in Workers, d \in Conns : member'[v][d].phase = member[v][d].phase
  <2>1. PICK l : l = [n EXCEPT !.leaving = IF @ = "disables" THEN "dropped" ELSE @] OBVIOUS
  <2>2. l.phase = n.phase BY <1>2, <2>1 DEF Members
  <2>3. member' = [member EXCEPT ![w][c] = l] BY <1>1, <1>2, <2>1 DEF IInv, TypeOK
  <2> QED BY <1>2, <2>2, <2>3 DEF IInv, TypeOK
<1>4. PICK x \in UpMsg : x = Marker("close", c, n.gen) /\ x.op = "close"
  <2>1. n.gen \in Nat \ {0} BY <1>2, MemberMoves
  <2> QED BY <2>1, MarkerFields
<1>5. CASE up' = up
  <2>1. \A d \in Conns : ShownOn(d) /\ WrittenOn(d)
    BY <1>1, <1>3, <1>5, PassesItself DEF ShownOn, Shows, WrittenOn
  <2> QED BY <1>1, <2>1, WorkerFits
<1>6. CASE up' = Post(up, w, x) BY <1>1, <1>3, <1>4, <1>6, SpeaksFits
<1> QED BY <1>2, <1>4, <1>5, <1>6 DEF QueueDropped

\* A member that is in another phase.
LEMMA PhaseMoves ==
  ASSUME IInv, NEW w \in Workers, NEW c \in Conns, member[w][c] # NoMember,
         NEW p \in {"entering", "shown", "in", "failed"}, member' = [member EXCEPT ![w][c].phase = p]
  PROVE  /\ member'[w][c].phase = p
         /\ \A v \in Workers, d \in Conns : v # w \/ d # c => member'[v][d] = member[v][d]
<1>1. PICK n \in Members : n = member[w][c] /\ n # NoMember BY DEF IInv, TypeOK
<1>2. PICK l : l = [n EXCEPT !.phase = p] OBVIOUS
<1>3. l.phase = p BY <1>1, <1>2, MemberMoves
<1>4. member' = [member EXCEPT ![w][c] = l] BY <1>1, <1>2 DEF IInv, TypeOK
<1> QED BY <1>3, <1>4 DEF IInv, TypeOK

LEMMA EntryReadyFits ==
  ASSUME IInv, IInv', ClientInv, NEW w \in Workers, NEW c \in Conns, EntryReady(w, c)
  PROVE  \A d \in Conns : Fits(d)' /\ StepFits(d)
<1>1. /\ member[w][c].phase = "entering" /\ member' = [member EXCEPT ![w][c].phase = "shown"]
      /\ up' = Post(up, w, Marker("ready", c, member[w][c].gen))
      /\ UNCHANGED <<connVars, down, clientVars>>
  BY DEF EntryReady
<1>2. member[w][c] # NoMember /\ Entering(w, c) BY <1>1 DEF NoMember, Entering
<1>3. PICK g \in Nat \ {0} : g = member[w][c].gen /\ g \in Nat BY <1>2, MemberIs
<1>4. /\ gen[c] = g /\ Routed(c) /\ route[c].at = w /\ EntryIsAnswered(c, w, g) /\ ~Says(up[w], "left", c, g)
  BY <1>2, <1>3, MemberIs
<1>5. job[c].phase = "loading" /\ ~Says(up[w], "answer", c, g) BY <1>2, <1>4 DEF EntryIsAnswered
<1>6. /\ member'[w][c].phase = "shown"
      /\ \A v \in Workers, d \in Conns : v # w \/ d # c => member'[v][d] = member[v][d]
  <2>1. PICK p \in {"entering", "shown", "in", "failed"} : p = "shown" OBVIOUS
  <2> QED BY <1>1, <1>2, <2>1, PhaseMoves
<1>7. PICK x \in UpMsg : /\ x = Marker("ready", c, g) /\ x.who = c /\ x.op = "ready"
                         /\ \A k, d, h : About(x, k, d, h) <=> k = "ready" /\ d = c /\ h = g
  <2>1. PICK op \in {"ready", "joined", "failed", "door", "home"} : op = "ready" OBVIOUS
  <2>2. /\ Marker(op, c, g) \in UpMsg /\ Marker(op, c, g).who = c /\ Marker(op, c, g).op = op
        /\ \A k, d, h : About(Marker(op, c, g), k, d, h) <=>
             k = (IF op \in {"joined", "failed"} THEN "answer" ELSE op) /\ d = c /\ h = g
    BY MarkerFields
  <2> QED BY <2>1, <2>2
<1>8. up' = Post(up, w, x) BY <1>1, <1>3, <1>7
<1>9. ASSUME NEW d \in Conns, d # c PROVE Fits(d)' /\ StepFits(d)
  <2>1. \A v \in Workers : Open(d) /\ v = route[d].at /\ member[v][d].phase \in {"shown", "in", "failed"} =>
           member'[v][d].phase \in {"shown", "in", "failed"} \/ (v = w /\ x = Left(d, gen[d], "disables"))
    BY <1>6, <1>9
  <2>2. x.op = "ready" => x.who # d BY <1>7, <1>9
  <2>3. ShownOn(d) BY <1>8, <2>1, <2>2, PostShows
  <2>4. WrittenOn(d) BY <1>1 DEF WrittenOn
  <2> QED BY <1>1, <2>3, <2>4, WorkerFits
<1>10. SameConn(c) /\ (Open(c)' <=> Open(c)) /\ (Routed(c)' <=> Routed(c))
  BY <1>1 DEF SameConn, connVars, clientVars, Open, Routed
<1>11. up[w] \in Seq(UpMsg) /\ up'[w] = Append(up[w], x) /\ \A v \in Workers : v # w => up'[v] = up[v]
  BY <1>8 DEF IInv, TypeOK, Post
<1>12. \A k, d, h : Says(up'[w], k, d, h) <=> Says(up[w], k, d, h) \/ About(x, k, d, h)
  BY <1>8, PostsUp DEF IInv
<1>13. TransitionFits(c)' BY <1>10 DEF ClientInv, TransitionFits, SameConn
<1>14. ShownFits(c)'
  <2> SUFFICES ASSUME Open(c) PROVE ShownByRun(c, w, g)' BY <1>4, <1>10 DEF ShownFits, SameConn
  <2>1. ReadyFirst(up[w], c, g) BY <1>4 DEF ClientInv, ShownFits, ShownByRun
  <2>2. \A d, h : ReadyFirst(up[w], d, h) /\ (About(x, "ready", d, h) => ~Says(up[w], "answer", d, h) /\ ~Says(up[w], "left", d, h))
                    => ReadyFirst(Append(up[w], x), d, h)
    BY <1>11, ReadyOnce
  <2>3. ReadyFirst(up'[w], c, g) BY <1>4, <1>5, <1>11, <2>1, <2>2
  <2> QED BY <1>5, <1>6, <1>10, <2>3 DEF ShownByRun, SameConn
<1>15. NotesFit(c)'
  <2>1. ASSUME NEW v \in Workers, NEW i \in DOMAIN up'[v], About(up'[v][i], "ready", c, up'[v][i].gen)
        PROVE  up'[v][i].gen <= gen'[c]
    <3>1. up'[v][i] \in UpMsg BY ElementOfSeq DEF IInv, TypeOK
    <3>2. PICK h \in Nat : h = up'[v][i].gen BY <2>1, <3>1, MessageFields DEF About, Kind
    <3>3. Says(up'[v], "ready", c, h) BY <2>1, <3>2 DEF Says
    <3>4. CASE h = g BY <1>4, <1>10, <3>2, <3>4 DEF SameConn
    <3>5. CASE h # g
      <4>1. Says(up[v], "ready", c, h)
        <5>1. CASE v = w BY <1>7, <1>12, <3>3, <3>5, <5>1
        <5>2. CASE v # w BY <1>11, <3>3, <5>2
        <5> QED BY <5>1, <5>2
      <4>2. PICK j \in DOMAIN up[v] : About(up[v][j], "ready", c, h) BY <4>1 DEF Says
      <4> QED BY <1>10, <3>2, <4>2 DEF ClientInv, NotesFit, SameConn, About
    <3> QED BY <3>4, <3>5
  <2> QED BY <1>1, <1>10, <2>1 DEF ClientInv, NotesFit
<1>16. StepFits(c)
  <2>1. FollowsPhases(c) BY <1>10 DEF SameConn, FollowsPhases, Moved
  <2>2. Misled(c)' => Misled(c) BY <1>10 DEF Misled, SameConn
  <2> QED BY <2>1, <2>2, PhasesFollowed DEF StepFits
<1> QED BY <1>9, <1>13, <1>14, <1>15, <1>16 DEF Fits

LEMMA EntryJoinsFits ==
  ASSUME IInv, IInv', ClientInv, NEW w \in Workers, NEW c \in Conns, EntryJoins(w, c)
  PROVE  \A d \in Conns : Fits(d)' /\ StepFits(d)
<1>1. /\ member[w][c].phase = "shown" /\ member' = [member EXCEPT ![w][c].phase = "in"]
      /\ up' = Post(up, w, Marker("joined", c, member[w][c].gen))
      /\ UNCHANGED <<connVars, down, clientVars>>
  BY DEF EntryJoins
<1>2. member[w][c] # NoMember BY <1>1 DEF NoMember
<1>3. PICK g \in Nat \ {0} : g = member[w][c].gen BY <1>2, MemberIs
<1>4. /\ member'[w][c].phase = "in"
      /\ \A v \in Workers, d \in Conns : v # w \/ d # c => member'[v][d] = member[v][d]
  <2>1. PICK p \in {"entering", "shown", "in", "failed"} : p = "in" OBVIOUS
  <2> QED BY <1>1, <1>2, <2>1, PhaseMoves
<1>5. PICK x \in UpMsg : x = Marker("joined", c, g) /\ x.op = "joined" BY MarkerFields
<1>6. up' = Post(up, w, x) /\ x.op # "ready" BY <1>1, <1>3, <1>5
<1>7. \A d \in Conns, v \in Workers : member[v][d].phase \in {"shown", "in", "failed"} =>
        member'[v][d].phase \in {"shown", "in", "failed"} \/ (v = w /\ x = Left(d, gen[d], "disables"))
  BY <1>4
<1> QED BY <1>1, <1>6, <1>7, SpeaksFits

LEMMA TwoMore ==
  ASSUME NEW X, NEW q \in Seq(X), NEW y \in X, NEW x \in X
  PROVE  Append(q, y) \in Seq(X) /\ q \o <<y, x>> = Append(Append(q, y), x)
<1>1. Append(q, y) \in Seq(X) /\ Append(q, y) = q \o <<y>> /\ <<y>> \in Seq(X) /\ <<x>> \in Seq(X)
  BY AppendProperties, AppendIsConcat
<1>2. Append(Append(q, y), x) = Append(q, y) \o <<x>> BY <1>1, AppendIsConcat
<1>3. (q \o <<y>>) \o <<x>> = q \o (<<y>> \o <<x>>) BY <1>1, ConcatAssociative
<1>4. PICK p \in Seq(X) : p = <<y>> \o <<x>> /\ Len(p) = 2 /\ p[1] = y /\ p[2] = x
  <2>1. Len(<<y>>) = 1 /\ Len(<<x>>) = 1 OBVIOUS
  <2>2. <<y>> \o <<x>> \in Seq(X) /\ Len(<<y>> \o <<x>>) = 2 BY <1>1, <2>1, ConcatProperties
  <2>3. (<<y>> \o <<x>>)[1] = y /\ (<<y>> \o <<x>>)[2] = x BY <1>1, <2>1, ConcatProperties
  <2> QED BY <2>2, <2>3
<1>5. PICK r \in Seq(X) : r = <<y, x>> /\ Len(r) = 2 /\ r[1] = y /\ r[2] = x
  <2>1. <<y, x>> \in [1 .. 2 -> X]
    <3>1. PICK f : f = [i \in 1 .. 2 |-> IF i = 1 THEN y ELSE x] OBVIOUS
    <3>2. f \in [1 .. 2 -> X] /\ f = <<y, x>> BY <3>1
    <3> QED BY <3>2
  <2>2. Len(<<y, x>>) = 2 /\ <<y, x>>[1] = y /\ <<y, x>>[2] = x OBVIOUS
  <2>3. <<y, x>> \in Seq(X) BY <2>1, SeqDef
  <2> QED BY <2>2, <2>3
<1>6. p = r
  <2>1. \A i \in 1 .. 2 : i = 1 \/ i = 2 OBVIOUS
  <2>2. Len(p) = Len(r) /\ \A i \in 1 .. Len(p) : p[i] = r[i] BY <1>4, <1>5, <2>1
  <2> QED BY <2>2, SeqEqual
<1> QED BY <1>1, <1>2, <1>3, <1>4, <1>5, <1>6

\* An entry that fails, with its world or without.
LEMMA EntryFailsFits ==
  ASSUME IInv, IInv', ClientInv, NEW w \in Workers, NEW c \in Conns, EntryFails(w, c)
  PROVE  \A d \in Conns : Fits(d)' /\ StepFits(d)
<1>1. Entering(w, c) /\ member[w][c] # NoMember BY DEF EntryFails, Entering, NoMember
<1>2. PICK g \in Nat \ {0}, to \in MatchIds : g = member[w][c].gen /\ to = member[w][c].to
  <2>1. PICK n \in Members : n = member[w][c] /\ n # NoMember BY <1>1 DEF IInv, TypeOK
  <2>2. n.gen \in Nat \ {0} /\ n.to \in MatchIds BY <2>1, MemberMoves
  <2> QED BY <2>1, <2>2
<1>3. PICK x \in UpMsg, y \in UpMsg :
        x = Marker("failed", c, g) /\ x.op = "failed" /\ y = [op |-> "matchFailed", to |-> to] /\ y.op = "matchFailed"
  <2>1. [op |-> "matchFailed", to |-> to] \in UpMsg BY DEF UpMsg
  <2> QED BY <2>1, MarkerFields
<1>4. /\ member' = [member EXCEPT ![w][c].phase = "failed"]
      /\ UNCHANGED <<connVars, down, clientVars>>
      /\ up' = Post(up, w, x) \/ up' = [up EXCEPT ![w] = @ \o <<y, x>>]
  BY <1>2, <1>3 DEF EntryFails
<1>5. /\ member'[w][c].phase = "failed"
      /\ \A v \in Workers, d \in Conns : v # w \/ d # c => member'[v][d] = member[v][d]
  <2>1. PICK p \in {"entering", "shown", "in", "failed"} : p = "failed" OBVIOUS
  <2>2. member' = [member EXCEPT ![w][c].phase = p] BY <1>4, <2>1
  <2>3. /\ member'[w][c].phase = p
        /\ \A v \in Workers, d \in Conns : v # w \/ d # c => member'[v][d] = member[v][d]
    BY <1>1, <2>2, PhaseMoves, ZenonT(60)
  <2> QED BY <2>1, <2>3
<1>6. \A d \in Conns, v \in Workers : member[v][d].phase \in {"shown", "in", "failed"} =>
        member'[v][d].phase \in {"shown", "in", "failed"}
  BY <1>5
<1>7. CASE up' = Post(up, w, x) BY <1>3, <1>4, <1>6, <1>7, SpeaksFits
<1>8. CASE up' = [up EXCEPT ![w] = @ \o <<y, x>>]
  <2>1. up[w] \in Seq(UpMsg) /\ up \in [Workers -> Seq(UpMsg)] BY DEF IInv, TypeOK
  <2>2. PICK q \in Seq(UpMsg) : q = Append(up[w], y) /\ up[w] \o <<y, x>> = Append(q, x)
    <3>1. Append(up[w], y) \in Seq(UpMsg) /\ up[w] \o <<y, x>> = Append(Append(up[w], y), x)
      BY <2>1, TwoMore
    <3> QED BY <3>1
  <2>3. up[w] \o <<y, x>> = Append(q, x) BY <2>2
  <2>4. up'[w] = Append(q, x) /\ \A v \in Workers : v # w => up'[v] = up[v] BY <1>8, <2>1, <2>3
  <2>5. ASSUME NEW d \in Conns PROVE ShownOn(d)
    <3>1. /\ Passes(up[w], Append(up[w], y), d)
          /\ \A h : TakenDown(up[w], d, h) \/ y = Left(d, h, "disables") => TakenDown(Append(up[w], y), d, h)
      BY <1>3, <2>1, AppendShows
    <3>2. /\ Passes(q, Append(q, x), d)
          /\ \A h : TakenDown(q, d, h) \/ x = Left(d, h, "disables") => TakenDown(Append(q, x), d, h)
      BY <1>3, <2>2, AppendShows
    <3>3. Passes(up[w], up'[w], d) /\ \A h : TakenDown(up[w], d, h) => TakenDown(up'[w], d, h)
      BY <2>2, <2>4, <3>1, <3>2 DEF Passes
    <3>4. ASSUME NEW v \in Workers
          PROVE  /\ Passes(up[v], up'[v], d)
                 /\ Open(d) /\ v = route[d].at /\ Shows(v, d, gen[d]) =>
                      member'[v][d].phase \in {"shown", "in", "failed"} \/ TakenDown(up'[v], d, gen[d])
      <4>1. CASE v = w BY <1>6, <3>3, <4>1 DEF Shows
      <4>2. CASE v # w BY <1>6, <2>4, <4>2, PassesItself DEF Shows
      <4> QED BY <4>1, <4>2
    <3> QED BY <3>4 DEF ShownOn
  <2>6. \A d \in Conns : WrittenOn(d) BY <1>4 DEF WrittenOn
  <2> QED BY <1>4, <2>5, <2>6, WorkerFits
<1> QED BY <1>4, <1>7, <1>8

\* A member goes: what its client holds is taken down, or there is no client any more.
LEMMA FinishesFit ==
  ASSUME IInv, IInv', ClientInv, NEW w \in Workers, NEW c \in Conns, NEW note \in {"disables", "silent"},
         member[w][c] # NoMember, Finishes(w, c, note), note = "disables" \/ ~Open(c),
         UNCHANGED <<connVars, clientVars>>, \A d \in Conns : WrittenOn(d)
  PROVE  \A d \in Conns : Fits(d)' /\ StepFits(d)
<1>1. PICK g \in Nat \ {0} : g = member[w][c].gen /\ gen[c] = g BY MemberIs
<1>2. PICK x \in UpMsg : x = Left(c, g, note) /\ x.op = "left" BY LeftFields
<1>3. up' = Post(up, w, x) /\ member' = [member EXCEPT ![w][c] = NoMember]
  BY <1>1, <1>2 DEF Finishes
<1>4. ASSUME NEW d \in Conns PROVE ShownOn(d)
  <2>1. \A v \in Workers : Open(d) /\ v = route[d].at /\ member[v][d].phase \in {"shown", "in", "failed"} =>
          member'[v][d].phase \in {"shown", "in", "failed"} \/ (v = w /\ x = Left(d, gen[d], "disables"))
    <3>1. \A v \in Workers : v # w \/ d # c => member'[v][d] = member[v][d]
      BY <1>3 DEF IInv, TypeOK
    <3>2. d = c /\ Open(d) => x = Left(d, gen[d], "disables") BY <1>1, <1>2
    <3> QED BY <3>1, <3>2
  <2> QED BY <1>2, <1>3, <2>1, PostShows
<1> QED BY <1>4, WorkerFits

LEMMA LeaveTurnFits ==
  ASSUME IInv, IInv', ClientInv, NEW w \in Workers, NEW c \in Conns, LeaveTurn(w, c)
  PROVE  \A d \in Conns : Fits(d)' /\ StepFits(d)
<1>1. member[w][c] # NoMember /\ Finishes(w, c, "disables") /\ UNCHANGED <<connVars, clientVars, down>>
  BY DEF LeaveTurn, NoMember
<1>2. \A d \in Conns : WrittenOn(d) BY <1>1 DEF WrittenOn
<1> QED BY <1>1, <1>2, FinishesFit

LEMMA MemberLeavesFits ==
  ASSUME IInv, IInv', ClientInv, NEW w \in Workers, MemberLeaves(w)
  PROVE  \A d \in Conns : Fits(d)' /\ StepFits(d)
<1>1. Takes(w, "leave") /\ UNCHANGED <<connVars, clientVars>> BY DEF MemberLeaves
<1>2. PICK x \in DownMsg, c \in Conns, g \in Nat \ {0} :
        x = Head(down[w]) /\ c = x.who /\ g = x.gen /\ x.op = "leave" /\ gen[c] = g
  BY <1>1, TakesOne
<1>3. \A d \in Conns : WrittenOn(d) BY <1>1, TakesWrites
<1>4. CASE member[w][c].gen # g
  <2>1. up' = Post(up, w, Left(c, g, "silent")) /\ member' = member
    BY <1>2, <1>4 DEF MemberLeaves
  <2>2. PICK y \in UpMsg : y = Left(c, g, "silent") /\ y.op = "left" BY LeftFields
  <2>3. \A d \in Conns : ShownOn(d) BY <2>1, <2>2, PostShows
  <2> QED BY <1>1, <1>3, <2>3, WorkerFits
<1>5. CASE member[w][c].gen = g
  <2>1. member[w][c] # NoMember BY <1>5 DEF NoMember
  <2>2. CASE x.note = "closed"
    <3>1. Finishes(w, c, "silent") BY <1>2, <1>5, <2>2 DEF MemberLeaves
    <3>2. ~Open(c)
      <4>1. down[w] \in Seq(DownMsg) /\ down[w] # <<>> BY <1>1 DEF Takes, IInv, TypeOK
      <4>2. 1 \in DOMAIN down[w] /\ x = down[w][1]
        BY <1>2, <4>1, EmptySeq, LenProperties, HeadTailProperties
      <4>3. NotesFit(c) BY DEF ClientInv
      <4> QED BY <1>2, <2>2, <4>2, <4>3 DEF NotesFit
    <3>3. PICK note \in {"disables", "silent"} : note = "silent" OBVIOUS
    <3>4. Finishes(w, c, note) /\ (note = "disables" \/ ~Open(c)) BY <3>1, <3>2, <3>3
    <3> QED BY <1>1, <1>3, <2>1, <3>4, FinishesFit
  <2>3. CASE x.note # "closed"
    <3>1. member' = [member EXCEPT ![w][c].leaving = "disables"] /\ up' = up
      BY <1>2, <1>5, <2>3 DEF MemberLeaves
    <3>2. \A v \in Workers, d \in Conns : member'[v][d].phase = member[v][d].phase
      <4>1. PICK n \in Members : n = member[w][c] /\ n # NoMember BY <2>1 DEF IInv, TypeOK
      <4>2. PICK l : l = [n EXCEPT !.leaving = "disables"] OBVIOUS
      <4>3. l.phase = n.phase BY <4>1, <4>2, MemberMoves
      <4>4. member' = [member EXCEPT ![w][c] = l] BY <3>1, <4>1, <4>2 DEF IInv, TypeOK
      <4> QED BY <4>1, <4>3, <4>4 DEF IInv, TypeOK
    <3>3. \A d \in Conns : ShownOn(d) BY <3>1, <3>2, PassesItself DEF ShownOn, Shows
    <3> QED BY <1>1, <1>3, <3>3, WorkerFits
  <2> QED BY <2>2, <2>3
<1> QED BY <1>4, <1>5

LEMMA WorkerReplacedFits ==
  ASSUME IInv, IInv', ClientInv, NEW w \in Workers, WorkerReplaced(w)
  PROVE  \A d \in Conns : Fits(d)' /\ StepFits(d)
<1>1. UNCHANGED <<connVars, clientVars, member, up, down>> BY DEF WorkerReplaced
<1>2. \A d \in Conns : ShownOn(d) /\ WrittenOn(d) BY <1>1, ShownStays DEF WrittenOn
<1> QED BY <1>1, <1>2, WorkerFits

-----------------------------------------------------------------------------
(* Together.                                                               *)

LEMMA HearsFits ==
  ASSUME IInv, IInv', ClientInv, NEW w \in Workers, MainHears(w)
  PROVE  \A d \in Conns : Fits(d)' /\ StepFits(d)
BY ReadyFits, JoinedFits, FailedFits, LeftFits, DoorFits, HomeFits, CloseArrivesFits, MatchFits
   DEF MainHears

LEMMA WorkFits ==
  ASSUME IInv, IInv', ClientInv, NEW w \in Workers, WorkerNext(w)
  PROVE  \A d \in Conns : Fits(d)' /\ StepFits(d)
<1>1. CASE MemberJoins(w) \/ MemberLeaves(w) BY <1>1, MemberJoinsFits, MemberLeavesFits
<1>2. CASE \E c \in Conns : EntryReady(w, c) \/ EntryJoins(w, c) \/ EntryFails(w, c) \/ LeaveTurn(w, c)
  BY <1>2, EntryReadyFits, EntryJoinsFits, EntryFailsFits, LeaveTurnFits
<1>3. CASE \E e \in late[w] : LateEntryEnds(w, e[1], e[2]) BY <1>3, LateEntryEndsFits
<1>4. CASE \/ \E m \in MatchIds : RunFinishes(w, m)
           \/ \E c \in Conns, op \in {"door", "home"} : Calls(w, c, op)
  BY <1>4, DungeonSpeaksFits
<1>5. CASE \E c \in Conns : QueueDropped(w, c) BY <1>5, QueueDroppedFits
<1> QED BY <1>1, <1>2, <1>3, <1>4, <1>5 DEF WorkerNext

LEMMA NothingFits ==
  ASSUME IInv, IInv', ClientInv, UNCHANGED vars PROVE \A d \in Conns : Fits(d)' /\ StepFits(d)
<1>1. UNCHANGED <<connVars, clientVars, up, down, member>> BY DEF vars, workerVars
<1>2. \A d \in Conns : ShownOn(d) /\ WrittenOn(d) BY <1>1, ShownStays DEF WrittenOn
<1> QED BY <1>1, <1>2, WorkerFits

\* Nothing but a death is counted as one.
LEMMA ConnCounts == ASSUME NEW c \in Conns, ConnNext(c) PROVE crashes' = crashes
BY DEF ConnNext, Login, Closes, SocketCloses, RequestEntry, RequestExit, AdmissionEnds, DoorAdmissionThrows,
   DoorStays, DoorLeaves, Admitted
LEMMA HearsCounts == ASSUME NEW w \in Workers, MainHears(w) PROVE crashes' = crashes
BY DEF MainHears, ReadyArrives, JoinedArrives, FailedArrives, LeftArrives, DoorArrives, HomeArrives, CloseArrives,
   MatchArrives
LEMMA WorkCounts == ASSUME NEW w \in Workers, WorkerNext(w) PROVE crashes' = crashes
BY DEF WorkerNext, MemberJoins, MemberLeaves, EntryReady, EntryJoins, EntryFails, LeaveTurn, LateEntryEnds,
   QueueDropped, RunFinishes, Calls

LEMMA StepsFit ==
  ASSUME IInv, IInv', ClientInv, [Next]_vars, ~\E w \in Workers : WorkerDies(w)
  PROVE  crashes' = crashes /\ \A d \in Conns : Fits(d)' /\ StepFits(d)
<1>1. ASSUME NEW c \in Conns, ConnNext(c)
      PROVE  crashes' = crashes /\ \A d \in Conns : Fits(d)' /\ StepFits(d)
  BY <1>1, ConnFits, ConnCounts
<1>2. ASSUME NEW w \in Workers, MainHears(w) \/ WorkerNext(w)
      PROVE  crashes' = crashes /\ \A d \in Conns : Fits(d)' /\ StepFits(d)
  BY <1>2, HearsFits, HearsCounts, WorkFits, WorkCounts
<1>3. ASSUME NEW w \in Workers, WorkerReplaced(w)
      PROVE  crashes' = crashes /\ \A d \in Conns : Fits(d)' /\ StepFits(d)
  BY <1>3, WorkerReplacedFits DEF WorkerReplaced
<1>4. ASSUME UNCHANGED vars
      PROVE  crashes' = crashes /\ \A d \in Conns : Fits(d)' /\ StepFits(d)
  BY <1>4, NothingFits DEF vars
<1> QED BY <1>1, <1>2, <1>3, <1>4 DEF Next

\* What PhasesUnlessMisled says of a step.
StepsFollow == \A c \in Conns : Misled(c) \/ Misled(c)' \/ [Conn(c)!Next]_(Conn(c)!vars)

LEMMA NextFits ==
  ASSUME IInv, ClientInv, [Next]_vars
  PROVE  ClientInv' /\ StepsFollow /\ (OnlyDeathsMislead => OnlyDeathsMislead')
<1>1. IInv' BY NextKeeps
<1>2. CASE \E w \in Workers : WorkerDies(w)
  <2>1. PICK w \in Workers : WorkerDies(w) BY <1>2
  <2>2. \A d \in Conns : Fits(d)' /\ (Misled(d) \/ Misled(d)' \/ [Conn(d)!Next]_(Conn(d)!vars))
    BY <1>1, <2>1, WorkerDiesFits
  <2>3. crashes' # 0 BY <2>1 DEF WorkerDies, IInv, TypeOK
  <2> QED BY <2>2, <2>3 DEF ClientInv, Fits, StepsFollow, OnlyDeathsMislead
<1>3. CASE ~\E w \in Workers : WorkerDies(w)
  <2>1. crashes' = crashes /\ \A d \in Conns : Fits(d)' /\ StepFits(d) BY <1>1, <1>3, StepsFit
  <2>2. ClientInv' /\ StepsFollow BY <2>1 DEF ClientInv, Fits, StepFits, StepsFollow
  <2>3. OnlyDeathsMislead => OnlyDeathsMislead' BY <2>1 DEF StepFits, OnlyDeathsMislead
  <2> QED BY <2>2, <2>3
<1> QED BY <1>2, <1>3

LEMMA InitFits ==
  ASSUME Init PROVE ClientInv /\ OnlyDeathsMislead /\ \A c \in Conns : Conn(c)!Init
<1>1. \A c \in Conns : /\ online[c] = "off" /\ job[c] = NoJob /\ exit[c] = "none" /\ route[c] = NoRoute /\ in[c] = NoMatch
                       /\ c \notin cancelled /\ c \notin shown /\ c \notin home
  BY DEF Init
<1>2. \A w \in Workers : up[w] = <<>> /\ down[w] = <<>> BY DEF Init
<1>3. \A c \in Conns : ~Open(c) /\ TransitionFits(c) /\ ShownFits(c)
  BY <1>1 DEF Open, TransitionFits, ShownFits
<1>4. \A c \in Conns : NotesFit(c) BY <1>2 DEF NotesFit
<1>5. \A c \in Conns : Conn(c)!Init BY <1>1 DEF Conn!Init, Phase, Open, InDungeon, Routed
<1> QED BY <1>3, <1>4, <1>5 DEF ClientInv, OnlyDeathsMislead, Misled

LEMMA ClientHolds == Spec => [](ClientInv /\ OnlyDeathsMislead) /\ [][StepsFollow]_vars
<1>1. Init => ClientInv /\ OnlyDeathsMislead BY InitFits
<1>2. IInv /\ (ClientInv /\ OnlyDeathsMislead) /\ [Next]_vars => (ClientInv /\ OnlyDeathsMislead)' /\ StepsFollow
  BY NextFits
<1> QED BY <1>1, <1>2, EntryHolds, PTL DEF Spec

-----------------------------------------------------------------------------
(* What a client is promised, as SessionPhases says it.                    *)

\* The connection's transition, route, exit and channels fit what its client holds and is
\* told at every moment: what the theorems below are consequences of.
THEOREM ClientInvHolds == Spec => []ClientInv
BY ClientHolds, PTL

\* Nobody who was told that it is home is let into a dungeon all the same, unless a worker has died.
THEOREM OnlyDeathsMisleadHolds == Spec => []OnlyDeathsMislead
BY ClientHolds, PTL

\* The refinement, for any number of deaths: every step of every connection is a step of
\* SessionPhases, but of one that is told that it is home and let in all the same.
THEOREM PhasesAreFollowed == Spec => PhasesUnlessMisled
<1>1. StepsFollow <=> \A c \in Conns : Misled(c) \/ Misled(c)' \/ [Conn(c)!Next]_(Conn(c)!vars)
  BY DEF StepsFollow
<1> QED BY <1>1, ClientHolds, PTL DEF PhasesUnlessMisled

\* The refinement itself: while no worker dies, every connection goes through its phases as
\* SessionPhases promises.
THEOREM ConnsAreFollowed == ASSUME MaxCrashes = 0 PROVE Spec => ConnsFollowPhases
<1>1. Init => \A c \in Conns : Conn(c)!Init BY InitFits
<1>2. IInv /\ IInv' /\ OnlyDeathsMislead /\ OnlyDeathsMislead' /\ StepsFollow
        => \A c \in Conns : [Conn(c)!Next]_(Conn(c)!vars)
  <2> SUFFICES ASSUME IInv, IInv', OnlyDeathsMislead, OnlyDeathsMislead', StepsFollow
               PROVE  \A c \in Conns : [Conn(c)!Next]_(Conn(c)!vars)
    OBVIOUS
  <2>1. crashes = 0 /\ crashes' = 0 BY DEF IInv, TypeOK
  <2> QED BY <2>1 DEF OnlyDeathsMislead, StepsFollow
<1> QED BY <1>1, <1>2, EntryHolds, ClientHolds, PTL DEF Spec, ConnsFollowPhases
=============================================================================
