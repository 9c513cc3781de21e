---------------------------- MODULE DungeonProofs ----------------------------
(***************************************************************************)
(* A dungeon and what is earned in it, for any number of members, entries, *)
(* floors and chests: the saves of RunSaves stay in turn, and an account   *)
(* is let go unwritten in one way only; who joins the world of WorldJoin is*)
(* seen by all who are there; the report of FloorEnding says what was told.*)
(***************************************************************************)
EXTENDS MCDungeon, FloorEnding, SequenceTheorems, FiniteSetTheorems, TLAPS

-----------------------------------------------------------------------------
(* The write chain, as a sequence nobody is in twice.                      *)

Who(s)   == {s[i] : i \in DOMAIN s}
Once(s)  == \A i, j \in DOMAIN s : s[i] = s[j] => i = j
Everybody == Members \cup {Retry}

\* At the end of the chain there is one more, and everybody else is where they were.
LEMMA Appended ==
  ASSUME NEW S, NEW s \in Seq(S), NEW x \in S
  PROVE  /\ Append(s, x) \in Seq(S) /\ Append(s, x) # <<>>
         /\ \A y : y \in Who(Append(s, x)) <=> y \in Who(s) \/ y = x
         /\ Once(s) /\ x \notin Who(s) => Once(Append(s, x))
         /\ Head(Append(s, x)) = IF s = <<>> THEN x ELSE Head(s)
<1> DEFINE t == Append(s, x)
<1>1. /\ t \in Seq(S) /\ t # <<>> /\ Len(t) = Len(s) + 1
      /\ \A i \in 1..Len(s) : t[i] = s[i]
      /\ t[Len(s) + 1] = x
  BY AppendProperties
<1>2. /\ DOMAIN t = 1..(Len(s) + 1) /\ DOMAIN s = 1..Len(s) /\ Len(s) \in Nat
  BY <1>1, LenProperties
<1>3. \A y : y \in Who(t) <=> y \in Who(s) \/ y = x BY <1>1, <1>2 DEF Who
<1>4. Once(s) /\ x \notin Who(s) => Once(t) BY <1>1, <1>2 DEF Who, Once
<1>5. Head(t) = IF s = <<>> THEN x ELSE Head(s) BY <1>1, <1>2, HeadTailProperties, EmptySeq
<1> QED BY <1>1, <1>3, <1>4, <1>5

\* Without its head the chain has everybody but the head.
LEMMA HeadDropped ==
  ASSUME NEW S, NEW s \in Seq(S), s # <<>>
  PROVE  /\ Tail(s) \in Seq(S) /\ Head(s) \in S /\ Head(s) \in Who(s)
         /\ Once(s) => /\ Once(Tail(s))
                       /\ \A y : y \in Who(Tail(s)) <=> y \in Who(s) /\ y # Head(s)
         /\ Tail(s) # <<>> => Head(Tail(s)) \in Who(Tail(s))
<1> DEFINE t == Tail(s)
<1>1. /\ t \in Seq(S) /\ Len(t) = Len(s) - 1 /\ Head(s) = s[1] /\ Head(s) \in S
      /\ \A i \in 1..Len(t) : t[i] = s[i + 1]
  BY HeadTailProperties
<1>2. /\ DOMAIN t = 1..(Len(s) - 1) /\ DOMAIN s = 1..Len(s) /\ Len(s) \in Nat \ {0}
  BY <1>1, LenProperties, EmptySeq
<1>3. Head(s) \in Who(s) BY <1>1, <1>2 DEF Who
<1>4. Once(s) => Once(t) BY <1>1, <1>2 DEF Once
<1>5. ASSUME Once(s), NEW y PROVE y \in Who(t) <=> y \in Who(s) /\ y # Head(s)
  <2>1. y \in Who(t) => y \in Who(s) /\ y # Head(s) BY <1>1, <1>2, <1>5 DEF Who, Once
  <2>2. ASSUME y \in Who(s), y # Head(s) PROVE y \in Who(t)
    <3>1. PICK i \in DOMAIN s : s[i] = y BY <2>2 DEF Who
    <3>2. i # 1 /\ i - 1 \in DOMAIN t BY <1>1, <1>2, <2>2, <3>1
    <3>3. t[i - 1] = y BY <1>1, <1>2, <3>1, <3>2
    <3> QED BY <3>2, <3>3 DEF Who
  <2> QED BY <2>1, <2>2
<1>6. t # <<>> => Head(t) \in Who(t)
  <2> SUFFICES ASSUME t # <<>> PROVE Head(t) \in Who(t) OBVIOUS
  <2>1. Len(t) \in Nat \ {0} /\ Head(t) = t[1] BY <1>1, HeadTailProperties, EmptySeq
  <2>2. 1 \in DOMAIN t BY <1>1, <1>2, <2>1
  <2> QED BY <2>1, <2>2 DEF Who
<1> QED BY <1>1, <1>3, <1>4, <1>5, <1>6

\* What the actions append, one at a time.
LEMMA Joined ==
  ASSUME NEW S, NEW s \in Seq(S), NEW x \in S, NEW y \in S
  PROVE  /\ s \o <<>> = s /\ s \o <<x>> = Append(s, x)
         /\ s \o (<<>> \o <<>>) = s /\ s \o (<<>> \o <<x>>) = Append(s, x)
         /\ s \o (<<x>> \o <<>>) = Append(s, x)
         /\ s \o (<<x>> \o <<y>>) = Append(Append(s, x), y)
OBVIOUS

-----------------------------------------------------------------------------
(* Two things the actions are made of.                                     *)

\* A save joins the member's others, and a change it carries is followed by it.
LEMMA QueuedStep ==
  ASSUME TypeOK, SavesInv, NEW m \in Members, SaveQueued(m),
         live' \in Nat, stored' = stored, UNCHANGED retryVars, Held'
  PROVE  /\ queued' \in [Members -> Nat] /\ writes' \in Seq(Everybody) /\ snap' \in Nat
         /\ queued'[m] > 0 /\ SavesInv'
<1>1. /\ queued \in [Members -> Nat] /\ writes \in Seq(Everybody)
      /\ snap \in Nat /\ m # Retry /\ m \in Everybody
  BY SavesAssumption DEF TypeOK, Everybody
<1>2. /\ queued' \in [Members -> Nat] /\ queued'[m] = queued[m] + 1
      /\ \A x \in Members : x # m => queued'[x] = queued[x]
  BY <1>1 DEF SaveQueued
<1>3. /\ \A x \in Members : queued[x] > 0 <=> x \in Who(writes)
      /\ retry = "trying" <=> Retry \in Who(writes)
      /\ Once(writes)
      /\ written => retry = "trying"
  BY DEF SavesInv, EverySaveIsInTurn, InChain, Who, Once
<1>4. /\ writes' \in Seq(Everybody) /\ snap' \in Nat /\ writes' # <<>>
      /\ \A x \in Everybody : x \in Who(writes') <=> x \in Who(writes) \/ x = m
      /\ Once(writes')
      /\ writes # <<>> => Head(writes') = Head(writes) /\ snap' = snap
      /\ writes = <<>> => snap' = live'
  <2>1. CASE queued[m] = 0
    <3>1. /\ writes' = Append(writes, m)
          /\ snap' = IF writes = <<>> THEN live' ELSE snap
      BY <2>1 DEF SaveQueued, Chained
    <3>2. m \notin Who(writes) BY <1>3, <2>1
    <3>3. /\ writes' \in Seq(Everybody) /\ writes' # <<>>
          /\ \A y : y \in Who(writes') <=> y \in Who(writes) \/ y = m
          /\ Once(writes')
          /\ Head(writes') = IF writes = <<>> THEN m ELSE Head(writes)
      BY <1>1, <1>3, <3>1, <3>2, Appended
    <3>4. snap' \in Nat BY <1>1, <3>1
    <3>5. \A x \in Everybody : x \in Who(writes') <=> x \in Who(writes) \/ x = m BY <3>3
    <3> QED BY <3>1, <3>3, <3>4, <3>5
  <2>2. CASE queued[m] # 0
    <3>1. writes' = writes /\ snap' = snap BY <2>2 DEF SaveQueued
    <3>2. m \in Who(writes) BY <1>1, <1>3, <2>2
    <3>3. writes # <<>> BY <3>2 DEF Who
    <3>4. \A x \in Everybody : x \in Who(writes') <=> x \in Who(writes) \/ x = m BY <3>1, <3>2
    <3> QED BY <1>1, <1>3, <3>1, <3>3, <3>4
  <2> QED BY <2>1, <2>2
<1>5. \A x \in Members : queued'[x] > 0 <=> x \in Who(writes')
  BY <1>1, <1>2, <1>3, <1>4 DEF Everybody
<1>6. EverySaveIsInTurn'
  <2>1. retry' = "trying" <=> Retry \in Who(writes')
    BY <1>1, <1>3, <1>4 DEF Everybody, retryVars
  <2>2. written' => retry' = "trying" BY DEF SavesInv, EverySaveIsInTurn, retryVars
  <2> QED BY <1>4, <1>5, <2>1, <2>2 DEF EverySaveIsInTurn, InChain, Who, Once
<1>7. writes # <<>> => SaveFollows'
  <2> SUFFICES ASSUME writes # <<>> PROVE SaveFollows' OBVIOUS
  <2>1. CASE queued[m] = 0
    <3>1. Head(writes) # m BY <1>1, <1>3, <2>1, HeadDropped
    <3> QED BY <1>2, <1>4, <2>1, <3>1 DEF SaveFollows
  <2>2. CASE queued[m] # 0 BY <1>1, <1>2, <2>2 DEF SaveFollows
  <2> QED BY <2>1, <2>2
<1>8. queued'[m] > 0 BY <1>1, <1>2
<1>9. InFlight(queued, retry)' /\ \E x \in Members : queued'[x] > 0 BY <1>8 DEF InFlight
<1> QED BY <1>2, <1>4, <1>6, <1>7, <1>8, <1>9 DEF SavesInv

\* A save of a member has ended; a retry that begins at once goes into
\* the chain before the member's next.
LEMMA EndStep ==
  ASSUME TypeOK, SavesInv, NEW m \in Members, writes # <<>>, Head(writes) = m, SaveEnds(m),
         NEW begins \in BOOLEAN, begins => retry # "trying",
         NextTurn((IF begins THEN <<Retry>> ELSE <<>>) \o NextOf(m))
  PROVE  /\ queued' \in [Members -> Nat] /\ writes' \in Seq(Everybody)
         /\ live' \in Nat /\ snap' \in Nat /\ queued[m] > 0
         /\ \A x \in Members : queued'[x] > 0 <=> InChain(x)'
         /\ InChain(Retry)' <=> InChain(Retry) \/ begins
         /\ \A i, j \in DOMAIN writes' : writes'[i] = writes'[j] => i = j
         /\ writes' # <<>> => (snap = live \/ SaveFollows)'
         /\ snap = live' \/ \E x \in Members : queued'[x] > 0
<1>1. /\ queued \in [Members -> Nat] /\ writes \in Seq(Everybody) /\ live \in Nat
      /\ m # Retry /\ m \in Everybody /\ Retry \in Everybody
  BY SavesAssumption DEF TypeOK, Everybody
<1>2. /\ \A x \in Members : queued[x] > 0 <=> x \in Who(writes)
      /\ retry = "trying" <=> Retry \in Who(writes)
      /\ Once(writes)
  BY DEF SavesInv, EverySaveIsInTurn, InChain, Who, Once
<1> DEFINE t == Tail(writes)
<1>3. /\ t \in Seq(Everybody) /\ Once(t) /\ m \in Who(writes)
      /\ \A y : y \in Who(t) <=> y \in Who(writes) /\ y # m
      /\ t # <<>> => Head(t) \in Who(t)
  BY <1>1, <1>2, HeadDropped
<1>4. queued[m] > 0 BY <1>2, <1>3
<1>5. /\ queued' \in [Members -> Nat] /\ queued'[m] = queued[m] - 1
      /\ \A x \in Members : x # m => queued'[x] = queued[x]
  BY <1>1, <1>4 DEF SaveEnds
<1>6. live' \in Nat /\ (live' = live \/ queued[m] = 2) BY <1>1 DEF SaveEnds
<1>7. /\ writes' = t \o ((IF begins THEN <<Retry>> ELSE <<>>) \o NextOf(m))
      /\ snap' = IF t = <<>> THEN live' ELSE live
  BY DEF NextTurn
<1> HIDE DEF t
<1> DEFINE Follows(y) ==
      \/ y \in Who(writes) /\ y # m
      \/ y = Retry /\ begins
      \/ y = m /\ queued[m] > 1
<1>8. /\ writes' \in Seq(Everybody) /\ Once(writes')
      /\ \A y \in Everybody : y \in Who(writes') <=> Follows(y)
      /\ t # <<>> => Head(writes') = Head(t)
  <2> DEFINE u == IF begins THEN Append(t, Retry) ELSE t
  <2>1. begins => Retry \notin Who(t) BY <1>2, <1>3
  <2>2. /\ u \in Seq(Everybody) /\ Once(u)
        /\ \A y : y \in Who(u) <=> y \in Who(t) \/ (y = Retry /\ begins)
        /\ t # <<>> => u # <<>> /\ Head(u) = Head(t)
    <3>1. CASE begins
      <4>1. u = Append(t, Retry) BY <3>1
      <4> HIDE DEF u
      <4>2. /\ u \in Seq(Everybody) /\ u # <<>> /\ Once(u)
            /\ \A y : y \in Who(u) <=> y \in Who(t) \/ y = Retry
            /\ Head(u) = IF t = <<>> THEN Retry ELSE Head(t)
        BY <1>1, <1>3, <2>1, <3>1, <4>1, Appended
      <4>3. \A y : y \in Who(u) <=> y \in Who(t) \/ (y = Retry /\ begins) BY <3>1, <4>2
      <4> QED BY <4>2, <4>3
    <3>2. CASE ~begins BY <1>3, <3>2
    <3> QED BY <3>1, <3>2
  <2>3. writes' = IF queued[m] > 1 THEN Append(u, m) ELSE u
    <3>1. /\ t \o (<<>> \o <<>>) = t /\ t \o (<<>> \o <<m>>) = Append(t, m)
          /\ t \o (<<Retry>> \o <<>>) = Append(t, Retry)
          /\ t \o (<<Retry>> \o <<m>>) = Append(Append(t, Retry), m)
      BY <1>1, <1>3, Joined
    <3>2. writes' = t \o ((IF begins THEN <<Retry>> ELSE <<>>)
                        \o (IF queued[m] > 1 THEN <<m>> ELSE <<>>))
      BY <1>7 DEF NextOf
    <3>3. CASE begins
      <4>1. CASE queued[m] > 1 BY <3>1, <3>2, <3>3, <4>1, Zenon
      <4>2. CASE ~(queued[m] > 1) BY <3>1, <3>2, <3>3, <4>2, Zenon
      <4> QED BY <4>1, <4>2
    <3>4. CASE ~begins
      <4>1. CASE queued[m] > 1 BY <3>1, <3>2, <3>4, <4>1, Zenon
      <4>2. CASE ~(queued[m] > 1) BY <3>1, <3>2, <3>4, <4>2, Zenon
      <4> QED BY <4>1, <4>2
    <3> QED BY <3>3, <3>4
  <2> HIDE DEF u
  <2>4. m \notin Who(u) BY <1>1, <1>3, <2>2
  <2>5. CASE queued[m] > 1
    <3>1. writes' = Append(u, m) BY <2>3, <2>5
    <3>2. /\ writes' \in Seq(Everybody) /\ Once(writes')
          /\ \A y : y \in Who(writes') <=> y \in Who(u) \/ y = m
          /\ Head(writes') = IF u = <<>> THEN m ELSE Head(u)
      BY <1>1, <2>2, <2>4, <3>1, Appended
    <3>3. \A y \in Everybody : y \in Who(writes') <=> Follows(y) BY <1>3, <2>2, <2>5, <3>2
    <3> QED BY <2>2, <3>2, <3>3
  <2>6. CASE ~(queued[m] > 1)
    <3>1. writes' = u BY <2>3, <2>6
    <3>2. \A y \in Everybody : y \in Who(writes') <=> Follows(y) BY <1>3, <2>2, <2>6, <3>1
    <3> QED BY <2>2, <3>1, <3>2
  <2> QED BY <2>5, <2>6
<1>9. ASSUME NEW x \in Members PROVE queued'[x] > 0 <=> x \in Who(writes')
  <2>1. /\ x \in Everybody /\ x # Retry /\ queued[x] \in Nat /\ queued[m] \in Nat
        /\ queued[x] > 0 <=> x \in Who(writes)
    BY <1>1, <1>2, SavesAssumption DEF Everybody
  <2>2. x \in Who(writes') <=> (x \in Who(writes) /\ x # m) \/ (x = m /\ queued[m] > 1)
    BY <1>8, <2>1
  <2>3. CASE x = m BY <1>5, <2>1, <2>2, <2>3
  <2>4. CASE x # m BY <1>5, <2>1, <2>2, <2>4
  <2> QED BY <2>3, <2>4
<1>10. Retry \in Who(writes') <=> Retry \in Who(writes) \/ begins
  <2>1. Retry \in Who(writes') <=> Follows(Retry) BY <1>1, <1>8
  <2> QED BY <1>1, <2>1
<1>11. writes' # <<>> => snap' = live' \/ SaveFollows'
  <2> SUFFICES ASSUME snap' # live' PROVE SaveFollows' OBVIOUS
  <2>1. t # <<>> /\ live' # live BY <1>7
  <2>2. queued[m] = 2 BY <1>6, <2>1
  <2>3. Head(writes') # m BY <1>3, <1>8, <2>1
  <2> QED BY <1>1, <1>5, <2>2, <2>3 DEF SaveFollows
<1>12. snap = live' \/ \E x \in Members : queued'[x] > 0
  <2>1. CASE live' # live BY <1>1, <1>5, <1>6, <2>1
  <2>2. CASE snap = live BY <2>1, <2>2
  <2>3. CASE SaveFollows
    <3>1. PICK x \in Members : queued[x] > (IF Head(writes) = x THEN 1 ELSE 0)
      BY <2>3 DEF SaveFollows
    <3>2. queued'[x] > 0 BY <1>1, <1>5, <3>1
    <3> QED BY <3>2
  <2> QED BY <2>1, <2>2, <2>3 DEF SavesInv
<1>13. snap' \in Nat BY <1>1, <1>6, <1>7
<1> QED BY <1>4, <1>5, <1>6, <1>8, <1>9, <1>10, <1>11, <1>12, <1>13 DEF InChain, Who, Once

\* The retry joins the write chain.
LEMMA RetryStep ==
  ASSUME TypeOK, SavesInv, retry = "waiting", retry' = "trying", Chained(Retry, live),
         UNCHANGED <<memberVars, live, stored, written, gaveUp, overtaken>>
  PROVE  /\ writes' \in Seq(Everybody) /\ snap' \in Nat /\ SavesInv'
<1>1. /\ writes \in Seq(Everybody) /\ snap \in Nat /\ live \in Nat /\ Retry \in Everybody
      /\ \A x \in Members : x \in Everybody /\ x # Retry
  BY SavesAssumption DEF TypeOK, Everybody
<1>2. /\ \A x \in Members : queued[x] > 0 <=> x \in Who(writes)
      /\ Retry \notin Who(writes)
      /\ Once(writes)
      /\ ~written
  BY DEF SavesInv, EverySaveIsInTurn, InChain, Who, Once
<1>3. /\ writes' = Append(writes, Retry)
      /\ snap' = IF writes = <<>> THEN live ELSE snap
  BY DEF Chained
<1>4. /\ writes' \in Seq(Everybody) /\ writes' # <<>>
      /\ \A y : y \in Who(writes') <=> y \in Who(writes) \/ y = Retry
      /\ Once(writes')
      /\ Head(writes') = IF writes = <<>> THEN Retry ELSE Head(writes)
  BY <1>1, <1>2, <1>3, Appended
<1>5. snap' \in Nat BY <1>1, <1>3
<1>6. EverySaveIsInTurn'
  <2>1. \A x \in Members : queued'[x] > 0 <=> x \in Who(writes')
    BY <1>1, <1>2, <1>4 DEF memberVars
  <2>2. retry' = "trying" /\ Retry \in Who(writes') /\ ~written' BY <1>2, <1>4
  <2> QED BY <1>4, <2>1, <2>2 DEF EverySaveIsInTurn, InChain, Who, Once
<1>7. InFlight(queued, retry)' /\ Held' BY DEF InFlight, SavesInv, Held, memberVars
<1>8. snap' = live' \/ SaveFollows'
  <2>1. CASE writes = <<>> BY <1>3, <2>1
  <2>2. CASE writes # <<>>
    <3>1. snap' = snap /\ Head(writes') = Head(writes) /\ queued' = queued
      BY <1>3, <1>4, <2>2 DEF memberVars
    <3> QED BY <2>2, <3>1 DEF SavesInv, SaveFollows
  <2> QED BY <2>1, <2>2
<1> QED BY <1>2, <1>4, <1>5, <1>6, <1>7, <1>8 DEF SavesInv

\* Nothing of what is to be saved, or of how, has changed.
LEMMA IdleStep ==
  ASSUME SavesInv, UNCHANGED <<queued, live, stored, writes, snap, retryVars>>, Held => Held'
  PROVE  SavesInv'
BY DEF SavesInv, EverySaveIsInTurn, InChain, InFlight, LostOrStored, SaveFollows, retryVars

\* Those who have left let go only when nothing is on its way.
LEMMA LettingGo ==
  ASSUME NEW mem \in [Members -> {"new", "in", "leaving", "gone"}], NEW q, NEW r
  PROVE  /\ LetGo(mem, q, r) \in [Members -> {"new", "in", "leaving", "gone"}]
         /\ InFlight(q, r) => LetGo(mem, q, r) = mem
<1>1. LetGo(mem, q, r) \in [Members -> {"new", "in", "leaving", "gone"}] BY DEF LetGo
<1>2. ASSUME InFlight(q, r) PROVE LetGo(mem, q, r) = mem
  <2> DEFINE f == LetGo(mem, q, r)
  <2>1. f = [x \in Members |-> mem[x]] BY <1>2 DEF LetGo
  <2> QED BY <2>1
<1> QED BY <1>1, <1>2

-----------------------------------------------------------------------------
(* The actions, one lemma each.                                            *)

Inv == TypeOK /\ SavesInv

LEMMA EntersInv == ASSUME Inv, NEW m \in Members, Enters(m) PROVE Inv'
<1>1. member' \in [Members -> {"new", "in", "leaving", "gone"}] /\ Held'
  BY DEF Inv, TypeOK, Enters, Held
<1>2. TypeOK' BY <1>1 DEF Inv, TypeOK, Enters, retryVars
<1>3. CASE Held
  <2>1. UNCHANGED <<queued, live, stored, writes, snap, retryVars>> BY <1>3 DEF Enters
  <2> QED BY <1>1, <1>2, <2>1, IdleStep DEF Inv
<1>4. CASE ~Held
  <2>1. ~InFlight(queued, retry) /\ LostOrStored BY <1>4 DEF Inv, SavesInv
  <2>2. writes = <<>>
    <3>1. writes \in Seq(Everybody) /\ \A y : y \in Everybody <=> y \in Members \/ y = Retry
      BY DEF Inv, TypeOK, Everybody
    <3>2. \A y \in Everybody : y \notin Who(writes)
      <4>1. \A x \in Members : queued[x] > 0 <=> x \in Who(writes)
        BY DEF Inv, SavesInv, EverySaveIsInTurn, InChain, Who
      <4>2. Retry \notin Who(writes)
        BY <2>1 DEF Inv, SavesInv, EverySaveIsInTurn, InChain, Who, InFlight
      <4> QED BY <2>1, <3>1, <4>1, <4>2 DEF InFlight
    <3> QED BY <3>1, <3>2, HeadDropped
  <2>3. EverySaveIsInTurn' /\ ~written'
    BY <2>1 DEF Inv, SavesInv, EverySaveIsInTurn, InChain, Enters, retryVars, InFlight
  <2>4. LostOrStored' /\ writes' = <<>> BY <1>4, <2>1, <2>2 DEF Enters, LostOrStored, retryVars
  <2> QED BY <1>1, <1>2, <2>3, <2>4 DEF Inv, SavesInv
<1> QED BY <1>2, <1>3, <1>4 DEF Inv

LEMMA SavesStepInv == ASSUME Inv, NEW m \in Members, Saves(m) PROVE Inv'
<1>1. /\ SaveQueued(m) /\ live' \in Nat /\ Held'
      /\ UNCHANGED <<member, settled, stored, healthy, retryVars, closing>>
  BY DEF Inv, TypeOK, Saves, Held
<1>2. queued' \in [Members -> Nat] /\ writes' \in Seq(Everybody) /\ snap' \in Nat /\ SavesInv'
  BY <1>1, QueuedStep DEF Inv
<1> QED BY <1>1, <1>2 DEF Inv, TypeOK, retryVars, Everybody

\* A settlement: saved as any other change, and nothing if it is there already.
LEMMA SettlesStep ==
  ASSUME Inv, NEW m \in Members, Settles(m), UNCHANGED <<stored, healthy, retryVars, closing>>,
         Held',
         member' \in [Members -> {"new", "in", "leaving", "gone"}]
  PROVE  Inv'
<1>1. settled' \subseteq Members BY DEF Inv, TypeOK, Settles
<1>2. CASE m \in settled
  <2>1. UNCHANGED <<live, queued, writes, snap>> BY <1>2 DEF Settles
  <2>2. SavesInv' BY <2>1, IdleStep DEF Inv
  <2> QED BY <1>1, <2>1, <2>2 DEF Inv, TypeOK, retryVars
<1>3. CASE m \notin settled
  <2>1. SaveQueued(m) /\ live' \in Nat BY <1>3 DEF Settles, Inv, TypeOK
  <2>2. queued' \in [Members -> Nat] /\ writes' \in Seq(Everybody) /\ snap' \in Nat /\ SavesInv'
    BY <2>1, QueuedStep DEF Inv
  <2> QED BY <1>1, <2>1, <2>2 DEF Inv, TypeOK, retryVars, Everybody
<1> QED BY <1>2, <1>3

LEMMA ReportsInv == ASSUME Inv, NEW m \in Members, Reports(m) PROVE Inv'
<1>1. member' \in [Members -> {"new", "in", "leaving", "gone"}] /\ Held'
  BY DEF Inv, TypeOK, Reports, Held
<1> QED BY <1>1, SettlesStep DEF Reports

LEMMA StorageTurnsInv == ASSUME Inv, StorageTurns PROVE Inv'
<1>1. SavesInv' BY IdleStep DEF Inv, StorageTurns, Held, memberVars
<1> QED BY <1>1 DEF Inv, TypeOK, StorageTurns, memberVars, retryVars

LEMMA RetryFiresInv == ASSUME Inv, RetryFires PROVE Inv'
<1>1. writes' \in Seq(Everybody) /\ snap' \in Nat /\ SavesInv' BY RetryStep DEF Inv, RetryFires
<1> QED BY <1>1 DEF Inv, TypeOK, RetryFires, memberVars, Everybody

LEMMA FinishRunSavesInv == ASSUME Inv, FinishRunSaves PROVE Inv'
<1>1. CASE retry = "waiting"
  <2>1. writes' \in Seq(Everybody) /\ snap' \in Nat /\ SavesInv'
    BY <1>1, RetryStep DEF Inv, FinishRunSaves
  <2> QED BY <1>1, <2>1 DEF Inv, TypeOK, FinishRunSaves, memberVars, Everybody
<1>2. CASE retry # "waiting"
  <2>1. UNCHANGED <<queued, live, stored, writes, snap, retryVars>> /\ (Held => Held')
    BY <1>2 DEF FinishRunSaves, memberVars, retryVars, Held
  <2>2. SavesInv' BY <2>1, IdleStep DEF Inv
  <2> QED BY <2>1, <2>2 DEF Inv, TypeOK, FinishRunSaves, memberVars, retryVars
<1> QED BY <1>1, <1>2

LEMMA LeavesInv == ASSUME Inv, NEW m \in Members, Leaves(m) PROVE Inv'
<1> DEFINE mem == [member EXCEPT ![m] = "leaving"]
<1>1. mem \in [Members -> {"new", "in", "leaving", "gone"}] /\ mem[m] = "leaving"
  BY DEF Inv, TypeOK
<1>2. /\ Settles(m) /\ UNCHANGED <<stored, healthy, retryVars, closing>>
      /\ member' = LetGo(mem, queued', retry)
  BY DEF Leaves
<1> HIDE DEF mem
<1>3. /\ member' \in [Members -> {"new", "in", "leaving", "gone"}]
      /\ InFlight(queued', retry) => member' = mem
  BY <1>1, <1>2, LettingGo
<1>4. CASE InFlight(queued', retry)
  <2>1. Held' BY <1>1, <1>3, <1>4 DEF Held
  <2> QED BY <1>2, <1>3, <2>1, SettlesStep
<1>5. CASE ~InFlight(queued', retry)
  <2>1. queued \in [Members -> Nat] BY DEF Inv, TypeOK
  <2>2. m \in settled BY <1>2, <1>5, <2>1 DEF Settles, SaveQueued, InFlight
  <2>3. UNCHANGED <<settled, queued, live, stored, writes, snap, retryVars, closing, healthy>>
    BY <1>2, <2>2 DEF Settles
  <2>4. ~InFlight(queued, retry) /\ ~InFlight(queued', retry') BY <1>5, <2>3 DEF retryVars
  <2>5. SavesInv'
    BY <2>3, <2>4
    DEF Inv, SavesInv, EverySaveIsInTurn, InChain, InFlight, LostOrStored, SaveFollows, retryVars
  <2> QED BY <1>3, <2>3, <2>5 DEF Inv, TypeOK, retryVars
<1> QED BY <1>4, <1>5

LEMMA SaveLandsInv == ASSUME Inv, NEW m \in Members, SaveLands(m) PROVE Inv'
<1>1. /\ writes # <<>> /\ Head(writes) = m /\ SaveEnds(m) /\ NextTurn(NextOf(m))
      /\ stored' = snap
      /\ UNCHANGED <<settled, healthy, closing, gaveUp, overtaken>>
  BY DEF SaveLands, Lands
<1>2. NextTurn((IF FALSE THEN <<Retry>> ELSE <<>>) \o NextOf(m))
  <2>1. <<>> \o NextOf(m) = NextOf(m) BY DEF NextOf
  <2> QED BY <1>1, <2>1
<1>3. /\ queued' \in [Members -> Nat] /\ writes' \in Seq(Everybody)
      /\ live' \in Nat /\ snap' \in Nat /\ queued[m] > 0
      /\ \A x \in Members : queued'[x] > 0 <=> InChain(x)'
      /\ InChain(Retry)' <=> InChain(Retry)
      /\ \A i, j \in DOMAIN writes' : writes'[i] = writes'[j] => i = j
      /\ writes' # <<>> => (snap = live \/ SaveFollows)'
      /\ snap = live' \/ \E x \in Members : queued'[x] > 0
  BY <1>1, <1>2, EndStep DEF Inv
<1>4. /\ retry' = IF retry = "waiting" THEN "none" ELSE retry
      /\ written' = (retry = "trying")
      /\ member' = LetGo(member, queued', retry')
  BY DEF SaveLands
<1>5. member' \in [Members -> {"new", "in", "leaving", "gone"}]
  BY <1>4, LettingGo DEF Inv, TypeOK
<1>6. EverySaveIsInTurn' BY <1>3, <1>4 DEF Inv, SavesInv, EverySaveIsInTurn
<1>7. LostOrStored' \/ \E x \in Members : queued'[x] > 0 BY <1>1, <1>3 DEF LostOrStored
<1>8. InFlight(queued, retry)' => Held'
  <2>1. Held BY <1>3 DEF Inv, SavesInv, InFlight
  <2>2. InFlight(queued', retry') => member' = member BY <1>4, LettingGo DEF Inv, TypeOK
  <2> QED BY <2>1, <2>2 DEF Held
<1>9. InFlight(queued, retry)' \/ LostOrStored' BY <1>7 DEF InFlight
<1>10. TypeOK' BY <1>1, <1>3, <1>4, <1>5 DEF Inv, TypeOK, Everybody
<1> QED BY <1>3, <1>6, <1>7, <1>8, <1>9, <1>10 DEF Inv, SavesInv

LEMMA SaveFailsInv == ASSUME Inv, NEW m \in Members, SaveFails(m) PROVE Inv'
<1> DEFINE begins == retry = "none" /\ closing
<1>1. /\ writes # <<>> /\ Head(writes) = m /\ SaveEnds(m) /\ stored' \in {stored, snap}
      /\ NextTurn((IF begins THEN <<Retry>> ELSE <<>>) \o NextOf(m))
      /\ retry' = IF begins THEN "trying" ELSE IF retry = "none" THEN "waiting" ELSE retry
      /\ overtaken' = (overtaken \/ (retry # "none" /\ written))
      /\ UNCHANGED <<member, settled, healthy, closing, written, gaveUp>>
  BY DEF SaveFails, Lands
<1>2. begins \in BOOLEAN /\ (begins => retry # "trying") OBVIOUS
<1>3. /\ queued' \in [Members -> Nat] /\ writes' \in Seq(Everybody)
      /\ live' \in Nat /\ snap' \in Nat /\ queued[m] > 0
      /\ \A x \in Members : queued'[x] > 0 <=> InChain(x)'
      /\ InChain(Retry)' <=> InChain(Retry) \/ begins
      /\ \A i, j \in DOMAIN writes' : writes'[i] = writes'[j] => i = j
      /\ writes' # <<>> => (snap = live \/ SaveFollows)'
  <2> HIDE DEF begins
  <2> QED BY <1>1, <1>2, EndStep DEF Inv
<1>4. retry' # "none" /\ (retry' = "trying" <=> retry = "trying" \/ begins) BY <1>1
<1>5. EverySaveIsInTurn' BY <1>1, <1>3, <1>4 DEF Inv, SavesInv, EverySaveIsInTurn
<1>6. InFlight(queued, retry)' /\ Held'
  <2>1. Held BY <1>3 DEF Inv, SavesInv, InFlight
  <2> QED BY <1>1, <1>4, <2>1 DEF InFlight, Held
<1>7. written' => LostOrStored'
  <2> SUFFICES ASSUME written' PROVE overtaken' BY DEF LostOrStored
  <2>1. written /\ retry = "trying" BY <1>1 DEF Inv, SavesInv, EverySaveIsInTurn
  <2> QED BY <1>1, <2>1
<1>8. TypeOK' BY <1>1, <1>3 DEF Inv, TypeOK, Everybody
<1> QED BY <1>3, <1>5, <1>6, <1>7, <1>8 DEF Inv, SavesInv

LEMMA RetryEndsInv == ASSUME Inv, RetryEnds PROVE Inv'
<1>1. /\ writes # <<>> /\ Head(writes) = Retry /\ NextTurn(<<>>)
      /\ stored' \in IF healthy THEN {snap} ELSE {stored, snap}
      /\ retry' = IF healthy \/ written \/ closing THEN "none" ELSE "waiting"
      /\ gaveUp' = (gaveUp \/ (~healthy /\ closing))
      /\ written' = FALSE
      /\ member' = LetGo(member, queued, retry')
      /\ UNCHANGED <<settled, queued, live, healthy, closing, overtaken>>
  BY DEF RetryEnds, Lands
<1>2. /\ writes \in Seq(Everybody) /\ Retry \in Everybody
      /\ \A x \in Members : x \in Everybody /\ x # Retry
  BY SavesAssumption DEF Inv, TypeOK, Everybody
<1>3. /\ \A x \in Members : queued[x] > 0 <=> x \in Who(writes)
      /\ retry = "trying" <=> Retry \in Who(writes)
      /\ Once(writes)
  BY DEF Inv, SavesInv, EverySaveIsInTurn, InChain, Who, Once
<1>4. /\ Tail(writes) \in Seq(Everybody) /\ Once(Tail(writes)) /\ Retry \in Who(writes)
      /\ \A y : y \in Who(Tail(writes)) <=> y \in Who(writes) /\ y # Retry
  BY <1>1, <1>2, <1>3, HeadDropped
<1>5. writes' = Tail(writes) /\ snap' = live' /\ live' = live
  <2>1. Tail(writes) \o <<>> = Tail(writes) BY <1>4
  <2> QED BY <1>1, <2>1 DEF NextTurn
<1>6. EverySaveIsInTurn'
  <2>1. \A x \in Members : queued'[x] > 0 <=> x \in Who(writes') BY <1>1, <1>2, <1>3, <1>4, <1>5
  <2>2. retry' # "trying" /\ Retry \notin Who(writes') /\ ~written' BY <1>1, <1>4, <1>5
  <2>3. Once(writes') BY <1>4, <1>5
  <2> QED BY <2>1, <2>2, <2>3 DEF EverySaveIsInTurn, InChain, Who, Once
<1>7. InFlight(queued, retry)' \/ LostOrStored'
  <2> SUFFICES ASSUME ~InFlight(queued, retry)' PROVE LostOrStored' OBVIOUS
  <2>1. \A x \in Members : ~(queued[x] > 0) BY <1>1 DEF InFlight
  <2>2. healthy \/ written \/ closing BY <1>1 DEF InFlight
  <2>3. snap = live
    <3>1. queued \in [Members -> Nat] BY DEF Inv, TypeOK
    <3> QED BY <1>1, <2>1, <3>1 DEF Inv, SavesInv, SaveFollows
  <2>4. CASE healthy BY <1>1, <1>5, <2>3, <2>4 DEF LostOrStored
  <2>5. CASE written BY <1>1, <1>5, <2>1, <2>3, <2>5 DEF Inv, SavesInv, LostOrStored
  <2>6. CASE ~healthy /\ closing BY <1>1, <2>6 DEF LostOrStored
  <2> QED BY <2>2, <2>4, <2>5, <2>6
<1>8. InFlight(queued, retry)' => Held'
  <2>1. Held BY <1>3, <1>4 DEF Inv, SavesInv, InFlight
  <2>2. InFlight(queued, retry') => member' = member BY <1>1, LettingGo DEF Inv, TypeOK
  <2> QED BY <1>1, <2>1, <2>2 DEF Held
<1>9. member' \in [Members -> {"new", "in", "leaving", "gone"}]
  BY <1>1, LettingGo DEF Inv, TypeOK
<1>10. TypeOK' BY <1>1, <1>4, <1>5, <1>9 DEF Inv, TypeOK, Everybody
<1> QED BY <1>1, <1>5, <1>6, <1>7, <1>8, <1>10 DEF Inv, SavesInv

-----------------------------------------------------------------------------
(* The theorems.                                                           *)

\* No write is under way and nothing is lost.
LEMMA InvInit == Init => Inv
<1> SUFFICES ASSUME Init PROVE Inv OBVIOUS
<1>1. TypeOK
  <2>1. /\ member \in [Members -> {"new", "in", "leaving", "gone"}]
        /\ queued \in [Members -> Nat] /\ writes \in Seq(Members \cup {Retry})
    BY DEF Init
  <2>2. {healthy, written, closing, gaveUp, overtaken} \subseteq BOOLEAN BY Zenon DEF Init
  <2>3. settled \subseteq Members /\ {live, stored, snap} \subseteq Nat /\ retry = "none"
    BY DEF Init
  <2> QED BY <2>1, <2>2, <2>3 DEF TypeOK
<1>2. EverySaveIsInTurn
  <2>1. DOMAIN writes = {} /\ \A m \in Members : ~(queued[m] > 0) BY DEF Init
  <2> QED BY <2>1 DEF Init, EverySaveIsInTurn, InChain
<1>3. ~InFlight(queued, retry) /\ LostOrStored BY DEF Init, InFlight, LostOrStored
<1> QED BY <1>1, <1>2, <1>3 DEF Init, Inv, SavesInv

LEMMA InvStep == Inv /\ [Next]_vars => Inv'
<1> SUFFICES ASSUME Inv, [Next]_vars PROVE Inv' OBVIOUS
<1>1. ASSUME NEW m \in Members, Enters(m) PROVE Inv' BY <1>1, EntersInv
<1>2. ASSUME NEW m \in Members, Saves(m) PROVE Inv' BY <1>2, SavesStepInv
<1>3. ASSUME NEW m \in Members, Reports(m) PROVE Inv' BY <1>3, ReportsInv
<1>4. ASSUME NEW m \in Members, Leaves(m) PROVE Inv' BY <1>4, LeavesInv
<1>5. ASSUME NEW m \in Members, SaveLands(m) PROVE Inv' BY <1>5, SaveLandsInv
<1>6. ASSUME NEW m \in Members, SaveFails(m) PROVE Inv' BY <1>6, SaveFailsInv
<1>7. CASE RetryEnds BY <1>7, RetryEndsInv
<1>8. CASE RetryFires BY <1>8, RetryFiresInv
<1>9. CASE FinishRunSaves BY <1>9, FinishRunSavesInv
<1>10. CASE StorageTurns BY <1>10, StorageTurnsInv
<1>11. CASE UNCHANGED vars
  <2>1. SavesInv' BY <1>11, IdleStep DEF Inv, vars, memberVars, Held
  <2> QED BY <1>11, <2>1 DEF Inv, TypeOK, vars, memberVars, retryVars
<1> QED BY <1>1, <1>2, <1>3, <1>4, <1>5, <1>6, <1>7, <1>8, <1>9, <1>10, <1>11
        DEF Next, WriteEnds

\* What the invariant says of a run.
LEMMA InvSaves == Inv => EverySaveIsInTurn /\ LetGoUnwrittenOnlyIfOvertaken
BY DEF Inv, SavesInv, LetGoUnwrittenOnlyIfOvertaken, LostOrStored

\* The types and the inductive invariant hold of every run of the saves.
THEOREM SavesInvHolds == Spec => [](TypeOK /\ SavesInv)
BY InvInit, InvStep, PTL DEF Spec, Inv

\* An account nobody plays is stored as it was left, unless the server stopped first or a
\* save failed behind a retry that an earlier one had made needless.
THEOREM KeptUnlessOvertaken == Spec => []LetGoUnwrittenOnlyIfOvertaken
BY InvInit, InvStep, InvSaves, PTL DEF Spec

-----------------------------------------------------------------------------
(* The world: who joins it and who is in it.                               *)

WInv == WorldTypeOK /\ WorldInv

\* What a wait for a handshake leaves: at most one answer fewer.
Answers == [what : {"entry", "hero"}, entry : Nat]
LEMMA WaitTakesAnAnswer ==
  ASSUME answers \in [Joiners -> SUBSET Answers], NEW m \in Joiners, NEW what, Waited(m, what)
  PROVE  answers' \in [Joiners -> SUBSET Answers] /\ \A v \in Joiners : answers'[v] \subseteq answers[v]
<1>1. CASE UNCHANGED answers BY <1>1
<1>2. ASSUME NEW a, answers' = [answers EXCEPT ![m] = @ \ {a}]
      PROVE  answers' \in [Joiners -> SUBSET Answers] /\ \A v \in Joiners : answers'[v] \subseteq answers[v]
  <2>1. answers[m] \ {a} \in SUBSET Answers OBVIOUS
  <2>2. answers' \in [Joiners -> SUBSET Answers] BY <1>2, <2>1
  <2>3. \A v \in Joiners : answers'[v] \subseteq answers[v] BY <1>2
  <2> QED BY <2>2, <2>3
<1> QED BY <1>1, <1>2 DEF Waited

\* What is said of the turns, where none is added and none ends.
LEMMA SameTurns ==
  ASSUME UNCHANGED turns
  PROVE  Running' = Running /\ NobodyWaitsTwice' = NobodyWaitsTwice /\ \A m : Waits(m)' = Waits(m)
BY DEF Running, NobodyWaitsTwice, Waits

\* One more turn is the last: who has the turn keeps it, and only its owner waits besides.
LEMMA TurnAdded ==
  ASSUME turns \in Seq(Turn), NEW t \in Turn, turns' = Append(turns, t)
  PROVE  /\ turns' \in Seq(Turn)
         /\ Running.op # "none" => Running' = Running
         /\ \A m : Waits(m)' <=> Waits(m) \/ (m = t.who /\ t.op # "advance")
         /\ NobodyWaitsTwice /\ (t.op = "advance" \/ ~Waits(t.who)) => NobodyWaitsTwice'
<1>1. /\ turns' \in Seq(Turn) /\ turns' # <<>> /\ Len(turns') = Len(turns) + 1
      /\ \A i \in 1..Len(turns) : turns'[i] = turns[i]
      /\ turns'[Len(turns) + 1] = t
  BY AppendProperties
<1>2. DOMAIN turns' = 1..(Len(turns) + 1) /\ DOMAIN turns = 1..Len(turns) /\ Len(turns) \in Nat
  BY <1>1, LenProperties
<1>3. Running.op # "none" => Running' = Running
  <2> SUFFICES ASSUME Running.op # "none" PROVE Running' = Running OBVIOUS
  <2>1. turns # <<>> BY DEF Running
  <2>2. Head(turns') = Head(turns) BY <1>1, <1>2, <2>1, HeadTailProperties, EmptySeq
  <2> QED BY <1>1, <2>1, <2>2 DEF Running
<1>4. \A m : Waits(m)' <=> Waits(m) \/ (m = t.who /\ t.op # "advance") BY <1>1, <1>2 DEF Waits
<1>5. NobodyWaitsTwice /\ (t.op = "advance" \/ ~Waits(t.who)) => NobodyWaitsTwice'
  BY <1>1, <1>2 DEF Waits, NobodyWaitsTwice
<1> QED BY <1>1, <1>3, <1>4, <1>5

\* The running turn ends: nobody else waits less or twice, and its owner no longer does.
LEMMA TurnEnded ==
  ASSUME turns \in Seq(Turn), Running.op # "none", turns' = Tail(turns)
  PROVE  /\ turns' \in Seq(Turn)
         /\ \A m : Waits(m)' => Waits(m)
         /\ NobodyWaitsTwice => NobodyWaitsTwice'
         /\ NobodyWaitsTwice /\ Running.op # "advance" => \A m : m = Running.who => ~Waits(m)'
         /\ Running.op # "advance" => Waits(Running.who)
<1>0. turns # <<>> /\ Running = Head(turns) BY DEF Running
<1>1. /\ turns' \in Seq(Turn) /\ Len(turns') = Len(turns) - 1 /\ Head(turns) = turns[1]
      /\ \A i \in 1..Len(turns') : turns'[i] = turns[i + 1]
  BY <1>0, HeadTailProperties
<1>2. /\ DOMAIN turns' = 1..(Len(turns) - 1) /\ DOMAIN turns = 1..Len(turns) /\ Len(turns) \in Nat \ {0}
  BY <1>0, <1>1, LenProperties, EmptySeq
<1>3. \A m : Waits(m)' => Waits(m) BY <1>1, <1>2 DEF Waits
<1>4. NobodyWaitsTwice => NobodyWaitsTwice' BY <1>1, <1>2 DEF NobodyWaitsTwice
<1>5. NobodyWaitsTwice /\ Running.op # "advance" => \A m : m = Running.who => ~Waits(m)'
  BY <1>0, <1>1, <1>2 DEF NobodyWaitsTwice, Waits
<1>6. Running.op # "advance" => Waits(Running.who) BY <1>0, <1>1, <1>2 DEF Waits
<1> QED BY <1>1, <1>3, <1>4, <1>5, <1>6

USE WorldAssumption

\* What a field of the world may become.
LEMMA WorldFields ==
  ASSUME NEW w \in World
  PROVE  /\ w.floor \in 0..Floors /\ w.tiles \in Nat /\ w.things \in Nat /\ w.changes \in Nat
         /\ \A p \in {"none", "building", "ready", "finished", "destroyed"} : [w EXCEPT !.phase = p] \in World
         /\ \A f \in 0..Floors : [w EXCEPT !.floor = f] \in World
         /\ \A n \in Nat : [w EXCEPT !.tiles = n] \in World /\ [w EXCEPT !.things = n] \in World
                              /\ [w EXCEPT !.changes = n] \in World
         /\ \A e \in {"shut", "reached", "read", "left"} : [w EXCEPT !.exit = e] \in World
<1>1. /\ w.floor \in 0..Floors /\ w.tiles \in Nat /\ w.things \in Nat /\ w.changes \in Nat
      /\ \A f \in 0..Floors : [w EXCEPT !.floor = f] \in World
  BY DEF World
<1>2. \A p \in {"none", "building", "ready", "finished", "destroyed"} : [w EXCEPT !.phase = p] \in World
  BY DEF World
<1>3. \A n \in Nat : [w EXCEPT !.tiles = n] \in World BY DEF World
<1>4. \A n \in Nat : [w EXCEPT !.things = n] \in World BY DEF World
<1>5. \A n \in Nat : [w EXCEPT !.changes = n] \in World BY DEF World
<1>6. \A e \in {"shut", "reached", "read", "left"} : [w EXCEPT !.exit = e] \in World
  BY DEF World
<1> QED BY <1>1, <1>2, <1>3, <1>4, <1>5, <1>6

\* A member comes in: as the builder of a world of its own, or behind those who wait.
LEMMA ComesInInv == ASSUME WInv, NEW m \in Joiners, ComesIn(m) PROVE WInv'
<1> USE DEF WInv, WorldInv
<1>1. WorldTypeOK' /\ AnswersAreFresh'
  <2>1. entries' \in [Joiners -> Nat] /\ answers' = answers /\ view' = view /\ party' = party
    BY DEF ComesIn, WorldTypeOK
  <2>2. world' \in World /\ stage' \in [Joiners -> EntryStages] /\ present' \subseteq Joiners
    BY ZenonT(60) DEF ComesIn, WorldTypeOK, World, EntryStages
  <2>3. turns' \in Seq(Turn)
    <3>1. CASE world.phase = "none"
      <4>1. [who |-> m, op |-> "build"] \in Turn BY DEF Turn
      <4>2. <<[who |-> m, op |-> "build"]>> \in Seq(Turn) BY <4>1
      <4>3. turns' = <<[who |-> m, op |-> "build"]>> BY <3>1 DEF ComesIn
      <4> QED BY <4>2, <4>3
    <3>2. CASE world.phase # "none"
      <4>1. [who |-> m, op |-> "join"] \in Turn BY DEF Turn
      <4>2. turns' = Append(turns, [who |-> m, op |-> "join"]) /\ turns \in Seq(Turn)
        BY <3>2 DEF ComesIn, WorldTypeOK
      <4> QED BY <4>1, <4>2, AppendProperties
    <3> QED BY <3>1, <3>2
  <2>4. AnswersAreFresh' BY DEF ComesIn, WorldTypeOK, AnswersAreFresh, EntriesAreUnderWay, Bound
  <2> QED BY <2>1, <2>2, <2>3, <2>4 DEF WorldTypeOK
<1>2. CASE world.phase = "none"
  <2> DEFINE t == [who |-> m, op |-> "build"]
  <2>0. turns' = <<t>> /\ <<t>> # <<>> /\ Head(<<t>>) = t /\ DOMAIN <<t>> = {1} /\ <<t>>[1] = t
    BY <1>2 DEF ComesIn
  <2>1. Running' = t /\ NobodyWaitsTwice' /\ \A v : Waits(v)' <=> v = m
    BY <2>0 DEF Running, NobodyWaitsTwice, Waits
  <2>2. world.floor = 0 /\ world.exit = "shut" /\ world'.phase = "building" /\ world'.floor = 0 /\ world'.exit = "shut"
        /\ present' = {m} /\ stage'[m] = "building" /\ view' = view /\ answers' = answers
        /\ \A v \in Joiners \ {m} : stage'[v] = "town"
    BY <1>2 DEF ComesIn, TheLiveAreIn, NoWorld, WorldTypeOK, World
  <2>3. TurnsAreTaken' /\ TheLiveAreIn' /\ TheLiveSeeEachOther'
    BY <2>1, <2>2 DEF TurnsAreTaken, TheLiveAreIn, TheLiveSeeEachOther, HasTurn
  <2>4. EntriesAreUnderWay' BY <2>1, <2>2 DEF ComesIn, EntriesAreUnderWay, WorldTypeOK, Empty
  <2> QED BY <1>1, <2>3, <2>4
<1>3. CASE world.phase # "none"
  <2> DEFINE t == [who |-> m, op |-> "join"]
  <2>1. t \in Turn /\ turns' = Append(turns, t) /\ turns \in Seq(Turn) /\ ~Waits(m)
    BY <1>3 DEF ComesIn, Turn, WorldTypeOK, Waits
  <2>2. /\ Running.op # "none" => Running' = Running
        /\ \A v : Waits(v)' <=> Waits(v) \/ v = m
        /\ NobodyWaitsTwice'
    BY <2>1, TurnAdded DEF TurnsAreTaken
  <2>3. /\ stage[m] = "town" /\ stage'[m] = "queued" /\ \A v \in Joiners \ {m} : stage'[v] = stage[v]
        /\ world' = world /\ present' = present /\ view' = view /\ answers' = answers
    BY <1>3 DEF ComesIn, WorldTypeOK
  <2>4. TurnsAreTaken' /\ TheLiveAreIn' /\ TheLiveSeeEachOther'
    BY <1>3, <2>2, <2>3 DEF TurnsAreTaken, TheLiveAreIn, TheLiveSeeEachOther, HasTurn, WorldTypeOK
  <2>5. EntriesAreUnderWay' BY <2>3 DEF EntriesAreUnderWay
  <2> QED BY <1>1, <2>4, <2>5
<1> QED BY <1>2, <1>3

\* The builder's steps, up to the world that is ready.
LEMMA BuildsAreaInv == ASSUME WInv, NEW m \in Joiners, BuildsArea(m) PROVE WInv'
<1> USE DEF WInv, WorldInv
<1>0. Running' = Running /\ NobodyWaitsTwice' = NobodyWaitsTwice /\ \A v : Waits(v)' = Waits(v)
  BY SameTurns DEF BuildsArea
<1>1. view'[m] = [view[m] EXCEPT !.players = {m}] /\ view[m] \in View /\ \A v \in Joiners \ {m} : view'[v] = view[v]
      /\ world' = world /\ stage' = stage /\ present' = present /\ answers' = answers /\ entries' = entries
  BY DEF BuildsArea, WorldTypeOK
<1>2. WorldTypeOK'
  <2>1. [view[m] EXCEPT !.players = {m}] \in View BY <1>1 DEF View
  <2>2. view' \in [Joiners -> View] BY <2>1 DEF BuildsArea, WorldTypeOK
  <2> QED BY <2>2 DEF BuildsArea, WorldTypeOK
<1>3. TurnsAreTaken' /\ TheLiveAreIn'
  BY <1>0, <1>1 DEF BuildsArea, TurnsAreTaken, TheLiveAreIn, HasTurn, NoWorld
<1>4. EntriesAreUnderWay' /\ TheLiveSeeEachOther' /\ AnswersAreFresh'
  BY <1>0, <1>1 DEF BuildsArea, TurnsAreTaken, EntriesAreUnderWay, TheLiveSeeEachOther, AnswersAreFresh, Bound, View
<1> QED BY <1>2, <1>3, <1>4

LEMMA BuildsFloorInv == ASSUME WInv, NEW m \in Joiners, BuildsFloor(m) PROVE WInv'
<1> USE DEF WInv, WorldInv
<1>0. Running' = Running /\ NobodyWaitsTwice' = NobodyWaitsTwice /\ \A v : Waits(v)' = Waits(v)
  BY SameTurns DEF BuildsFloor
<1>1. /\ view'[m] = [view[m] EXCEPT !.floor = 1] /\ view[m] \in View /\ \A v \in Joiners \ {m} : view'[v] = view[v]
      /\ world' = [world EXCEPT !.floor = 1] /\ world \in World
      /\ stage' = stage /\ present' = present /\ entries' = entries /\ 1 \in 0..Floors
  BY DEF BuildsFloor, WorldTypeOK
<1>2. stage[m] = "building" /\ world.phase = "building" /\ \A v \in Joiners \ {m} : stage[v] \notin {"building", "area", "floor", "heroes"}
  BY DEF BuildsFloor, TurnsAreTaken, HasTurn
<1>3. answers' \in [Joiners -> SUBSET Answers] /\ \A v \in Joiners : answers'[v] \subseteq answers[v]
  BY WaitTakesAnAnswer DEF BuildsFloor, WorldTypeOK, Answers
<1>4. WorldTypeOK'
  <2>1. [view[m] EXCEPT !.floor = 1] \in View BY <1>1 DEF View
  <2>1a. view' \in [Joiners -> View] BY <2>1 DEF BuildsFloor, WorldTypeOK
  <2>2. world' \in World BY <1>1 DEF World
  <2> QED BY <1>3, <2>1a, <2>2 DEF BuildsFloor, WorldTypeOK, Answers
<1>5. TurnsAreTaken' /\ TheLiveAreIn'
  BY <1>0, <1>1, <1>2 DEF BuildsFloor, TurnsAreTaken, TheLiveAreIn, HasTurn, World
<1>6. EntriesAreUnderWay' BY <1>1, <1>2, <1>3 DEF BuildsFloor, EntriesAreUnderWay, View, World
<1>7. TheLiveSeeEachOther' /\ AnswersAreFresh'
  BY <1>1, <1>2, <1>3 DEF TheLiveSeeEachOther, AnswersAreFresh, Bound, World
<1> QED BY <1>4, <1>5, <1>6, <1>7

\* The world is ready: whoever is live in it is its builder, or nobody.
LEMMA BuildsWorldInv == ASSUME WInv, NEW m \in Joiners, BuildsWorld(m) PROVE WInv'
<1> USE DEF WInv, WorldInv
<1>0. /\ Running = [who |-> m, op |-> "build"] /\ turns' = Tail(turns) /\ turns \in Seq(Turn)
      /\ world.phase = "building" /\ world.exit = "shut" /\ world \in World
      /\ NobodyWaitsTwice
  BY DEF BuildsWorld, HasTurn, TurnsAreTaken, WorldTypeOK
<1>1. /\ turns' \in Seq(Turn) /\ NobodyWaitsTwice' /\ ~Waits(m)' /\ \A v : Waits(v)' => Waits(v)
      /\ Waits(m)
  BY <1>0, TurnEnded
<1>2. /\ \A v \in Joiners \ {m} : stage[v] \notin {"building", "area", "floor", "heroes"}
      /\ stage[m] \notin {"area", "floor", "heroes"}
      /\ present \subseteq {m} /\ (m \in present => stage[m] = "building")
  <2>2. \A v \in Joiners : stage[v] \notin {"area", "floor", "heroes"} /\ (v # m => stage[v] # "building")
    BY <1>0 DEF TurnsAreTaken, HasTurn
  <2>3. \A v \in present : v \in Joiners /\ stage[v] = "building"
    BY <1>0 DEF TheLiveAreIn, WorldTypeOK
  <2> QED BY <2>2, <2>3
<1>3. /\ world' = [world EXCEPT !.phase = "ready", !.floor = 1, !.things = 1] /\ present' = present /\ entries' = entries
      /\ \A v \in Joiners \ {m} : stage'[v] = stage[v]
      /\ stage'[m] = IF stage[m] = "building" THEN "present" ELSE stage[m]
      /\ \A v \in Joiners : view'[v] = IF v \in present
           THEN [view[v] EXCEPT !.heroes = @ \cup present, !.things = 1] ELSE view[v]
      /\ \A v \in Joiners : view[v] \in View
  BY DEF BuildsWorld, WorldTypeOK
<1>3a. world'.phase = "ready" /\ world'.floor = 1 /\ world'.things = 1 /\ world'.exit = world.exit
  BY <1>0, <1>3 DEF World
<1>3b. \A v \in Joiners : /\ view'[v].players = view[v].players /\ view'[v].floor = view[v].floor
                          /\ v \notin present => view'[v] = view[v]
                          /\ v \in present => view'[v].heroes = view[v].heroes \cup present /\ view'[v].things = 1
  BY <1>3 DEF View
<1>4. answers' \in [Joiners -> SUBSET Answers] /\ \A v \in Joiners : answers'[v] \subseteq answers[v]
  <2>1. answers \in [Joiners -> SUBSET Answers] BY DEF WorldTypeOK, Answers
  <2>2. Waited(m, "hero") \/ UNCHANGED answers BY DEF BuildsWorld
  <2> QED BY <2>1, <2>2, WaitTakesAnAnswer
<1>5. WorldTypeOK'
  <2>1. view' \in [Joiners -> View]
    <3>1. \A v \in Joiners : view'[v] \in View
      <4> SUFFICES ASSUME NEW v \in Joiners PROVE view'[v] \in View OBVIOUS
      <4>1. present \in SUBSET Joiners /\ view[v] \in View BY <1>3 DEF WorldTypeOK
      <4>2. [view[v] EXCEPT !.heroes = @ \cup present, !.things = 1] \in View BY <4>1 DEF View
      <4> QED BY <1>3, <4>1, <4>2
    <3> QED BY <3>1 DEF BuildsWorld
  <2>2. world' \in World
    <3> DEFINE w == [world EXCEPT !.phase = "ready"]
               x == [w EXCEPT !.floor = 1]
    <3>1. w \in World BY <1>0, WorldFields
    <3>2. 1 \in 0..Floors OBVIOUS
    <3>3. x \in World BY <3>1, <3>2, WorldFields
    <3>4. [x EXCEPT !.things = 1] \in World BY <3>3, WorldFields
    <3> QED BY <1>3, <3>4
  <2>4. stage' \in [Joiners -> EntryStages] BY DEF BuildsWorld, WorldTypeOK, EntryStages
  <2> QED BY <1>1, <1>4, <2>1, <2>2, <2>4 DEF BuildsWorld, WorldTypeOK, Answers
<1>6. TurnsAreTaken'
  <2>1. \A v \in Joiners : stage'[v] \notin {"building", "area", "floor", "heroes"}
    BY <1>2, <1>3
  <2> QED BY <1>0, <1>1, <1>3a, <2>1 DEF TurnsAreTaken
<1>7. TheLiveAreIn' BY <1>0, <1>1, <1>2, <1>3 DEF TheLiveAreIn, World
<1>8. EntriesAreUnderWay'
  <2>1. \A v \in Joiners : stage'[v] \notin {"building", "area", "floor", "heroes"}
    BY <1>2, <1>3
  <2>2. \A v \in Joiners : stage'[v] \in {"town", "gone", "queued"} => stage'[v] = stage[v] /\ v \notin present
    BY <1>2, <1>3
  <2> QED BY <1>3b, <1>4, <2>1, <2>2 DEF EntriesAreUnderWay
<1>9. TheLiveSeeEachOther'
  <2>1. m \in present => m \in view[m].players /\ view[m].floor = 1
    <3> SUFFICES ASSUME m \in present PROVE m \in view[m].players /\ view[m].floor = 1 OBVIOUS
    <3>1. stage[m] = "building" /\ world.floor = 1 BY <1>2 DEF BuildsWorld
    <3> QED BY <3>1 DEF EntriesAreUnderWay
  <2>2. world'.floor = 1 /\ world'.things = 1 BY <1>0, <1>3 DEF World
  <2>3. \A v \in present : /\ present \subseteq view'[v].players /\ view'[v].floor = 1 /\ view'[v].things = 1
                          /\ present \subseteq view'[v].heroes
    BY <1>2, <1>3b, <2>1
  <2> QED BY <1>3, <2>2, <2>3 DEF TheLiveSeeEachOther
<1>10. AnswersAreFresh'
  BY <1>2, <1>3, <1>4, ZenonT(60) DEF AnswersAreFresh, Bound, EntriesAreUnderWay
<1> QED BY <1>5, <1>6, <1>7, <1>8, <1>9, <1>10

\* A world that is abandoned has nobody in it, on the way or in line.
LEMMA AbandonedInv == ASSUME WInv, Abandoned, UNCHANGED <<party, entries>> PROVE WInv'
<1> USE DEF WInv, WorldInv, Abandoned
<1>1. WorldTypeOK'
  <2>1. Empty \in View /\ [NoWorld EXCEPT !.phase = "destroyed"] \in World
    BY DEF Empty, View, NoWorld, World
  <2>2. stage' \in [Joiners -> EntryStages] /\ \A v \in Joiners : stage'[v] \in {"town", "gone"}
    BY DEF EntryStages, WorldTypeOK, Bound
  <2> QED BY <2>1, <2>2 DEF WorldTypeOK
<1>2. \A v \in Joiners : stage'[v] \in {"town", "gone"} BY DEF Bound, WorldTypeOK
<1>3. world'.phase = "destroyed" /\ world'.exit = "shut" BY DEF NoWorld
<1>4. NobodyWaitsTwice' BY DEF NobodyWaitsTwice
<1>5. TurnsAreTaken' /\ TheLiveAreIn' /\ TheLiveSeeEachOther'
  BY <1>2, <1>3, <1>4 DEF TurnsAreTaken, TheLiveAreIn, TheLiveSeeEachOther
<1>6. EntriesAreUnderWay' /\ AnswersAreFresh'
  BY <1>2 DEF EntriesAreUnderWay, AnswersAreFresh, Bound
<1> QED BY <1>1, <1>5, <1>6

\* Whoever has the turn to join is not live yet, and nobody else is on the way in.
LEMMA TheJoiner ==
  ASSUME WInv, NEW m \in Joiners, HasTurn(m, "join")
  PROVE  /\ m \notin present /\ world.phase # "none"
         /\ Running = [who |-> m, op |-> "join"] /\ Waits(m) /\ turns \in Seq(Turn) /\ world.exit \notin {"read", "left"}
         /\ \A v \in Joiners : stage[v] # "building" /\ (stage[v] \in {"area", "floor", "heroes"} => v = m)
<1> USE DEF WInv, WorldInv
<1>1. Running = [who |-> m, op |-> "join"] /\ turns \in Seq(Turn) /\ turns # <<>>
  BY DEF HasTurn, Running, WorldTypeOK
<1>2. Waits(m)
  <2>1. 1 \in DOMAIN turns /\ turns[1] = Running
    BY <1>1, HeadTailProperties, LenProperties, EmptySeq DEF Running
  <2> QED BY <1>1, <2>1 DEF Waits
<1>3. \A v \in Joiners : stage[v] # "building" /\ (stage[v] \in {"area", "floor", "heroes"} => v = m)
  <2>1. \A v \in Joiners : ~HasTurn(v, "build") /\ (HasTurn(v, "join") => v = m)
    BY <1>1 DEF HasTurn
  <2> QED BY <2>1 DEF TurnsAreTaken
<1>4. m \notin present BY <1>2, <1>3 DEF TheLiveAreIn, WorldTypeOK
<1>5. world.phase # "none" /\ world.exit \notin {"read", "left"}
  BY <1>1 DEF TheLiveAreIn, TurnsAreTaken
<1> QED BY <1>1, <1>2, <1>3, <1>4, <1>5

\* The steps of a join, none of which is told to anybody else.
LEMMA JoinsAreaInv == ASSUME WInv, NEW m \in Joiners, JoinsArea(m) PROVE WInv'
<1> USE DEF WInv, WorldInv
<1>0. Running' = Running /\ NobodyWaitsTwice' = NobodyWaitsTwice /\ \A v : Waits(v)' = Waits(v)
  BY SameTurns DEF JoinsArea
<1>1. /\ m \notin present /\ HasTurn(m, "join")
      /\ \A v \in Joiners : stage[v] # "building" /\ (stage[v] \in {"area", "floor", "heroes"} => v = m)
  BY TheJoiner DEF JoinsArea
<1>2. /\ \A v \in Joiners \ {m} : view'[v] = view[v] /\ stage'[v] = stage[v]
      /\ view'[m].players = present \cup {m} /\ stage[m] = "queued" /\ stage'[m] = "area"
      /\ world' = world /\ present' = present /\ answers' = answers /\ entries' = entries /\ world.phase = "ready"
      /\ view[m] \in View /\ present \in SUBSET Joiners
  BY DEF JoinsArea, WorldTypeOK, View, Joinable
<1>3. WorldTypeOK'
  <2>1. [view[m] EXCEPT !.players = present \cup {m}] \in View BY <1>2 DEF View
  <2>2. view' \in [Joiners -> View] /\ stage' \in [Joiners -> EntryStages]
    BY <2>1 DEF JoinsArea, WorldTypeOK, EntryStages
  <2> QED BY <2>2 DEF JoinsArea, WorldTypeOK
<1>4. TurnsAreTaken' BY <1>0, <1>1, <1>2 DEF TurnsAreTaken, HasTurn
<1>5. TheLiveAreIn' BY <1>0, <1>1, <1>2 DEF TheLiveAreIn
<1>6. EntriesAreUnderWay' /\ TheLiveSeeEachOther'
  BY <1>1, <1>2 DEF EntriesAreUnderWay, TheLiveSeeEachOther
<1>7. AnswersAreFresh' BY <1>2 DEF AnswersAreFresh, Bound
<1> QED BY <1>3, <1>4, <1>5, <1>6, <1>7

LEMMA JoinsFloorInv == ASSUME WInv, NEW m \in Joiners, JoinsFloor(m) PROVE WInv'
<1> USE DEF WInv, WorldInv
<1>0. Running' = Running /\ NobodyWaitsTwice' = NobodyWaitsTwice /\ \A v : Waits(v)' = Waits(v)
  BY SameTurns DEF JoinsFloor
<1>1. /\ m \notin present /\ HasTurn(m, "join")
      /\ \A v \in Joiners : stage[v] # "building" /\ (stage[v] \in {"area", "floor", "heroes"} => v = m)
  BY TheJoiner DEF JoinsFloor
<1>2. /\ \A v \in Joiners \ {m} : view'[v] = view[v] /\ stage'[v] = stage[v]
      /\ view'[m].players = view[m].players /\ view'[m].floor = world.floor /\ stage[m] = "area" /\ stage'[m] = "floor"
      /\ world' = world /\ present' = present /\ entries' = entries /\ world.phase = "ready"
      /\ view[m] \in View /\ present \in SUBSET Joiners
  BY DEF JoinsFloor, WorldTypeOK, View, Joinable
<1>2a. answers' \in [Joiners -> SUBSET Answers] /\ \A v \in Joiners : answers'[v] \subseteq answers[v]
  BY WaitTakesAnAnswer DEF JoinsFloor, WorldTypeOK, Answers
<1>3. WorldTypeOK'
  <2>1. [view[m] EXCEPT !.floor = world.floor, !.tiles = world.tiles] \in View
    <3>1. world.floor \in 0..Floors /\ world.tiles \in Nat BY WorldFields DEF WorldTypeOK
    <3> QED BY <1>2, <3>1 DEF View
  <2>2. view' \in [Joiners -> View] /\ stage' \in [Joiners -> EntryStages]
    BY <2>1 DEF JoinsFloor, WorldTypeOK, EntryStages
  <2> QED BY <1>2a, <2>2 DEF JoinsFloor, WorldTypeOK, Answers
<1>4. TurnsAreTaken' BY <1>0, <1>1, <1>2 DEF TurnsAreTaken, HasTurn
<1>5. TheLiveAreIn' BY <1>0, <1>1, <1>2 DEF TheLiveAreIn
<1>6. EntriesAreUnderWay' /\ TheLiveSeeEachOther'
  BY <1>1, <1>2, <1>2a DEF EntriesAreUnderWay, TheLiveSeeEachOther
<1>7. AnswersAreFresh' BY <1>2, <1>2a DEF AnswersAreFresh, Bound
<1> QED BY <1>3, <1>4, <1>5, <1>6, <1>7

LEMMA JoinsHeroesInv == ASSUME WInv, NEW m \in Joiners, JoinsHeroes(m) PROVE WInv'
<1> USE DEF WInv, WorldInv
<1>0. Running' = Running /\ NobodyWaitsTwice' = NobodyWaitsTwice /\ \A v : Waits(v)' = Waits(v)
  BY SameTurns DEF JoinsHeroes
<1>1. /\ m \notin present /\ HasTurn(m, "join")
      /\ \A v \in Joiners : stage[v] # "building" /\ (stage[v] \in {"area", "floor", "heroes"} => v = m)
  BY TheJoiner DEF JoinsHeroes
<1>2. /\ \A v \in Joiners \ {m} : view'[v] = view[v] /\ stage'[v] = stage[v]
      /\ view'[m].players = view[m].players /\ view'[m].floor = view[m].floor /\ view'[m].heroes = present \cup {m}
      /\ stage[m] = "floor" /\ stage'[m] = "heroes"
      /\ world' = world /\ present' = present /\ entries' = entries /\ world.phase = "ready"
      /\ view[m] \in View /\ present \in SUBSET Joiners
  BY DEF JoinsHeroes, WorldTypeOK, View, Joinable
<1>2a. answers' \in [Joiners -> SUBSET Answers] /\ \A v \in Joiners : answers'[v] \subseteq answers[v]
  BY WaitTakesAnAnswer DEF JoinsHeroes, WorldTypeOK, Answers
<1>3. WorldTypeOK'
  <2>1. [view[m] EXCEPT !.heroes = present \cup {m}] \in View BY <1>2 DEF View
  <2>2. view' \in [Joiners -> View] /\ stage' \in [Joiners -> EntryStages]
    BY <2>1 DEF JoinsHeroes, WorldTypeOK, EntryStages
  <2> QED BY <1>2a, <2>2 DEF JoinsHeroes, WorldTypeOK, Answers
<1>4. TurnsAreTaken' BY <1>0, <1>1, <1>2 DEF TurnsAreTaken, HasTurn
<1>5. TheLiveAreIn' BY <1>0, <1>1, <1>2 DEF TheLiveAreIn
<1>6. EntriesAreUnderWay' /\ TheLiveSeeEachOther'
  BY <1>1, <1>2, <1>2a DEF EntriesAreUnderWay, TheLiveSeeEachOther
<1>7. AnswersAreFresh' BY <1>2, <1>2a DEF AnswersAreFresh, Bound
<1> QED BY <1>3, <1>4, <1>5, <1>6, <1>7

\* The joiner goes live: it holds everybody who is, and everybody who is holds it.
LEMMA JoinsLiveInv == ASSUME WInv, NEW m \in Joiners, JoinsLive(m) PROVE WInv'
<1> USE DEF WInv, WorldInv
<1>1. /\ m \notin present /\ Running = [who |-> m, op |-> "join"] /\ turns \in Seq(Turn) /\ NobodyWaitsTwice
      /\ world.exit \notin {"read", "left"}
      /\ \A v \in Joiners : stage[v] # "building" /\ (stage[v] \in {"area", "floor", "heroes"} => v = m)
  BY TheJoiner DEF JoinsLive, TurnsAreTaken
<1>2. /\ turns' \in Seq(Turn) /\ NobodyWaitsTwice' /\ ~Waits(m)' /\ \A v : Waits(v)' => Waits(v)
  BY <1>1, TurnEnded DEF JoinsLive
<1>3. /\ \A v \in Joiners \ {m} : stage'[v] = stage[v]
      /\ stage[m] = "heroes" /\ stage'[m] = "present" /\ present' = present \cup {m} /\ present \subseteq Joiners
      /\ world' = world /\ answers' = answers /\ entries' = entries /\ world.phase = "ready"
  BY DEF JoinsLive, WorldTypeOK, Joinable
<1>4. /\ \A v \in Joiners \ {m} : v \notin present => view'[v] = view[v]
      /\ \A v \in present : /\ view'[v].players = view[v].players \cup {m} /\ view'[v].heroes = view[v].heroes \cup {m}
                            /\ view'[v].floor = view[v].floor /\ view'[v].things = view[v].things
      /\ view'[m].players = view[m].players /\ view'[m].heroes = view[m].heroes
      /\ view'[m].floor = view[m].floor /\ view'[m].things = world.things
  <2>1. \A v \in Joiners : view[v] \in View BY DEF WorldTypeOK
  <2>2. /\ view'[m] = [view[m] EXCEPT !.things = world.things]
        /\ \A v \in present : view'[v] = [view[v] EXCEPT !.players = @ \cup {m}, !.heroes = @ \cup {m}]
        /\ \A v \in Joiners \ {m} : v \notin present => view'[v] = view[v]
    BY <1>1, <1>3 DEF JoinsLive, NewcomerTo
  <2>3. view[m] \in View /\ \A v \in present : view[v] \in View BY <1>3, <2>1
  <2>4. /\ view'[m].players = view[m].players /\ view'[m].heroes = view[m].heroes
        /\ view'[m].floor = view[m].floor /\ view'[m].things = world.things
    BY <2>2, <2>3 DEF View
  <2>5. \A v \in present : /\ view'[v].players = view[v].players \cup {m} /\ view'[v].heroes = view[v].heroes \cup {m}
                          /\ view'[v].floor = view[v].floor /\ view'[v].things = view[v].things
    <3> SUFFICES ASSUME NEW v \in present
                 PROVE  /\ view'[v].players = view[v].players \cup {m} /\ view'[v].heroes = view[v].heroes \cup {m}
                        /\ view'[v].floor = view[v].floor /\ view'[v].things = view[v].things
      OBVIOUS
    <3>1. view'[v] = [view[v] EXCEPT !.players = @ \cup {m}, !.heroes = @ \cup {m}] /\ view[v] \in View
      BY <2>2, <2>3
    <3> QED BY <3>1 DEF View
  <2> QED BY <2>2, <2>4, <2>5
<1>5. WorldTypeOK'
  <2>1. \A v \in Joiners : view'[v] \in View
    <3> SUFFICES ASSUME NEW v \in Joiners PROVE view'[v] \in View OBVIOUS
    <3>1. view[v] \in View /\ world.things \in Nat BY WorldFields DEF WorldTypeOK
    <3>2. [view[v] EXCEPT !.things = world.things] \in View /\ NewcomerTo(m, v) \in View
      BY <3>1 DEF View, NewcomerTo
    <3> QED BY <3>1, <3>2 DEF JoinsLive
  <2>2. view' \in [Joiners -> View] BY <2>1 DEF JoinsLive
  <2>3. stage' \in [Joiners -> EntryStages] BY DEF JoinsLive, WorldTypeOK, EntryStages
  <2> QED BY <1>2, <1>3, <2>2, <2>3 DEF JoinsLive, WorldTypeOK
<1>6. TurnsAreTaken'
  <2>1. \A v \in Joiners : stage'[v] \notin {"building", "area", "floor", "heroes"}
    BY <1>1, <1>3
  <2> QED BY <1>1, <1>2, <1>3, <2>1 DEF TurnsAreTaken
<1>7. TheLiveAreIn' BY <1>2, <1>3 DEF TheLiveAreIn
<1>8. EntriesAreUnderWay'
  <2>1. \A v \in Joiners : stage'[v] \notin {"building", "area", "floor", "heroes"}
    BY <1>1, <1>3
  <2>2. \A v \in Joiners : stage'[v] \in {"town", "gone", "queued"} => stage'[v] = stage[v] /\ v \notin present /\ v # m
    BY <1>3 DEF TheLiveAreIn
  <2> QED BY <1>3, <1>4, <2>1, <2>2 DEF EntriesAreUnderWay
<1>9. TheLiveSeeEachOther'
  <2>1. present \cup {m} \subseteq view[m].players /\ present \cup {m} \subseteq view[m].heroes /\ view[m].floor = world.floor
    BY <1>3 DEF EntriesAreUnderWay
  <2>2. \A v \in present' : /\ present' \subseteq view'[v].players /\ view'[v].floor = world.floor
                            /\ view'[v].things = world.things /\ present' \subseteq view'[v].heroes
    BY <1>1, <1>3, <1>4, <2>1 DEF TheLiveSeeEachOther
  <2> QED BY <1>3, <2>2 DEF TheLiveSeeEachOther
<1>10. AnswersAreFresh' BY <1>3 DEF AnswersAreFresh, Bound
<1> QED BY <1>5, <1>6, <1>7, <1>8, <1>9, <1>10

\* Whoever cannot join is let go of, and is in nobody's world.
LEMMA JoinFailsInv == ASSUME WInv, NEW m \in Joiners, JoinFails(m) PROVE WInv'
<1> USE DEF WInv, WorldInv
<1>1. /\ m \notin present /\ Running = [who |-> m, op |-> "join"] /\ turns \in Seq(Turn) /\ NobodyWaitsTwice
      /\ world.exit \notin {"read", "left"} /\ world.phase \notin {"none", "building"}
      /\ \A v \in Joiners : stage[v] # "building" /\ (stage[v] \in {"area", "floor", "heroes"} => v = m)
  BY TheJoiner DEF JoinFails, TurnsAreTaken
<1>2. /\ turns' \in Seq(Turn) /\ NobodyWaitsTwice' /\ \A v : Waits(v)' => Waits(v)
  BY <1>1, TurnEnded DEF JoinFails
<1>3. /\ \A v \in Joiners \ {m} : stage'[v] = stage[v] /\ view'[v] = view[v] /\ answers'[v] = answers[v]
      /\ stage'[m] \in {"town", "gone"} /\ view'[m] = Empty /\ answers'[m] = {}
      /\ world' = world /\ present' = present /\ entries' = entries /\ present \subseteq Joiners
  BY DEF JoinFails, WorldTypeOK, Cleared
<1>4. WorldTypeOK'
  <2>1. Empty \in View BY DEF Empty, View
  <2>2. view' \in [Joiners -> View] /\ stage' \in [Joiners -> EntryStages]
    BY <2>1 DEF JoinFails, WorldTypeOK, EntryStages
  <2>3. answers' \in [Joiners -> SUBSET [what : {"entry", "hero"}, entry : Nat]]
    BY DEF JoinFails, Cleared, WorldTypeOK
  <2> QED BY <1>2, <2>2, <2>3 DEF JoinFails, WorldTypeOK
<1>5. TurnsAreTaken'
  <2>1. \A v \in Joiners : stage'[v] \notin {"building", "area", "floor", "heroes"}
    BY <1>1, <1>3
  <2> QED BY <1>1, <1>2, <1>3, <2>1 DEF TurnsAreTaken
<1>6. TheLiveAreIn' BY <1>1, <1>2, <1>3 DEF TheLiveAreIn, WorldTypeOK
<1>7. EntriesAreUnderWay' /\ TheLiveSeeEachOther'
  BY <1>1, <1>3 DEF EntriesAreUnderWay, TheLiveSeeEachOther
<1>8. AnswersAreFresh' BY <1>3 DEF AnswersAreFresh, Bound
<1> QED BY <1>4, <1>5, <1>6, <1>7, <1>8

\* Leaving, at any moment: whoever is left holds the others as before.
LEMMA GoesOutInv == ASSUME WInv, NEW m \in Joiners, GoesOut(m) PROVE WInv'
<1> USE DEF WInv, WorldInv
<1>1. CASE Bound = {m} BY <1>1, AbandonedInv DEF GoesOut
<1>2. CASE Bound # {m}
  <2>0. Running' = Running /\ NobodyWaitsTwice' = NobodyWaitsTwice /\ \A v : Waits(v)' = Waits(v)
    BY <1>2, SameTurns DEF GoesOut
  <2>1. /\ stage[m] \notin {"town", "gone"} /\ stage'[m] \in {"town", "gone"} /\ present' = present \ {m}
        /\ view'[m] = Empty /\ answers'[m] = {} /\ world' = world /\ turns' = turns /\ present \subseteq Joiners
        /\ entries' = entries /\ party' = party
        /\ \A v \in Joiners \ {m} : /\ stage'[v] = stage[v] /\ answers'[v] = answers[v]
                                    /\ v \notin present => view'[v] = view[v]
                                    /\ v \in present => view'[v] = Dropped(m, v)
    BY <1>2 DEF GoesOut, Bound, WorldTypeOK, Cleared
  <2>2. /\ \A v \in Joiners : view[v] \in View /\ Dropped(m, v) \in View
        /\ \A v \in Joiners : /\ Dropped(m, v).players = view[v].players \ {m} /\ Dropped(m, v).heroes = view[v].heroes \ {m}
                              /\ Dropped(m, v).floor = view[v].floor /\ Dropped(m, v).things = view[v].things
    <3> SUFFICES ASSUME NEW v \in Joiners
                 PROVE  /\ view[v] \in View /\ Dropped(m, v) \in View
                        /\ Dropped(m, v).players = view[v].players \ {m} /\ Dropped(m, v).heroes = view[v].heroes \ {m}
                        /\ Dropped(m, v).floor = view[v].floor /\ Dropped(m, v).things = view[v].things
      OBVIOUS
    <3>1. view[v] \in View BY DEF WorldTypeOK
    <3>2. Dropped(m, v) \in View BY <3>1 DEF Dropped, View
    <3>3. /\ Dropped(m, v).players = view[v].players \ {m} /\ Dropped(m, v).heroes = view[v].heroes \ {m}
          /\ Dropped(m, v).floor = view[v].floor /\ Dropped(m, v).things = view[v].things
      BY <3>1 DEF Dropped, View
    <3> QED BY <3>1, <3>2, <3>3
  <2>3. WorldTypeOK'
    <3>1. Empty \in View BY DEF Empty, View
    <3>2. \A v \in Joiners : view'[v] \in View BY <2>1, <2>2, <3>1
    <3>3. view' \in [Joiners -> View] BY <1>2, <3>2 DEF GoesOut
    <3>4. stage' \in [Joiners -> EntryStages] BY <1>2 DEF GoesOut, WorldTypeOK, EntryStages
    <3>5. answers' \in [Joiners -> SUBSET [what : {"entry", "hero"}, entry : Nat]]
      BY <1>2 DEF GoesOut, Cleared, WorldTypeOK
    <3> QED BY <2>1, <3>3, <3>4, <3>5 DEF WorldTypeOK
  <2>4. TurnsAreTaken' BY <2>0, <2>1 DEF TurnsAreTaken, HasTurn
  <2>5. TheLiveAreIn' BY <2>0, <2>1 DEF TheLiveAreIn
  <2>6. EntriesAreUnderWay'
    <3> SUFFICES ASSUME NEW v \in Joiners, v # m
                 PROVE  /\ stage'[v] \in {"town", "gone", "queued"} => view'[v] = Empty
                        /\ stage'[v] \in {"town", "gone"} => answers'[v] = {}
                        /\ stage'[v] = "building" => view'[v].players \subseteq {v}
                        /\ stage'[v] = "building" /\ world'.floor = 1 => view'[v].players = {v} /\ view'[v].floor = 1
                        /\ stage'[v] \in {"area", "floor", "heroes"} => present' \cup {v} \subseteq view'[v].players
                        /\ stage'[v] \in {"floor", "heroes"} => view'[v].floor = world'.floor
                        /\ stage'[v] = "heroes" => present' \cup {v} \subseteq view'[v].heroes
      BY <2>1 DEF EntriesAreUnderWay
    <3>1. CASE v \notin present BY <2>1, <3>1 DEF EntriesAreUnderWay
    <3>2. CASE v \in present
      <4>1. stage[v] \in {"building", "present"} BY <3>2 DEF TheLiveAreIn
      <4> QED BY <2>1, <2>2, <3>2, <4>1 DEF EntriesAreUnderWay
    <3> QED BY <3>1, <3>2
  <2>7. TheLiveSeeEachOther' BY <2>1, <2>2 DEF TheLiveSeeEachOther
  <2>8. AnswersAreFresh' BY <2>1 DEF AnswersAreFresh, Bound
  <2> QED BY <2>3, <2>4, <2>5, <2>6, <2>7, <2>8
<1> QED BY <1>1, <1>2

\* The exit is reached: the change of floors waits for its turn, or the run is over.
LEMMA ReachesExitInv == ASSUME WInv, NEW m \in Joiners, ReachesExit(m) PROVE WInv'
<1> USE DEF WInv, WorldInv
<1> DEFINE t == [who |-> m, op |-> "advance"]
<1>1. /\ stage' = stage /\ present' = present /\ party' = party /\ view' = view /\ answers' = answers /\ entries' = entries
      /\ world.phase = "ready" /\ world.exit = "shut" /\ world \in World /\ turns \in Seq(Turn) /\ t \in Turn
  BY DEF ReachesExit, WorldTypeOK, Turn
<1>2. CASE world.floor < Floors
  <2>1. turns' = Append(turns, t) /\ world' = [world EXCEPT !.exit = "reached"]
    BY <1>2 DEF ReachesExit
  <2>2. /\ turns' \in Seq(Turn) /\ (Running.op # "none" => Running' = Running)
        /\ \A v : Waits(v)' <=> Waits(v)
        /\ NobodyWaitsTwice'
    BY <1>1, <2>1, TurnAdded DEF TurnsAreTaken
  <2>3. /\ world' \in World /\ world'.phase = "ready" /\ world'.floor = world.floor /\ world'.things = world.things
        /\ world'.exit = "reached"
    <3>1. world' \in World BY <1>1, <2>1, WorldFields
    <3> QED BY <1>1, <2>1, <3>1 DEF World
  <2>4. WorldTypeOK' BY <1>1, <2>2, <2>3 DEF WorldTypeOK
  <2>5. TurnsAreTaken' BY <1>1, <1>2, <2>2, <2>3 DEF TurnsAreTaken, HasTurn
  <2>6. TheLiveAreIn' /\ EntriesAreUnderWay' /\ TheLiveSeeEachOther' /\ AnswersAreFresh'
    BY <1>1, <2>2, <2>3 DEF TheLiveAreIn, EntriesAreUnderWay, TheLiveSeeEachOther, AnswersAreFresh, Bound
  <2> QED BY <2>4, <2>5, <2>6
<1>3. CASE ~(world.floor < Floors)
  <2>0. Running' = Running /\ NobodyWaitsTwice' = NobodyWaitsTwice /\ \A v : Waits(v)' = Waits(v)
    BY <1>3, SameTurns DEF ReachesExit
  <2>1. turns' = turns /\ world' = [world EXCEPT !.exit = "reached", !.phase = "finished"]
    BY <1>3 DEF ReachesExit
  <2>2. world' \in World /\ world'.phase = "finished" /\ world'.floor = world.floor /\ world'.exit = "reached"
    <3> DEFINE w == [world EXCEPT !.exit = "reached"]
    <3>1. w \in World BY <1>1, WorldFields
    <3>2. [w EXCEPT !.phase = "finished"] \in World BY <3>1, WorldFields
    <3>3. world' \in World BY <2>1, <3>2
    <3> QED BY <1>1, <2>1, <3>3 DEF World
  <2>3. WorldTypeOK' BY <1>1, <2>1, <2>2 DEF WorldTypeOK
  <2>4. TurnsAreTaken' /\ TheLiveAreIn'
    BY <1>1, <2>0, <2>2 DEF TurnsAreTaken, TheLiveAreIn, HasTurn
  <2>5. EntriesAreUnderWay' /\ TheLiveSeeEachOther' /\ AnswersAreFresh'
    BY <1>1, <2>2 DEF EntriesAreUnderWay, TheLiveSeeEachOther, AnswersAreFresh, Bound
  <2> QED BY <2>3, <2>4, <2>5
<1> QED BY <1>2, <1>3

\* While a change of floors has the turn nobody is on the way in.
LEMMA TheAdvance ==
  ASSUME WInv, NEW m \in Joiners, HasTurn(m, "advance"), world.phase = "ready"
  PROVE  /\ Running.op = "advance" /\ turns \in Seq(Turn) /\ present \subseteq Joiners /\ world \in World
         /\ \A v \in Joiners : stage[v] \notin {"building", "area", "floor", "heroes"}
         /\ \A v \in Joiners : stage[v] \in {"town", "gone", "queued"} => v \notin present
         /\ \A v \in Joiners : view[v] \in View
<1> USE DEF WInv, WorldInv
<1>1. Running = [who |-> m, op |-> "advance"] BY DEF HasTurn
<1>2. \A v \in Joiners : ~HasTurn(v, "build") /\ ~HasTurn(v, "join") BY <1>1 DEF HasTurn
<1>3. \A v \in Joiners : stage[v] \notin {"building", "area", "floor", "heroes"}
  BY <1>2 DEF TurnsAreTaken
<1>4. \A v \in Joiners : stage[v] \in {"town", "gone", "queued"} => v \notin present
  BY DEF TheLiveAreIn
<1> QED BY <1>1, <1>3, <1>4 DEF WorldTypeOK

\* The steps of a change of floors: the party is read, every client is taken to the next floor, and
\* whoever is there by then is put on it.
LEMMA AdvanceBeginsInv == ASSUME WInv, NEW m \in Joiners, AdvanceBegins(m) PROVE WInv'
<1> USE DEF WInv, WorldInv
<1>0. Running' = Running /\ NobodyWaitsTwice' = NobodyWaitsTwice /\ \A v : Waits(v)' = Waits(v)
  BY SameTurns DEF AdvanceBegins
<1>1. Running.op = "advance" /\ world.phase = "ready" /\ world \in World /\ present \subseteq Joiners
  BY TheAdvance DEF AdvanceBegins
<1>2. /\ world' \in World /\ world'.phase = "ready" /\ world'.floor = world.floor /\ world'.things = world.things
      /\ world'.exit = "read" /\ world.exit = "reached"
  <2>1. world' = [world EXCEPT !.exit = "read"] /\ world.exit = "reached" BY DEF AdvanceBegins
  <2>2. world' \in World BY <1>1, <2>1, WorldFields
  <2> QED BY <1>1, <2>1, <2>2 DEF World
<1>3. /\ stage' = stage /\ present' = present /\ turns' = turns /\ view' = view /\ answers' = answers /\ entries' = entries
      /\ party' = present
  BY DEF AdvanceBegins
<1>4. WorldTypeOK' BY <1>1, <1>2, <1>3 DEF WorldTypeOK
<1>5. TurnsAreTaken' /\ TheLiveAreIn'
  BY <1>0, <1>1, <1>2, <1>3 DEF TurnsAreTaken, TheLiveAreIn, HasTurn
<1>6. EntriesAreUnderWay' /\ TheLiveSeeEachOther' /\ AnswersAreFresh'
  BY <1>1, <1>2, <1>3 DEF EntriesAreUnderWay, TheLiveSeeEachOther, AnswersAreFresh, Bound
<1> QED BY <1>4, <1>5, <1>6

LEMMA AdvanceSwapsInv == ASSUME WInv, NEW m \in Joiners, AdvanceSwaps(m) PROVE WInv'
<1> USE DEF WInv, WorldInv
<1>0. Running' = Running /\ NobodyWaitsTwice' = NobodyWaitsTwice /\ \A v : Waits(v)' = Waits(v)
  BY SameTurns DEF AdvanceSwaps
<1>1. /\ Running.op = "advance" /\ world.phase = "ready" /\ world \in World /\ present \subseteq Joiners
      /\ \A v \in Joiners : stage[v] \notin {"building", "area", "floor", "heroes"}
      /\ \A v \in Joiners : stage[v] \in {"town", "gone", "queued"} => v \notin present
      /\ \A v \in Joiners : view[v] \in View
  BY TheAdvance DEF AdvanceSwaps
<1>2. world.floor + 1 \in 0..Floors
  <2>1. world.floor < Floors BY <1>1 DEF AdvanceSwaps, TurnsAreTaken
  <2>2. world.floor \in 0..Floors BY <1>1, WorldFields
  <2> QED BY <2>1, <2>2
<1>3. /\ world' \in World /\ world'.phase = "ready" /\ world'.floor = world.floor + 1 /\ world'.things = 0
      /\ world'.exit = "left"
  <2> DEFINE a == [world EXCEPT !.floor = @ + 1]
             b == [a EXCEPT !.tiles = 0]
             c == [b EXCEPT !.things = 0]
  <2>1. a \in World BY <1>1, <1>2, WorldFields
  <2>2. b \in World BY <2>1, WorldFields
  <2>3. c \in World BY <2>2, WorldFields
  <2>4. [c EXCEPT !.exit = "left"] \in World BY <2>3, WorldFields
  <2>5. world' = [world EXCEPT !.floor = @ + 1, !.tiles = 0, !.things = 0, !.exit = "left"]
    BY DEF AdvanceSwaps
  <2>6. world' \in World BY <2>4, <2>5
  <2> HIDE DEF a, b, c
  <2> QED BY <1>1, <2>5, <2>6 DEF World
<1>4. /\ stage' = stage /\ present' = present /\ turns' = turns /\ party' = {} /\ answers' = answers /\ entries' = entries
      /\ \A v \in Joiners : v \notin present => view'[v] = view[v]
      /\ \A v \in present : view'[v] = [view[v] EXCEPT !.heroes = @ \ party, !.floor = world.floor + 1,
                                                       !.tiles = 0, !.things = 0]
  BY <1>1 DEF AdvanceSwaps
<1>5. \A v \in present : /\ view'[v] \in View /\ view'[v].players = view[v].players
                         /\ view'[v].floor = world.floor + 1 /\ view'[v].things = 0
  <2> SUFFICES ASSUME NEW v \in present
               PROVE  view'[v] \in View /\ view'[v].players = view[v].players
                      /\ view'[v].floor = world.floor + 1 /\ view'[v].things = 0
    OBVIOUS
  <2> DEFINE a == [view[v] EXCEPT !.heroes = @ \ party]
             b == [a EXCEPT !.floor = world.floor + 1]
             c == [b EXCEPT !.tiles = 0]
  <2>1. view[v] \in View BY <1>1
  <2>2. a \in View /\ a.players = view[v].players BY <2>1 DEF View
  <2>3. b \in View /\ b.players = view[v].players /\ b.floor = world.floor + 1
    <3> HIDE DEF a
    <3> QED BY <1>2, <2>2 DEF View
  <2>4. c \in View /\ c.players = view[v].players /\ c.floor = world.floor + 1
    <3> HIDE DEF b
    <3> QED BY <2>3 DEF View
  <2>5. /\ [c EXCEPT !.things = 0] \in View /\ [c EXCEPT !.things = 0].players = view[v].players
        /\ [c EXCEPT !.things = 0].floor = world.floor + 1 /\ [c EXCEPT !.things = 0].things = 0
    <3> HIDE DEF c
    <3> QED BY <2>4 DEF View
  <2> QED BY <1>4, <2>5
<1>6. WorldTypeOK'
  <2>1. \A v \in Joiners : view'[v] \in View BY <1>1, <1>4, <1>5
  <2>2. view' \in [Joiners -> View] BY <2>1 DEF AdvanceSwaps
  <2> QED BY <1>3, <1>4, <2>2 DEF WorldTypeOK
<1>7. TurnsAreTaken' /\ TheLiveAreIn'
  BY <1>0, <1>1, <1>3, <1>4 DEF TurnsAreTaken, TheLiveAreIn, HasTurn
<1>8. EntriesAreUnderWay' BY <1>1, <1>4, ZenonT(60) DEF EntriesAreUnderWay
<1>9. TheLiveSeeEachOther' BY <1>1, <1>3, <1>4, <1>5 DEF TheLiveSeeEachOther
<1>10. AnswersAreFresh' BY <1>4 DEF AnswersAreFresh, Bound
<1> QED BY <1>6, <1>7, <1>8, <1>9, <1>10

LEMMA AdvanceBuildsInv == ASSUME WInv, NEW m \in Joiners, AdvanceBuilds(m) PROVE WInv'
<1> USE DEF WInv, WorldInv
<1>1. /\ Running.op = "advance" /\ world.phase = "ready" /\ world \in World /\ present \subseteq Joiners
      /\ turns \in Seq(Turn) /\ NobodyWaitsTwice
      /\ \A v \in Joiners : stage[v] \notin {"building", "area", "floor", "heroes"}
      /\ \A v \in Joiners : stage[v] \in {"town", "gone", "queued"} => v \notin present
      /\ \A v \in Joiners : view[v] \in View
  BY TheAdvance DEF AdvanceBuilds, TurnsAreTaken
<1>2. turns' \in Seq(Turn) /\ NobodyWaitsTwice' /\ \A v : Waits(v)' => Waits(v)
  BY <1>1, TurnEnded DEF AdvanceBuilds
<1>3. /\ world' \in World /\ world'.phase = "ready" /\ world'.floor = world.floor /\ world'.things = 1
      /\ world'.exit = "shut"
  <2> DEFINE a == [world EXCEPT !.things = 1]
  <2>1. a \in World BY <1>1, WorldFields
  <2>2. [a EXCEPT !.exit = "shut"] \in World BY <2>1, WorldFields
  <2>3. world' = [world EXCEPT !.things = 1, !.exit = "shut"] BY DEF AdvanceBuilds
  <2>4. world' \in World BY <2>2, <2>3
  <2> HIDE DEF a
  <2> QED BY <1>1, <2>3, <2>4 DEF World
<1>4. /\ stage' = stage /\ present' = present /\ party' = party /\ answers' = answers /\ entries' = entries
      /\ \A v \in Joiners : v \notin present => view'[v] = view[v]
      /\ \A v \in present : view'[v] = [view[v] EXCEPT !.heroes = @ \cup present, !.things = 1]
  BY <1>1 DEF AdvanceBuilds
<1>5. \A v \in present : /\ view'[v] \in View /\ view'[v].players = view[v].players
                         /\ view'[v].heroes = view[v].heroes \cup present
                         /\ view'[v].floor = view[v].floor /\ view'[v].things = 1
  <2> SUFFICES ASSUME NEW v \in present
               PROVE  view'[v] \in View /\ view'[v].players = view[v].players
                      /\ view'[v].heroes = view[v].heroes \cup present
                      /\ view'[v].floor = view[v].floor /\ view'[v].things = 1
    OBVIOUS
  <2> DEFINE a == [view[v] EXCEPT !.heroes = @ \cup present]
  <2>1. view[v] \in View BY <1>1
  <2>2. /\ a \in View /\ a.players = view[v].players /\ a.heroes = view[v].heroes \cup present
        /\ a.floor = view[v].floor
    BY <1>1, <2>1 DEF View
  <2>3. LET b == [a EXCEPT !.things = 1]
        IN  /\ b \in View /\ b.players = view[v].players /\ b.heroes = view[v].heroes \cup present
            /\ b.floor = view[v].floor /\ b.things = 1
    <3> HIDE DEF a
    <3> QED BY <2>2 DEF View
  <2> QED BY <1>4, <2>3
<1>6. WorldTypeOK'
  <2>1. \A v \in Joiners : view'[v] \in View BY <1>1, <1>4, <1>5
  <2>2. view' \in [Joiners -> View] BY <2>1 DEF AdvanceBuilds
  <2> QED BY <1>2, <1>3, <1>4, <2>2 DEF WorldTypeOK
<1>7. TurnsAreTaken' /\ TheLiveAreIn' BY <1>1, <1>2, <1>3, <1>4 DEF TurnsAreTaken, TheLiveAreIn
<1>8. EntriesAreUnderWay' BY <1>1, <1>4 DEF EntriesAreUnderWay
<1>9. TheLiveSeeEachOther'
  <2>1. \A v \in present : present \subseteq view[v].players /\ view[v].floor = world.floor
    BY <1>1 DEF TheLiveSeeEachOther
  <2>2. \A v \in present : /\ present \subseteq view'[v].players /\ present \subseteq view'[v].heroes
                          /\ view'[v].floor = world.floor /\ view'[v].things = 1
    BY <1>5, <2>1
  <2> QED BY <1>3, <1>4, <2>2 DEF TheLiveSeeEachOther
<1>10. AnswersAreFresh' BY <1>4 DEF AnswersAreFresh, Bound
<1> QED BY <1>6, <1>7, <1>8, <1>9, <1>10

\* A client asks: noted with the entry it is on.
LEMMA AsksInv == ASSUME WInv, NEW m \in Joiners, NEW what \in {"entry", "hero"}, Asks(m, what) PROVE WInv'
<1> USE DEF WInv, WorldInv
<1>0. Running' = Running /\ NobodyWaitsTwice' = NobodyWaitsTwice /\ \A v : Waits(v)' = Waits(v)
  BY SameTurns DEF Asks
<1>1. /\ world' = world /\ stage' = stage /\ present' = present /\ turns' = turns /\ party' = party /\ view' = view
      /\ entries' = entries /\ stage[m] \notin {"town", "gone"}
      /\ answers'[m] = answers[m] \cup {[what |-> what, entry |-> entries[m]]}
      /\ \A v \in Joiners \ {m} : answers'[v] = answers[v]
  BY DEF Asks, WorldTypeOK, Bound
<1>2. WorldTypeOK'
  <2>1. [what |-> what, entry |-> entries[m]] \in [what : {"entry", "hero"}, entry : Nat]
    BY DEF WorldTypeOK
  <2>2. answers' \in [Joiners -> SUBSET [what : {"entry", "hero"}, entry : Nat]]
    BY <2>1 DEF Asks, WorldTypeOK
  <2> QED BY <1>1, <2>2 DEF WorldTypeOK
<1>3. TurnsAreTaken' /\ TheLiveAreIn' BY <1>0, <1>1 DEF TurnsAreTaken, TheLiveAreIn, HasTurn
<1>4. EntriesAreUnderWay' /\ TheLiveSeeEachOther'
  BY <1>1 DEF EntriesAreUnderWay, TheLiveSeeEachOther
<1>5. AnswersAreFresh' BY <1>1 DEF AnswersAreFresh, Bound
<1> QED BY <1>2, <1>3, <1>4, <1>5

\* What happens on the floor is told to whoever is live.
LEMMA ChangesInv == ASSUME WInv, NEW opens \in BOOLEAN, Changes(opens) PROVE WInv'
<1> USE DEF WInv, WorldInv
<1> DEFINE t == IF opens THEN world.tiles + 1 ELSE world.tiles
           n == world.things + 1
<1>0. Running' = Running /\ NobodyWaitsTwice' = NobodyWaitsTwice /\ \A v : Waits(v)' = Waits(v)
  BY SameTurns DEF Changes
<1>1. t \in Nat /\ n \in Nat /\ world.changes + 1 \in Nat /\ world \in World /\ world.phase = "ready"
      /\ present \subseteq Joiners
  <2>1. world \in World /\ world.phase = "ready" /\ present \subseteq Joiners
    BY DEF Changes, WorldTypeOK
  <2>2. world.tiles \in Nat /\ world.things \in Nat /\ world.changes \in Nat
    BY <2>1, WorldFields
  <2> QED BY <2>1, <2>2
<1>2. /\ stage' = stage /\ present' = present /\ turns' = turns /\ party' = party /\ answers' = answers
      /\ entries' = entries
      /\ world' = [world EXCEPT !.tiles = t, !.things = n, !.changes = @ + 1]
      /\ \A v \in Joiners : v \notin present => view'[v] = view[v]
      /\ \A v \in present : view'[v] = [view[v] EXCEPT !.tiles = IF opens THEN t ELSE @, !.things = n]
  BY <1>1 DEF Changes
<1> HIDE DEF t, n
<1>3. /\ world' \in World /\ world'.phase = world.phase /\ world'.floor = world.floor /\ world'.things = n
      /\ world'.exit = world.exit
  <2> DEFINE a == [world EXCEPT !.tiles = t]
             b == [a EXCEPT !.things = n]
  <2>1. a \in World BY <1>1, WorldFields
  <2>2. b \in World BY <1>1, <2>1, WorldFields
  <2>3. [b EXCEPT !.changes = world.changes + 1] \in World BY <1>1, <2>2, WorldFields
  <2>4. world' \in World BY <1>2, <2>3
  <2> HIDE DEF a, b
  <2> QED BY <1>1, <1>2, <2>4 DEF World
<1>4. \A v \in present : /\ view'[v] \in View /\ view'[v].players = view[v].players
                         /\ view'[v].heroes = view[v].heroes /\ view'[v].floor = view[v].floor
                         /\ view'[v].things = n
  <2> SUFFICES ASSUME NEW v \in present
               PROVE  /\ view'[v] \in View /\ view'[v].players = view[v].players
                      /\ view'[v].heroes = view[v].heroes /\ view'[v].floor = view[v].floor
                      /\ view'[v].things = n
    OBVIOUS
  <2> DEFINE a == [view[v] EXCEPT !.tiles = IF opens THEN t ELSE @]
  <2>1. view[v] \in View BY <1>1 DEF WorldTypeOK
  <2>2. /\ a \in View /\ a.players = view[v].players /\ a.heroes = view[v].heroes /\ a.floor = view[v].floor
    BY <1>1, <2>1 DEF View
  <2>3. LET b == [a EXCEPT !.things = n]
        IN  /\ b \in View /\ b.players = view[v].players /\ b.heroes = view[v].heroes
            /\ b.floor = view[v].floor /\ b.things = n
    <3> HIDE DEF a
    <3> QED BY <1>1, <2>2 DEF View
  <2> QED BY <1>2, <2>3
<1>5. WorldTypeOK'
  <2>1. \A v \in Joiners : view'[v] \in View BY <1>2, <1>4 DEF WorldTypeOK
  <2>2. view' \in [Joiners -> View] BY <2>1 DEF Changes
  <2> QED BY <1>2, <1>3, <2>2 DEF WorldTypeOK
<1>6. TurnsAreTaken' /\ TheLiveAreIn'
  BY <1>0, <1>1, <1>2, <1>3 DEF TurnsAreTaken, TheLiveAreIn, HasTurn
<1>7. EntriesAreUnderWay'
  <2>1. \A v \in present : stage[v] = "present" BY <1>1 DEF TheLiveAreIn
  <2>2. \A v \in Joiners : stage[v] # "building" BY <1>1 DEF TurnsAreTaken
  <2>3. \A v \in Joiners : IF v \in present THEN stage[v] = "present" ELSE view'[v] = view[v]
    BY <1>2, <2>1
  <2>4. \A v \in Joiners : stage'[v] # "building" /\ stage'[v] = stage[v] /\ answers'[v] = answers[v]
    BY <1>2, <2>2
  <2>5. present' = present /\ world'.floor = world.floor BY <1>2, <1>3
  <2> QED BY <2>3, <2>4, <2>5 DEF EntriesAreUnderWay
<1>8. TheLiveSeeEachOther' /\ AnswersAreFresh'
  BY <1>1, <1>2, <1>3, <1>4 DEF TheLiveSeeEachOther, AnswersAreFresh, Bound
<1> QED BY <1>5, <1>6, <1>7, <1>8

LEMMA WorldUnchangedInv == ASSUME WInv, UNCHANGED worldVars PROVE WInv'
<1>1. Running' = Running /\ NobodyWaitsTwice' = NobodyWaitsTwice /\ \A v : Waits(v)' = Waits(v)
  BY SameTurns DEF worldVars
<1> QED BY <1>1 DEF worldVars, WInv, WorldInv, WorldTypeOK, TurnsAreTaken, TheLiveAreIn, EntriesAreUnderWay,
              TheLiveSeeEachOther, AnswersAreFresh, Bound, HasTurn

LEMMA WInvInit == ASSUME WorldInit PROVE WInv
<1>1. Empty \in View /\ NoWorld \in World /\ <<>> \in Seq(Turn)
  BY DEF Empty, View, NoWorld, World
<1>2. WorldTypeOK BY <1>1 DEF WorldInit, WorldTypeOK, EntryStages
<1>3. NobodyWaitsTwice BY DEF WorldInit, NobodyWaitsTwice
<1>4. WorldInv
  BY <1>3 DEF WorldInit, WorldInv, TurnsAreTaken, TheLiveAreIn, EntriesAreUnderWay, TheLiveSeeEachOther,
             AnswersAreFresh, NoWorld, Bound
<1> QED BY <1>2, <1>4 DEF WInv

LEMMA WorldStepInv == WInv /\ [WorldNext]_worldVars => WInv'
<1> SUFFICES ASSUME WInv, [WorldNext]_worldVars PROVE WInv' OBVIOUS
<1>1. ASSUME NEW m \in Joiners, ComesIn(m) \/ GoesOut(m) \/ ReachesExit(m) PROVE WInv'
  BY <1>1, ComesInInv, GoesOutInv, ReachesExitInv
<1>2. ASSUME NEW m \in Joiners, BuildsArea(m) \/ BuildsFloor(m) \/ BuildsWorld(m) \/ BuildFails(m) PROVE WInv'
  <2>1. CASE BuildFails(m) BY <2>1, AbandonedInv DEF BuildFails
  <2> QED BY <1>2, <2>1, BuildsAreaInv, BuildsFloorInv, BuildsWorldInv
<1>3. ASSUME NEW m \in Joiners, JoinsArea(m) \/ JoinsFloor(m) \/ JoinsHeroes(m) \/ JoinsLive(m) \/ JoinFails(m) PROVE WInv'
  BY <1>3, JoinsAreaInv, JoinsFloorInv, JoinsHeroesInv, JoinsLiveInv, JoinFailsInv
<1>4. ASSUME NEW m \in Joiners, AdvanceBegins(m) \/ AdvanceSwaps(m) \/ AdvanceBuilds(m) PROVE WInv'
  BY <1>4, AdvanceBeginsInv, AdvanceSwapsInv, AdvanceBuildsInv
<1>5. ASSUME NEW m \in Joiners, NEW what \in {"entry", "hero"}, Asks(m, what) PROVE WInv'
  BY <1>5, AsksInv
<1>6. ASSUME NEW opens \in BOOLEAN, Changes(opens) PROVE WInv' BY <1>6, ChangesInv
<1>7. CASE UNCHANGED worldVars BY <1>7, WorldUnchangedInv
<1> QED BY <1>1, <1>2, <1>3, <1>4, <1>5, <1>6, <1>7 DEF WorldNext, OperationStep

\* Nobody is missed: what the invariant says of whoever is live, whatever the stage of its entry.
LEMMA InvShowsEverybody == WInv => JoinersSeeTheWorld
BY DEF WInv, WorldInv, JoinersSeeTheWorld, EveryoneIsSeen, Settled, TheLiveSeeEachOther

\* Whoever is live in a match holds everybody else who is and the floor the run is on with all that
\* is on it, for any number of members, entries, floors and changes (match-world.js, match-runtime.js).
THEOREM EveryoneInTheWorldIsSeen == WorldSpec => [](WorldTypeOK /\ JoinersSeeTheWorld)
<1>1. WorldInit => WInv BY WInvInit
<1>2. WInv /\ [WorldNext]_worldVars => WInv' BY WorldStepInv
<1>3. WInv => WorldTypeOK /\ JoinersSeeTheWorld BY InvShowsEverybody DEF WInv
<1> QED BY <1>1, <1>2, <1>3, PTL DEF WorldSpec

-----------------------------------------------------------------------------
(* The treasures: what a claim says of the account.                        *)

TInv == TreasureTypeOK /\ TreasureInv
Asks4 == [Slots4 -> Ask \cup {NoAsk}]
IsToBeSaved(s) == \E i \in DOMAIN chain : chain[i] = s

\* Fields of an account, a request and a claim, and what they become.
LEMMA PurseFields ==
  ASSUME NEW p \in Purse
  PROVE  /\ p.chests \in SUBSET Chest /\ p.weapons \in SUBSET Chest /\ p.keys \in Int /\ p.other \in 0..MaxCalls
         /\ \A cs \in SUBSET Chest :
              LET q == [p EXCEPT !.chests = cs]
              IN  q \in Purse /\ q.chests = cs /\ q.weapons = p.weapons /\ q.keys = p.keys /\ q.other = p.other
         /\ \A n \in 0..MaxCalls :
              LET q == [p EXCEPT !.other = n]
              IN  q \in Purse /\ q.chests = p.chests /\ q.weapons = p.weapons /\ q.keys = p.keys /\ q.other = n
BY DEF Purse

LEMMA OpenedFields ==
  ASSUME NEW p \in Purse, NEW c \in Chest
  PROVE  LET q == Opened(p, c)
         IN  /\ q \in Purse /\ q.chests = p.chests \ {c} /\ q.weapons = p.weapons \cup {c}
             /\ q.keys = p.keys - 1 /\ q.other = p.other
<1> DEFINE a == [p EXCEPT !.chests = @ \ {c}]
           b == [a EXCEPT !.weapons = @ \cup {c}]
           d == [b EXCEPT !.keys = @ - 1]
<1>1. /\ a \in Purse /\ a.chests = p.chests \ {c} /\ a.weapons = p.weapons /\ a.keys = p.keys /\ a.other = p.other
  BY DEF Purse
<1>2. /\ b \in Purse /\ b.chests = p.chests \ {c} /\ b.weapons = p.weapons \cup {c} /\ b.keys = p.keys
      /\ b.other = p.other
  <2> HIDE DEF a
  <2> QED BY <1>1 DEF Purse
<1>3. /\ d \in Purse /\ d.chests = p.chests \ {c} /\ d.weapons = p.weapons \cup {c} /\ d.keys = p.keys - 1
      /\ d.other = p.other
  <2> HIDE DEF b
  <2> QED BY <1>2 DEF Purse
<1> QED BY <1>3 DEF Opened

LEMMA AskFields ==
  ASSUME NEW a \in Ask
  PROVE  /\ a.how \in {"take", "open"} /\ a.how # "none" /\ a.step \in {"chest", "weapon", "save"}
         /\ a.before \in Purse /\ a.touched \in BOOLEAN
         /\ LET q == [a EXCEPT !.touched = TRUE]
            IN  q \in Ask /\ q.how = a.how /\ q.step = a.step /\ q.before = a.before /\ q.touched = TRUE
         /\ \A st \in {"chest", "weapon", "save"} :
              LET q == [a EXCEPT !.step = st]
              IN  q \in Ask /\ q.how = a.how /\ q.step = st /\ q.before = a.before /\ q.touched = a.touched
BY DEF Ask

\* A request is under way or is no request.
LEMMA AskCases ==
  ASSUME asks \in Asks4, NEW s \in Slots4
  PROVE  IF Under(s) THEN asks[s] \in Ask ELSE asks[s] = NoAsk
<1>1. asks[s] \in Ask \/ asks[s] = NoAsk BY DEF Asks4
<1>2. CASE asks[s] \in Ask BY <1>2, AskFields DEF Under
<1>3. CASE asks[s] = NoAsk BY <1>3 DEF Under, NoAsk
<1> QED BY <1>1, <1>2, <1>3

\* What the account's other requests notice of a change.
LEMMA Touched ==
  ASSUME asks \in Asks4, NEW but
  PROVE  LET a == Touches(asks, but)
         IN  /\ a \in Asks4
             /\ \A r \in Slots4 :
                  /\ a[r].how = asks[r].how
                  /\ Under(r) => a[r] \in Ask /\ a[r].step = asks[r].step /\ a[r].before = asks[r].before
                  /\ Under(r) /\ r # but => a[r].touched
                  /\ ~Under(r) \/ r = but => a[r] = asks[r]
<1> DEFINE a == Touches(asks, but)
<1> SUFFICES ASSUME NEW r \in Slots4
             PROVE  /\ a[r] \in Ask \cup {NoAsk} /\ a[r].how = asks[r].how
                    /\ Under(r) => a[r] \in Ask /\ a[r].step = asks[r].step /\ a[r].before = asks[r].before
                    /\ Under(r) /\ r # but => a[r].touched
                    /\ ~Under(r) \/ r = but => a[r] = asks[r]
  BY DEF Touches, Asks4
<1>1. a[r] = IF Under(r) /\ r # but THEN [asks[r] EXCEPT !.touched = TRUE] ELSE asks[r]
  BY DEF Touches, Under
<1>2. IF Under(r) THEN asks[r] \in Ask ELSE asks[r] = NoAsk BY AskCases
<1> HIDE DEF a
<1>3. CASE Under(r)
  <2>1. asks[r] \in Ask BY <1>2, <1>3
  <2>2. CASE r = but BY <1>1, <2>1, <2>2
  <2>3. CASE r # but
    <3> DEFINE q == [asks[r] EXCEPT !.touched = TRUE]
    <3>1. q \in Ask /\ q.how = asks[r].how /\ q.step = asks[r].step /\ q.before = asks[r].before /\ q.touched
      BY <2>1, AskFields
    <3>2. a[r] = q BY <1>1, <1>3, <2>3
    <3> QED BY <2>3, <3>1, <3>2, <1>3
  <2> QED BY <2>2, <2>3
<1>4. CASE ~Under(r) BY <1>1, <1>2, <1>4
<1> QED BY <1>3, <1>4

\* A claim is settled one way or another: the others are as they were.
LEMMA ClaimSettled ==
  ASSUME claims \in Seq(Claim), NEW s \in DOMAIN claims,
         NEW st \in {"none", "pending", "kept", "opened", "dropped"}, NEW c \in Chest \cup {<<>>},
         claims' = [claims EXCEPT ![s].st = st, ![s].chest = c]
  PROVE  /\ claims' \in Seq(Claim) /\ DOMAIN claims' = DOMAIN claims
         /\ \A i \in DOMAIN claims : i # s => claims'[i] = claims[i]
         /\ \A i \in DOMAIN claims : claims'[i].of = claims[i].of
         /\ claims'[s].st = st /\ claims'[s].chest = c
<1> DEFINE a == [claims[s] EXCEPT !.st = st]
           b == [a EXCEPT !.chest = c]
<1>1. claims[s] \in Claim BY ElementOfSeq
<1>2. a \in Claim /\ a.of = claims[s].of /\ a.st = st BY <1>1 DEF Claim
<1>3. b \in Claim /\ b.of = claims[s].of /\ b.st = st /\ b.chest = c
  <2> HIDE DEF a
  <2> QED BY <1>2 DEF Claim
<1>4. claims' = [claims EXCEPT ![s] = b] OBVIOUS
<1> HIDE DEF a, b
<1>5. s \in 1..Len(claims) BY LenProperties
<1>6. claims' \in Seq(Claim)
  <2>1. [claims EXCEPT ![s] = b] \in Seq(Claim) BY <1>3, <1>5, ExceptSeq
  <2> QED BY <1>4, <2>1
<1> QED BY <1>3, <1>4, <1>6

LEMMA ClaimMarked ==
  ASSUME claims \in Seq(Claim), NEW s \in DOMAIN claims,
         NEW st \in {"none", "pending", "kept", "opened", "dropped"},
         claims' = [claims EXCEPT ![s].st = st]
  PROVE  /\ claims' \in Seq(Claim) /\ DOMAIN claims' = DOMAIN claims
         /\ \A i \in DOMAIN claims : i # s => claims'[i] = claims[i]
         /\ \A i \in DOMAIN claims : claims'[i].of = claims[i].of
         /\ claims'[s].st = st /\ claims'[s].chest = claims[s].chest
<1> DEFINE b == [claims[s] EXCEPT !.st = st]
<1>1. claims[s] \in Claim BY ElementOfSeq
<1>2. b \in Claim /\ b.of = claims[s].of /\ b.st = st /\ b.chest = claims[s].chest
  BY <1>1 DEF Claim
<1>3. claims' = [claims EXCEPT ![s] = b] OBVIOUS
<1> HIDE DEF b
<1>4. claims' \in Seq(Claim) BY <1>2, <1>3, ExceptSeq
<1> QED BY <1>2, <1>3, <1>4

\* A treasure is owed: one more claim, the last.
LEMMA ClaimOwed ==
  ASSUME claims \in Seq(Claim), NEW t \in Lying \cup {BossChest}, claims' = Owed(t)
  PROVE  /\ claims' \in Seq(Claim)
         /\ \E n \in Nat : /\ n \notin DOMAIN claims /\ DOMAIN claims' = DOMAIN claims \cup {n}
                           /\ claims'[n].of = t /\ claims'[n].st = "none"
                           /\ \A i \in DOMAIN claims : claims'[i] = claims[i]
<1> DEFINE x == [of |-> t, st |-> "none", chest |-> <<>>]
<1>1. x \in Claim BY DEF Claim
<1>2. claims' = Append(claims, x) BY DEF Owed
<1>3. x.of = t /\ x.st = "none" OBVIOUS
<1> HIDE DEF x
<1>4. /\ claims' \in Seq(Claim) /\ Len(claims') = Len(claims) + 1
      /\ \A i \in 1..Len(claims) : claims'[i] = claims[i]
      /\ claims'[Len(claims) + 1] = x
  BY <1>1, <1>2, AppendProperties
<1>5. DOMAIN claims' = 1..(Len(claims) + 1) /\ DOMAIN claims = 1..Len(claims) /\ Len(claims) \in Nat
  BY <1>4, LenProperties
<1>6. Len(claims) + 1 \in Nat /\ Len(claims) + 1 \notin DOMAIN claims
      /\ DOMAIN claims' = DOMAIN claims \cup {Len(claims) + 1}
  BY <1>5
<1> QED BY <1>3, <1>4, <1>5, <1>6

\* At most one chest of a treasure.
LEMMA AtMostOne ==
  ASSUME NEW S, \A c, d \in S : c = d
  PROVE  Cardinality(S) <= 1
<1>1. CASE S = {} BY <1>1, FS_EmptySet
<1>2. CASE S # {}
  <2>1. PICK c \in S : TRUE BY <1>2
  <2>2. S = {c} BY <2>1
  <2>3. Cardinality({c}) = 1 BY FS_Singleton
  <2> QED BY <2>2, <2>3
<1> QED BY <1>1, <1>2

USE TreasureAssumption

\* The boss's chest is none that lies, nor what the store sells.
LEMMA Distinct == BossChest # Bought /\ BossChest \notin Lying /\ Bought \notin Lying
<1>1. ASSUME BossChest = Bought PROVE FALSE
  <2>1. {BossChest, Bought} = {BossChest} BY <1>1
  <2>2. Cardinality({BossChest}) = 1 BY FS_Singleton
  <2> QED BY <2>1, <2>2
<1> QED BY <1>1

\* A chest is of the treasure it was made of.
LEMMA ChestIsOf ==
  ASSUME NEW t \in Treasure, NEW c \in ChestsOf(t)
  PROVE  c \in Chest /\ c[1] = t
BY DEF ChestsOf, Chest

LEMMA NewChestIsOf ==
  ASSUME TreasureTypeOK, NEW t \in Treasure
  PROVE  NewChest(t) \in ChestsOf(t) /\ NewChest(t) \in Chest /\ NewChest(t)[1] = t
BY DEF NewChest, ChestsOf, Chest, TreasureTypeOK

LEMMA MadeChest ==
  ASSUME made \in [Treasure -> Nat], NEW t \in Treasure, MakesChest(t)
  PROVE  made' \in [Treasure -> Nat]
BY DEF MakesChest

\* Where only chests of one treasure move, the others are where they were.
OnlyMoves(t) ==
  \A d \in Chest : d[1] # t => /\ d \in purse'.chests <=> d \in purse.chests
                               /\ d \in purse'.weapons <=> d \in purse.weapons
LEMMA OthersStay ==
  ASSUME purse \in Purse, purse' \in Purse, NEW t, OnlyMoves(t)
  PROVE  /\ \A u : u # t => MadeOf(purse', u) = MadeOf(purse, u)
         /\ Without(purse'.chests, t) = Without(purse.chests, t)
         /\ Without(purse'.weapons, t) = Without(purse.weapons, t)
<1>1. /\ purse.chests \subseteq Chest /\ purse.weapons \subseteq Chest
      /\ purse'.chests \subseteq Chest /\ purse'.weapons \subseteq Chest
  BY PurseFields
<1>2. \A u : u # t => MadeOf(purse', u) = MadeOf(purse, u) BY <1>1 DEF OnlyMoves, MadeOf
<1>3. Without(purse'.chests, t) = Without(purse.chests, t) /\ Without(purse'.weapons, t) = Without(purse.weapons, t)
  BY <1>1 DEF OnlyMoves, Without
<1> QED BY <1>2, <1>3

\* The claims, one of which is settled.
OneSettled(s) ==
  /\ claims' \in Seq(Claim) /\ DOMAIN claims' = DOMAIN claims
  /\ \A i \in DOMAIN claims : i # s => claims'[i] = claims[i]
  /\ \A i \in DOMAIN claims : claims'[i].of = claims[i].of

LEMMA PlacesKept ==
  ASSUME OnePlaceEach, UNCHANGED <<found, report>>, NEW s, OneSettled(s)
  PROVE  OnePlaceEach'
BY DEF OnePlaceEach, OneSettled

\* A request and its claim move together.
LEMMA RequestMoves ==
  ASSUME RequestsAreClaimed, NEW s \in Slots4, s \in DOMAIN claims, OneSettled(s),
         calls \in Nat, calls' = calls,
         \A r \in Slots4 : r # s =>
           /\ asks'[r].how = asks[r].how
           /\ Under(r) => asks'[r].step = asks[r].step /\ asks'[r].before = asks[r].before,
         claims'[s].st = "pending" => Under(s)' /\ asks'[s].step # "save",
         claims'[s].st \in {"kept", "opened"} => claims'[s].chest \in ChestsOf(claims[s].of),
         Under(s)' => /\ asks'[s].before.other <= calls
                      /\ claims'[s].st \in IF asks'[s].step = "save" THEN {"kept", "opened"} ELSE {"pending"}
                      /\ asks'[s].step = "weapon" => claims'[s].chest \in ChestsOf(claims[s].of),
         \A i, j \in DOMAIN chain' : chain'[i] = chain'[j] => i = j,
         \A r \in Slots4 : r # s => (IsToBeSaved(r)' <=> IsToBeSaved(r)),
         IsToBeSaved(s)' <=> Under(s)' /\ asks'[s].step = "save",
         purse'.other <= calls
  PROVE  RequestsAreClaimed'
<1>1. \A i \in DOMAIN claims' :
        /\ claims'[i].st = "pending" => i \in Slots4 /\ Under(i)' /\ asks'[i].step # "save"
        /\ claims'[i].st \in {"kept", "opened"} => claims'[i].chest \in ChestsOf(claims'[i].of)
  <2> SUFFICES ASSUME NEW i \in DOMAIN claims
               PROVE  /\ claims'[i].st = "pending" => i \in Slots4 /\ Under(i)' /\ asks'[i].step # "save"
                      /\ claims'[i].st \in {"kept", "opened"} => claims'[i].chest \in ChestsOf(claims'[i].of)
    BY DEF OneSettled
  <2>1. CASE i = s BY <2>1 DEF OneSettled
  <2>2. CASE i # s BY <2>2 DEF OneSettled, RequestsAreClaimed, Under
  <2> QED BY <2>1, <2>2
<1>2. \A r \in Slots4 : Under(r)' =>
        /\ r \in DOMAIN claims' /\ asks'[r].before.other <= calls'
        /\ claims'[r].st \in IF asks'[r].step = "save" THEN {"kept", "opened"} ELSE {"pending"}
        /\ asks'[r].step = "weapon" => claims'[r].chest \in ChestsOf(claims'[r].of)
  <2> SUFFICES ASSUME NEW r \in Slots4, Under(r)'
               PROVE  /\ r \in DOMAIN claims' /\ asks'[r].before.other <= calls'
                      /\ claims'[r].st \in IF asks'[r].step = "save" THEN {"kept", "opened"} ELSE {"pending"}
                      /\ asks'[r].step = "weapon" => claims'[r].chest \in ChestsOf(claims'[r].of)
    OBVIOUS
  <2>1. CASE r = s BY <2>1 DEF OneSettled
  <2>2. CASE r # s BY <2>2 DEF OneSettled, RequestsAreClaimed, Under
  <2> QED BY <2>1, <2>2
<1>3. \A r \in Slots4 : IsToBeSaved(r)' <=> Under(r)' /\ asks'[r].step = "save"
  <2> SUFFICES ASSUME NEW r \in Slots4, r # s PROVE IsToBeSaved(r)' <=> Under(r)' /\ asks'[r].step = "save"
    OBVIOUS
  <2>1. IsToBeSaved(r) <=> Under(r) /\ asks[r].step = "save"
    BY DEF RequestsAreClaimed, IsToBeSaved
  <2> QED BY <2>1 DEF Under
<1> QED BY <1>1, <1>2, <1>3 DEF RequestsAreClaimed, IsToBeSaved

\* A request moves its own treasure, which every other request notices.
LEMMA OwnTreasureMoves ==
  ASSUME TreasureTypeOK, OnePlaceEach, RequestsAreClaimed, AccountAddsUp, UNCHANGED <<found, report, dropped>>,
         NEW s \in Slots4, Under(s), OneSettled(s),
         purse' \in Purse, purse'.keys >= 0, OnlyMoves(claims[s].of),
         \A r \in Slots4 : r # s =>
           /\ asks'[r].how = asks[r].how
           /\ Under(r) => asks'[r].step = asks[r].step /\ asks'[r].touched,
         \A c, d \in MadeOf(purse', claims[s].of) : c = d,
         claims'[s].st \in {"none", "dropped"} => MadeOf(purse', claims[s].of) = {},
         claims'[s].st = "kept" => claims'[s].chest \in purse'.chests \cup purse'.weapons \cup dropped',
         claims'[s].st = "opened" => claims'[s].chest \in purse'.weapons,
         Under(s)' => /\ asks'[s].step # "chest" /\ asks'[s].before = asks[s].before
                      /\ asks'[s].touched = asks[s].touched /\ purse'.keys <= purse.keys
  PROVE  AccountAddsUp'
<1> DEFINE t == claims[s].of
<1>1. /\ \A u : u # t => MadeOf(purse', u) = MadeOf(purse, u)
      /\ Without(purse'.chests, t) = Without(purse.chests, t)
      /\ Without(purse'.weapons, t) = Without(purse.weapons, t)
  BY OthersStay DEF TreasureTypeOK
<1>2. s \in DOMAIN claims BY DEF RequestsAreClaimed
<1>3. /\ t \notin found.lying \cup found.taking /\ (~report => t # BossChest)
      /\ \A i \in DOMAIN claims : i # s => claims[i].of # t
  BY <1>2 DEF OnePlaceEach
<1>4. /\ \A u \in found'.lying \cup found'.taking : MadeOf(purse', u) = {}
      /\ ~report' => MadeOf(purse', BossChest) = {}
      /\ \A u \in Lying \cup {BossChest} : \A c, d \in MadeOf(purse', u) : c = d
  BY <1>1, <1>3 DEF AccountAddsUp, Of
<1>5. \A i \in DOMAIN claims' :
        /\ claims'[i].st \in {"none", "dropped"} => MadeOf(purse', claims'[i].of) = {}
        /\ claims'[i].st = "kept" => claims'[i].chest \in purse'.chests \cup purse'.weapons \cup dropped'
        /\ claims'[i].st = "opened" => claims'[i].chest \in purse'.weapons
  <2> SUFFICES ASSUME NEW i \in DOMAIN claims
               PROVE  /\ claims'[i].st \in {"none", "dropped"} => MadeOf(purse', claims'[i].of) = {}
                      /\ claims'[i].st = "kept" => claims'[i].chest \in purse'.chests \cup purse'.weapons \cup dropped'
                      /\ claims'[i].st = "opened" => claims'[i].chest \in purse'.weapons
    BY DEF OneSettled
  <2>1. CASE i = s BY <2>1 DEF OneSettled
  <2>2. CASE i # s
    <3>1. claims'[i] = claims[i] /\ claims[i].of # t /\ claims[i] \in Claim
      BY <1>3, <2>2, ElementOfSeq, LenProperties DEF OneSettled, TreasureTypeOK
    <3>2. claims[i].of \in Treasure BY <3>1 DEF Claim, Treasure
    <3>3. claims[i].st \in {"kept", "opened"} => claims[i].chest \in Chest /\ claims[i].chest[1] # t
      BY <3>1, <3>2, ChestIsOf DEF RequestsAreClaimed
    <3>4. claims[i].st = "kept" => claims[i].chest \in purse'.chests \cup purse'.weapons \cup dropped'
      BY <3>3 DEF AccountAddsUp, Holds, OnlyMoves
    <3>5. claims[i].st = "opened" => claims[i].chest \in purse'.weapons
      BY <3>3 DEF AccountAddsUp, OnlyMoves
    <3> QED BY <1>1, <3>1, <3>4, <3>5 DEF AccountAddsUp, Of
  <2> QED BY <2>1, <2>2
<1>6. \A r \in Slots4 : Under(r)' => /\ asks'[r].step = "chest" => MadeOf(purse', claims'[r].of) = {}
                                     /\ ~asks'[r].touched => Undoes(r)'
  <2> SUFFICES ASSUME NEW r \in Slots4, Under(r)'
               PROVE  /\ asks'[r].step = "chest" => MadeOf(purse', claims'[r].of) = {}
                      /\ ~asks'[r].touched => Undoes(r)'
    OBVIOUS
  <2>1. CASE r = s
    <3>1. ~asks'[s].touched => Undoes(s) BY <2>1 DEF AccountAddsUp, Of
    <3>2. claims'[s].of = t /\ asks'[s].before = asks[s].before /\ purse'.keys <= purse.keys
          /\ asks'[s].step # "chest"
      BY <1>2, <2>1 DEF OneSettled
    <3>3. asks[s].before.keys \in Int /\ purse.keys \in Int /\ purse'.keys \in Int
      BY AskCases, AskFields, PurseFields DEF TreasureTypeOK, Asks4
    <3>4. Undoes(s) => Undoes(s)' BY <1>1, <3>2, <3>3 DEF Undoes
    <3> QED BY <2>1, <3>1, <3>2, <3>4
  <2>2. CASE r # s
    <3>1. Under(r) /\ asks'[r].step = asks[r].step /\ asks'[r].touched BY <2>2 DEF Under
    <3>2. r \in DOMAIN claims /\ claims'[r].of = claims[r].of /\ claims[r].of # t
      BY <1>3, <2>2, <3>1 DEF RequestsAreClaimed, OneSettled
    <3> QED BY <1>1, <3>1, <3>2 DEF AccountAddsUp, Of
  <2> QED BY <2>1, <2>2
<1> QED BY <1>4, <1>5, <1>6 DEF AccountAddsUp, Of, Holds

\* A request goes a step further, or ends.
OthersNotice(s) ==
  \A r \in Slots4 : r # s =>
    /\ asks'[r].how = asks[r].how
    /\ Under(r) => asks'[r].step = asks[r].step /\ asks'[r].before = asks[r].before /\ asks'[r].touched
LEMMA AskSteps ==
  ASSUME asks \in Asks4, NEW s \in Slots4, Under(s), NEW st \in {"chest", "weapon", "save"},
         asks' = [Touches(asks, s) EXCEPT ![s].step = st]
  PROVE  /\ asks' \in Asks4 /\ OthersNotice(s) /\ Under(s)' /\ asks'[s].how = asks[s].how
         /\ asks'[s].step = st /\ asks'[s].before = asks[s].before /\ asks'[s].touched = asks[s].touched
<1> DEFINE a == Touches(asks, s)
           q == [asks[s] EXCEPT !.step = st]
<1>1. a \in Asks4 /\ a[s] = asks[s] /\ a[s] \in Ask BY Touched
<1>2. \A r \in Slots4 : r # s =>
        /\ a[r].how = asks[r].how
        /\ Under(r) => a[r].step = asks[r].step /\ a[r].before = asks[r].before /\ a[r].touched
  BY Touched
<1>3. asks' = [a EXCEPT ![s] = q] BY <1>1
<1>4. /\ q \in Ask /\ q.how = asks[s].how /\ q.how # "none" /\ q.step = st /\ q.before = asks[s].before
      /\ q.touched = asks[s].touched
  <2>1. asks[s] \in Ask BY <1>1
  <2>2. asks[s].how # "none" BY <2>1, AskFields
  <2> QED BY <2>1, <2>2 DEF Ask
<1> HIDE DEF q, a
<1>5. asks' \in Asks4 /\ asks'[s] = q /\ \A r \in Slots4 : r # s => asks'[r] = a[r]
  BY <1>1, <1>3, <1>4 DEF Asks4
<1> QED BY <1>2, <1>4, <1>5, ZenonT(60) DEF OthersNotice, Under

LEMMA AskEnds ==
  ASSUME asks \in Asks4, NEW s \in Slots4, asks' = [Touches(asks, s) EXCEPT ![s] = NoAsk]
  PROVE  asks' \in Asks4 /\ OthersNotice(s) /\ ~Under(s)'
<1> DEFINE a == Touches(asks, s)
<1>1. a \in Asks4 BY Touched
<1>2. \A r \in Slots4 : r # s =>
        /\ a[r].how = asks[r].how
        /\ Under(r) => a[r].step = asks[r].step /\ a[r].before = asks[r].before /\ a[r].touched
  BY Touched
<1> HIDE DEF a
<1>3. asks' \in Asks4 /\ asks'[s] = NoAsk /\ \A r \in Slots4 : r # s => asks'[r] = a[r]
  BY <1>1 DEF Asks4, a
<1> QED BY <1>2, <1>3 DEF OthersNotice, Under, NoAsk

\* The saves of the session, each once.
ChainIsOnce == \A i, j \in DOMAIN chain : chain[i] = chain[j] => i = j
LEMMA ChainGrows ==
  ASSUME chain \in Seq(Slots4), ChainIsOnce, NEW s \in Slots4, ~IsToBeSaved(s), chain' = Append(chain, s)
  PROVE  chain' \in Seq(Slots4) /\ ChainIsOnce' /\ \A r : IsToBeSaved(r)' <=> IsToBeSaved(r) \/ r = s
<1>1. \A r : r \in Who(chain) <=> IsToBeSaved(r) BY DEF Who, IsToBeSaved
<1>2. Once(chain) BY DEF Once, ChainIsOnce
<1>3. chain' \in Seq(Slots4) /\ Once(chain') /\ \A r : r \in Who(chain') <=> r \in Who(chain) \/ r = s
  BY <1>1, <1>2, Appended
<1>4. ChainIsOnce' /\ \A r : r \in Who(chain') <=> IsToBeSaved(r)'
  BY <1>3 DEF Once, Who, ChainIsOnce, IsToBeSaved
<1> QED BY <1>1, <1>3, <1>4

LEMMA ChainShrinks ==
  ASSUME chain \in Seq(Slots4), ChainIsOnce, chain # <<>>, chain' = Tail(chain)
  PROVE  /\ Head(chain) \in Slots4 /\ IsToBeSaved(Head(chain)) /\ chain' \in Seq(Slots4) /\ ChainIsOnce'
         /\ \A r : IsToBeSaved(r)' <=> IsToBeSaved(r) /\ r # Head(chain)
<1>1. \A r : r \in Who(chain) <=> IsToBeSaved(r) BY DEF Who, IsToBeSaved
<1>2. Once(chain) BY DEF Once, ChainIsOnce
<1>3. /\ chain' \in Seq(Slots4) /\ Once(chain') /\ Head(chain) \in Slots4 /\ Head(chain) \in Who(chain)
      /\ \A r : r \in Who(chain') <=> r \in Who(chain) /\ r # Head(chain)
  BY <1>2, HeadDropped
<1>4. ChainIsOnce' /\ \A r : r \in Who(chain') <=> IsToBeSaved(r)'
  BY <1>3 DEF Once, Who, ChainIsOnce, IsToBeSaved
<1> QED BY <1>1, <1>3, <1>4

\* A request that fails puts the account back as it was before it, and frees its claim.
LEMMA FailsInv ==
  ASSUME TInv, NEW s \in Slots4, Under(s), Fails(s), UNCHANGED <<found, report, keptOn, call, dropped, calls>>,
         made' \in [Treasure -> Nat], refused' \in 0..MaxRefused, chain' \in Seq(Slots4), ChainIsOnce',
         \A r \in Slots4 : r # s => (IsToBeSaved(r)' <=> IsToBeSaved(r)), ~IsToBeSaved(s)'
  PROVE  TInv'
<1> USE DEF TInv, TreasureInv
<1>1. /\ asks \in Asks4 /\ asks[s] \in Ask /\ asks[s].before \in Purse /\ purse' = asks[s].before
      /\ s \in DOMAIN claims /\ asks[s].before.other <= calls
  BY AskCases, AskFields DEF TreasureTypeOK, Asks4, Fails, RolledBack, RequestsAreClaimed
<1>2. OneSettled(s) /\ claims'[s].st = "none"
  <2>1. claims \in Seq(Claim) BY DEF TreasureTypeOK
  <2>2. claims' = [claims EXCEPT ![s].st = "none", ![s].chest = <<>>] BY DEF Fails
  <2>3. /\ claims' \in Seq(Claim) /\ DOMAIN claims' = DOMAIN claims
        /\ \A i \in DOMAIN claims : i # s => claims'[i] = claims[i]
        /\ \A i \in DOMAIN claims : claims'[i].of = claims[i].of
        /\ claims'[s].st = "none"
    BY <1>1, <2>1, <2>2, ClaimSettled
  <2> QED BY <2>3 DEF OneSettled
<1>3. asks' \in Asks4 /\ OthersNotice(s) /\ ~Under(s)' BY <1>1, AskEnds DEF Fails
<1>4. TreasureTypeOK'
  <2>1. answer' \in [Slots4 -> {"none", "refused", "kept", "opened"}] /\ crossed' \in BOOLEAN
    BY <1>1, AskFields DEF Fails, TreasureTypeOK
  <2> QED BY <1>1, <1>2, <1>3, <2>1 DEF TreasureTypeOK, OneSettled, Asks4
<1>5. OnePlaceEach' BY <1>2, PlacesKept
<1>6. RequestsAreClaimed'
  <2>1. calls \in Nat BY DEF TreasureTypeOK
  <2> QED BY <1>1, <1>2, <1>3, <2>1, RequestMoves DEF OthersNotice, ChainIsOnce
<1>7. ASSUME ~crossed' PROVE AccountAddsUp'
  <2> DEFINE t == claims[s].of
  <2>1. ~crossed /\ ~asks[s].touched BY <1>7 DEF Fails
  <2>2. AccountAddsUp /\ Undoes(s) BY <2>1 DEF AccountAddsUp
  <2>3. purse \in Purse /\ purse.keys \in Int /\ purse'.keys \in Int
    BY <1>1, PurseFields DEF TreasureTypeOK
  <2>4. purse'.keys >= 0 BY <1>1, <2>2, <2>3 DEF Undoes, AccountAddsUp
  <2>5. purse'.chests = Without(purse.chests, t) /\ purse'.weapons = Without(purse.weapons, t)
    BY <1>1, <2>2 DEF Undoes
  <2>6. OnlyMoves(t) /\ MadeOf(purse', t) = {} BY <2>5 DEF OnlyMoves, Without, MadeOf
  <2> HIDE DEF t
  <2>8. OnlyMoves(claims[s].of) /\ MadeOf(purse', claims[s].of) = {} BY <2>6 DEF t
  <2>9. /\ \A c, d \in MadeOf(purse', claims[s].of) : c = d
        /\ claims'[s].st \in {"none", "dropped"} => MadeOf(purse', claims[s].of) = {}
        /\ claims'[s].st = "kept" => claims'[s].chest \in purse'.chests \cup purse'.weapons \cup dropped'
        /\ claims'[s].st = "opened" => claims'[s].chest \in purse'.weapons
        /\ Under(s)' => /\ asks'[s].step # "chest" /\ asks'[s].before = asks[s].before
                        /\ asks'[s].touched = asks[s].touched /\ purse'.keys <= purse.keys
    BY <1>2, <1>3, <2>8
  <2>10. \A r \in Slots4 : r # s => /\ asks'[r].how = asks[r].how
                                    /\ Under(r) => asks'[r].step = asks[r].step /\ asks'[r].touched
    BY <1>3 DEF OthersNotice
  <2>11. purse' \in Purse /\ UNCHANGED <<found, report, dropped>> /\ OneSettled(s) BY <1>1, <1>2
  <2>12. TreasureTypeOK /\ OnePlaceEach /\ RequestsAreClaimed /\ AccountAddsUp BY <2>2
  <2> QED BY <2>4, <2>8, <2>9, <2>10, <2>11, <2>12, OwnTreasureMoves
<1> QED BY <1>4, <1>5, <1>6, <1>7

Founds == [lying : SUBSET Lying, taking : SUBSET (Lying \cup {BossChest})]
Calling == {NoCall} \cup [how : {"open"}, chest : Chest] \cup [how : {"buy"}, chests : SUBSET Chest]

\* Treasures are picked up, taken or gone, and the report comes.
LEMMA FoundInv ==
  ASSUME TInv, UNCHANGED <<claims, purse, asks, call, chain, made, dropped, calls, refused, crossed, keptOn, answer>>,
         found' \in Founds, report' \in BOOLEAN, report => report',
         \A u \in found'.lying \cup found'.taking :
            u \in found.lying \cup found.taking \/ (u = BossChest /\ ~report /\ report'),
         ~report' => BossChest \notin found'.taking,
         found'.lying \cap found'.taking = {}
  PROVE  TInv'
<1> USE DEF TInv, TreasureInv
<1>1. TreasureTypeOK' BY DEF TreasureTypeOK, Founds
<1>2. OnePlaceEach' BY DEF OnePlaceEach
<1>3. RequestsAreClaimed' BY DEF RequestsAreClaimed, Under
<1>4. ~crossed' => AccountAddsUp' BY DEF AccountAddsUp, Of, Holds, Under, Undoes
<1> QED BY <1>1, <1>2, <1>3, <1>4

\* A treasure is owed.
LEMMA OwedInv ==
  ASSUME TInv, NEW t \in Lying \cup {BossChest}, claims' = Owed(t),
         UNCHANGED <<purse, asks, call, chain, made, dropped, calls, crossed, keptOn, answer>>,
         found' \in Founds, report' \in BOOLEAN, refused' \in 0..MaxRefused, report => report',
         found'.lying \subseteq found.lying, found'.taking \subseteq found.taking,
         t \notin found'.lying \cup found'.taking, \A i \in DOMAIN claims : claims[i].of # t,
         t = BossChest => report', ~crossed => Of(t) = {}
  PROVE  TInv'
<1> USE DEF TInv, TreasureInv
<1>0. claims \in Seq(Claim) BY DEF TreasureTypeOK
<1>1. PICK n \in Nat : /\ n \notin DOMAIN claims /\ DOMAIN claims' = DOMAIN claims \cup {n}
                       /\ claims'[n].of = t /\ claims'[n].st = "none"
                       /\ \A i \in DOMAIN claims : claims'[i] = claims[i]
  BY <1>0, ClaimOwed
<1>2. TreasureTypeOK'
  <2>1. claims' \in Seq(Claim) BY <1>0, ClaimOwed
  <2> QED BY <2>1 DEF TreasureTypeOK, Founds
<1>3. OnePlaceEach' BY <1>1 DEF OnePlaceEach
<1>4. RequestsAreClaimed'
  <2>1. \A r \in Slots4 : Under(r) => r \in DOMAIN claims /\ claims'[r] = claims[r]
    BY <1>1 DEF RequestsAreClaimed
  <2> QED BY <1>1, <2>1 DEF RequestsAreClaimed, Under
<1>5. ASSUME ~crossed' PROVE AccountAddsUp'
  <2>1. AccountAddsUp /\ Of(t) = {} BY <1>5
  <2>2. \A r \in Slots4 : Under(r) => claims'[r] = claims[r] BY <1>1 DEF RequestsAreClaimed
  <2>3. \A i \in DOMAIN claims' :
          /\ claims'[i].st \in {"none", "dropped"} => MadeOf(purse, claims'[i].of) = {}
          /\ claims'[i].st = "kept" => claims'[i].chest \in purse.chests \cup purse.weapons \cup dropped
          /\ claims'[i].st = "opened" => claims'[i].chest \in purse.weapons
    BY <1>1, <2>1 DEF AccountAddsUp, Of, Holds
  <2>4. \A r \in Slots4 : Under(r) => /\ asks[r].step = "chest" => MadeOf(purse, claims'[r].of) = {}
                                      /\ ~asks[r].touched => Undoes(r)'
    BY <2>1, <2>2 DEF AccountAddsUp, Of, Undoes
  <2> QED BY <2>1, <2>3, <2>4 DEF AccountAddsUp, Of, Holds, Under
<1> QED BY <1>2, <1>3, <1>4, <1>5

\* Something else changes the account: every request notices, and no claim of it is broken.
LEMMA CallInv ==
  ASSUME TInv, UNCHANGED <<claims, chain, report, keptOn, answer>>, asks' = Touches(asks, 0),
         purse' \in Purse, calls' \in 0..MaxCalls, calls <= calls', purse'.other <= calls',
         found' \in Founds, found'.lying \subseteq found.lying, found'.taking \subseteq found.taking,
         call' \in Calling, made' \in [Treasure -> Nat], dropped' \in SUBSET Chest, refused' \in 0..MaxRefused,
         crossed' \in BOOLEAN,
         ~crossed' => /\ ~crossed /\ purse'.keys >= 0 /\ purse.weapons \subseteq purse'.weapons
                      /\ purse.chests \cup purse.weapons \cup dropped
                           \subseteq purse'.chests \cup purse'.weapons \cup dropped'
                      /\ \A u \in Lying \cup {BossChest} :
                           \/ MadeOf(purse', u) \subseteq MadeOf(purse, u)
                           \/ /\ u \notin found'.lying \cup found'.taking /\ (u = BossChest => report)
                              /\ \A i \in DOMAIN claims : claims[i].of # u
                              /\ \A c, d \in MadeOf(purse', u) : c = d
  PROVE  TInv'
<1> USE DEF TInv, TreasureInv
<1>1. /\ asks' \in Asks4
      /\ \A r \in Slots4 : /\ asks'[r].how = asks[r].how
                           /\ Under(r) => asks'[r].step = asks[r].step /\ asks'[r].before = asks[r].before /\ asks'[r].touched
  <2>1. asks \in Asks4 BY DEF TreasureTypeOK, Asks4
  <2>2. \A r \in Slots4 : r # 0 BY DEF Slots4
  <2> QED BY <2>1, <2>2, Touched
<1>2. TreasureTypeOK' BY <1>1 DEF TreasureTypeOK, Founds, Calling, Asks4
<1>3. OnePlaceEach' BY DEF OnePlaceEach
<1>4. RequestsAreClaimed'
  <2>1. \A r \in Slots4 : Under(r)' <=> Under(r) BY <1>1 DEF Under
  <2>2. \A r \in Slots4 : Under(r) => asks[r].before.other \in Nat /\ asks[r].before.other <= calls
    <3> SUFFICES ASSUME NEW r \in Slots4, Under(r)
                 PROVE  asks[r].before.other \in Nat /\ asks[r].before.other <= calls
      OBVIOUS
    <3>1. asks[r].before \in Purse BY AskCases, AskFields DEF TreasureTypeOK, Asks4
    <3> QED BY <3>1, PurseFields DEF RequestsAreClaimed
  <2>3. calls \in Nat /\ calls' \in Nat BY DEF TreasureTypeOK
  <2>4. \A r \in Slots4 : Under(r) => asks'[r].before.other <= calls' BY <1>1, <2>2, <2>3
  <2> QED BY <1>1, <2>1, <2>4 DEF RequestsAreClaimed
<1>5. ASSUME ~crossed' PROVE AccountAddsUp'
  <2>1. /\ AccountAddsUp /\ purse'.keys >= 0 /\ purse.weapons \subseteq purse'.weapons
        /\ purse.chests \cup purse.weapons \cup dropped \subseteq purse'.chests \cup purse'.weapons \cup dropped'
        /\ \A u \in Lying \cup {BossChest} :
             \/ MadeOf(purse', u) \subseteq MadeOf(purse, u)
             \/ /\ u \notin found'.lying \cup found'.taking /\ (u = BossChest => report)
                /\ \A i \in DOMAIN claims : claims[i].of # u
                /\ \A c, d \in MadeOf(purse', u) : c = d
    BY <1>5
  <2>2. /\ found'.lying \cup found'.taking \subseteq Lying \cup {BossChest}
        /\ \A i \in DOMAIN claims : claims[i].of \in Lying \cup {BossChest}
    <3>1. \A i \in DOMAIN claims : claims[i] \in Claim
      BY ElementOfSeq, LenProperties DEF TreasureTypeOK
    <3> QED BY <3>1 DEF Claim, Founds
  <2>3. /\ \A u \in found'.lying \cup found'.taking : MadeOf(purse', u) = {}
        /\ ~report' => MadeOf(purse', BossChest) = {}
        /\ \A u \in Lying \cup {BossChest} : \A c, d \in MadeOf(purse', u) : c = d
    BY <2>1, <2>2 DEF AccountAddsUp, Of
  <2>4. \A i \in DOMAIN claims :
          /\ claims[i].st \in {"none", "dropped"} => MadeOf(purse', claims[i].of) = {}
          /\ claims[i].st = "kept" => claims[i].chest \in purse'.chests \cup purse'.weapons \cup dropped'
          /\ claims[i].st = "opened" => claims[i].chest \in purse'.weapons
    BY <2>1, <2>2 DEF AccountAddsUp, Of, Holds
  <2>5. \A r \in Slots4 : Under(r)' => /\ asks'[r].step = "chest" => MadeOf(purse', claims[r].of) = {}
                                       /\ asks'[r].touched
    <3> SUFFICES ASSUME NEW r \in Slots4, Under(r)'
                 PROVE  /\ asks'[r].step = "chest" => MadeOf(purse', claims[r].of) = {}
                        /\ asks'[r].touched
      OBVIOUS
    <3>1. Under(r) /\ asks'[r].step = asks[r].step /\ asks'[r].touched BY <1>1 DEF Under
    <3>2. r \in DOMAIN claims BY <3>1 DEF RequestsAreClaimed
    <3> QED BY <2>1, <2>2, <3>1, <3>2 DEF AccountAddsUp, Of
  <2> QED BY <2>1, <2>3, <2>4, <2>5 DEF AccountAddsUp, Of, Holds
<1> QED BY <1>2, <1>3, <1>4, <1>5

\* The floor's steps.
LEMMA CollectsInv == ASSUME TInv, NEW t \in Lying \cup {BossChest}, Collects(t) PROVE TInv'
<1> USE DEF TInv, TreasureInv
<1>1. /\ ~report /\ t \in found.lying /\ t \in Lying /\ t # BossChest /\ found \in Founds /\ t \notin found.taking
      /\ UNCHANGED <<report, keptOn, purse, asks, call, chain, made, answer, dropped, calls, refused, crossed>>
      /\ report \in BOOLEAN /\ refused \in 0..MaxRefused /\ BossChest \notin found.taking
      /\ \A i \in DOMAIN claims : claims[i].of # t
  BY Distinct DEF Collects, TreasureTypeOK, OnePlaceEach, Founds
<1>2. CASE found' = [found EXCEPT !.lying = @ \ {t}] /\ UNCHANGED claims
  <2>1. found' \in Founds /\ found'.lying = found.lying \ {t} /\ found'.taking = found.taking
    BY <1>1, <1>2 DEF Founds
  <2> QED BY <1>1, <1>2, <2>1, FoundInv DEF OnePlaceEach
<1>3. CASE found' = [lying |-> found.lying \ {t}, taking |-> found.taking \cup {t}] /\ UNCHANGED claims
  <2>1. found' \in Founds /\ found'.lying = found.lying \ {t} /\ found'.taking = found.taking \cup {t}
    BY <1>1, <1>3 DEF Founds
  <2>2. found'.lying \cap found'.taking = {} BY <2>1 DEF OnePlaceEach
  <2> QED BY <1>1, <1>3, <2>1, <2>2, FoundInv
<1>4. CASE found' = [found EXCEPT !.lying = @ \ {t}] /\ claims' = Owed(t)
  <2>1. found' \in Founds /\ found'.lying = found.lying \ {t} /\ found'.taking = found.taking
    BY <1>1, <1>4 DEF Founds
  <2>2. ~crossed => Of(t) = {} BY <1>1 DEF AccountAddsUp
  <2> QED BY <1>1, <1>4, <2>1, <2>2, OwedInv
<1> QED BY <1>2, <1>3, <1>4 DEF Collects

LEMMA ReportIsAskedInv == ASSUME TInv, ReportIsAsked PROVE TInv'
<1> USE DEF TInv, TreasureInv
<1>1. /\ ~report /\ report' = TRUE /\ found \in Founds /\ BossChest \notin found.taking
      /\ UNCHANGED <<keptOn, purse, asks, call, chain, made, answer, dropped, calls, refused, crossed>>
      /\ refused \in 0..MaxRefused /\ \A i \in DOMAIN claims : claims[i].of # BossChest
  BY DEF ReportIsAsked, TreasureTypeOK, OnePlaceEach, Founds
<1>2. PICK b \in BOOLEAN :
        LET boss == IF b THEN {BossChest} ELSE {} IN
        /\ found' = [lying |-> {}, taking |-> found.taking \cup (IF keptOn = "pickup" THEN boss ELSE {})]
        /\ claims' = IF b /\ keptOn = "report" THEN Owed(BossChest) ELSE claims
  BY DEF ReportIsAsked
<1>3. /\ found' \in Founds /\ found'.lying = {} /\ found'.taking \subseteq found.taking \cup {BossChest}
      /\ keptOn # "pickup" => found'.taking = found.taking
  BY <1>1, <1>2 DEF Founds
<1>4. CASE b /\ keptOn = "report"
  <2>1. claims' = Owed(BossChest) /\ found'.taking = found.taking BY <1>2, <1>3, <1>4
  <2>2. ~crossed => Of(BossChest) = {} BY <1>1 DEF AccountAddsUp
  <2> QED BY <1>1, <1>3, <2>1, <2>2, OwedInv
<1>5. CASE ~(b /\ keptOn = "report")
  <2>1. claims' = claims BY <1>2, <1>5
  <2> QED BY <1>1, <1>3, <2>1, FoundInv
<1> QED BY <1>4, <1>5

LEMMA KeptOnPickupInv == ASSUME TInv, NEW t \in Lying \cup {BossChest}, KeptOnPickup(t) PROVE TInv'
<1> USE DEF TInv, TreasureInv
<1>1. /\ t \in found.taking /\ found \in Founds /\ t \notin found.lying /\ (t = BossChest => report)
      /\ UNCHANGED <<report, keptOn, call, chain, answer, dropped, calls, crossed>>
      /\ report \in BOOLEAN /\ refused \in 0..MaxRefused /\ purse \in Purse
      /\ \A i \in DOMAIN claims : claims[i].of # t
  BY DEF KeptOnPickup, TreasureTypeOK, OnePlaceEach, Founds
<1>2. found' \in Founds /\ found'.lying = found.lying /\ found'.taking = found.taking \ {t}
  BY <1>1 DEF KeptOnPickup, Founds
<1>3. ~crossed => AccountAddsUp /\ MadeOf(purse, t) = {} BY <1>1 DEF AccountAddsUp, Of
<1>4. CASE /\ purse' = [purse EXCEPT !.chests = @ \cup {NewChest(t)}] /\ MakesChest(t)
           /\ asks' = Touches(asks, 0) /\ UNCHANGED <<claims, refused>>
  <2> DEFINE c == NewChest(t)
  <2>1. c \in Chest /\ c[1] = t /\ t \in Treasure BY NewChestIsOf DEF Treasure
  <2> HIDE DEF c
  <2>2. purse.chests \in SUBSET Chest /\ purse.chests \cup {c} \in SUBSET Chest
    BY <1>1, <2>1, PurseFields
  <2>3. purse' = [purse EXCEPT !.chests = purse.chests \cup {c}] BY <1>4 DEF c
  <2>4. /\ purse' \in Purse /\ purse'.chests = purse.chests \cup {c} /\ purse'.weapons = purse.weapons
        /\ purse'.keys = purse.keys /\ purse'.other = purse.other
    BY <1>1, <2>2, <2>3, PurseFields
  <2>5. \A u : u # t => MadeOf(purse', u) = MadeOf(purse, u) BY <2>1, <2>4 DEF MadeOf
  <2>6. MadeOf(purse', t) = MadeOf(purse, t) \cup {c} BY <2>1, <2>4 DEF MadeOf
  <2>7. made' \in [Treasure -> Nat] BY <1>4, <2>1, MadeChest DEF TreasureTypeOK
  <2>8. calls \in 0..MaxCalls /\ purse'.other <= calls /\ calls <= calls
    BY <2>4 DEF TreasureTypeOK, RequestsAreClaimed
  <2>9. ~crossed' => /\ ~crossed /\ purse'.keys >= 0 /\ purse.weapons \subseteq purse'.weapons
                     /\ purse.chests \cup purse.weapons \cup dropped
                          \subseteq purse'.chests \cup purse'.weapons \cup dropped'
                     /\ \A u \in Lying \cup {BossChest} :
                          \/ MadeOf(purse', u) \subseteq MadeOf(purse, u)
                          \/ /\ u \notin found'.lying \cup found'.taking /\ (u = BossChest => report)
                             /\ \A i \in DOMAIN claims : claims[i].of # u
                             /\ \A x, y \in MadeOf(purse', u) : x = y
    <3> SUFFICES ASSUME ~crossed'
                 PROVE  /\ ~crossed /\ purse'.keys >= 0 /\ purse.weapons \subseteq purse'.weapons
                        /\ purse.chests \cup purse.weapons \cup dropped
                             \subseteq purse'.chests \cup purse'.weapons \cup dropped'
                        /\ \A u \in Lying \cup {BossChest} :
                             \/ MadeOf(purse', u) \subseteq MadeOf(purse, u)
                             \/ /\ u \notin found'.lying \cup found'.taking /\ (u = BossChest => report)
                                /\ \A i \in DOMAIN claims : claims[i].of # u
                                /\ \A x, y \in MadeOf(purse', u) : x = y
      OBVIOUS
    <3>1. ~crossed /\ AccountAddsUp /\ MadeOf(purse', t) = {c} BY <1>1, <1>3, <2>6
    <3>2. purse'.keys >= 0 /\ dropped' = dropped BY <1>1, <2>4, <3>1 DEF AccountAddsUp
    <3> QED BY <1>1, <1>2, <2>4, <2>5, <3>1, <3>2
  <2>10. /\ found'.lying \subseteq found.lying /\ found'.taking \subseteq found.taking
         /\ calls' \in 0..MaxCalls /\ calls <= calls' /\ purse'.other <= calls' /\ refused' \in 0..MaxRefused
         /\ call' \in Calling /\ dropped' \in SUBSET Chest /\ crossed' \in BOOLEAN
         /\ asks' = Touches(asks, 0) /\ UNCHANGED <<claims, chain, report, keptOn, answer>>
    BY <1>1, <1>2, <1>4, <2>8 DEF TreasureTypeOK, Calling
  <2> QED BY <1>2, <2>4, <2>7, <2>9, <2>10, CallInv
<1>5. CASE Refuses /\ claims' = Owed(t) /\ UNCHANGED <<purse, made, asks>>
  <2>1. refused' \in 0..MaxRefused BY <1>1, <1>5 DEF Refuses
  <2>2. ~crossed => Of(t) = {} BY <1>3 DEF Of
  <2> QED BY <1>1, <1>2, <1>5, <2>1, <2>2, OwedInv
<1> QED BY <1>4, <1>5 DEF KeptOnPickup

\* The client's calls.
LEMMA CallBeginsInv ==
  ASSUME TInv, UNCHANGED <<found, claims, report, keptOn, purse, asks, chain, made, answer, dropped, refused, crossed>>,
         call' \in Calling, Calls
  PROVE  TInv'
<1> USE DEF TInv, TreasureInv
<1>1. calls \in 0..MaxCalls /\ calls' \in 0..MaxCalls /\ calls <= calls'
  BY DEF Calls, TreasureTypeOK
<1>2. \A r \in Slots4 : Under(r) => asks[r].before.other \in Nat /\ asks[r].before.other <= calls
  <2> SUFFICES ASSUME NEW r \in Slots4, Under(r)
               PROVE  asks[r].before.other \in Nat /\ asks[r].before.other <= calls
    OBVIOUS
  <2>1. asks[r].before \in Purse BY AskCases, AskFields DEF TreasureTypeOK, Asks4
  <2> QED BY <2>1, PurseFields DEF RequestsAreClaimed
<1>3. purse.other \in Nat /\ purse.other <= calls
  BY PurseFields DEF TreasureTypeOK, RequestsAreClaimed
<1>4. TreasureTypeOK' BY <1>1 DEF TreasureTypeOK, Calling
<1>5. OnePlaceEach' BY DEF OnePlaceEach
<1>6. RequestsAreClaimed'
  <2>1. \A r \in Slots4 : Under(r) => asks[r].before.other <= calls' BY <1>1, <1>2
  <2>2. purse.other <= calls' BY <1>1, <1>3
  <2> QED BY <2>1, <2>2 DEF RequestsAreClaimed, Under
<1>7. ~crossed' => AccountAddsUp' BY DEF AccountAddsUp, Of, Holds, Under, Undoes
<1> QED BY <1>4, <1>5, <1>6, <1>7

LEMMA OpensChestInv == ASSUME TInv, NEW c \in purse.chests, OpensChest(c) PROVE TInv'
<1>1. c \in Chest BY PurseFields DEF TInv, TreasureTypeOK
<1>2. call' \in Calling BY <1>1 DEF OpensChest, Calling
<1> QED BY <1>2, CallBeginsInv DEF OpensChest, NoReport

LEMMA BuysInv == ASSUME TInv, Buys PROVE TInv'
<1>1. purse.chests \in SUBSET Chest BY PurseFields DEF TInv, TreasureTypeOK
<1>2. call' \in Calling BY <1>1 DEF Buys, Calling
<1> QED BY <1>2, CallBeginsInv DEF Buys, NoReport

\* A call that adds or spends no treasure of the run.
LEMMA AccountCallInv ==
  ASSUME TInv, UNCHANGED <<found, claims, report, keptOn, chain, answer, refused>>, asks' = Touches(asks, 0),
         purse' \in Purse, calls' \in 0..MaxCalls, calls <= calls', purse'.other <= calls',
         call' \in Calling, made' \in [Treasure -> Nat], dropped' \in SUBSET Chest, crossed' \in BOOLEAN,
         ~crossed' => /\ ~crossed /\ purse'.keys >= 0 /\ purse.weapons \subseteq purse'.weapons
                      /\ purse.chests \cup purse.weapons \cup dropped
                           \subseteq purse'.chests \cup purse'.weapons \cup dropped'
                      /\ \A u \in Lying \cup {BossChest} : MadeOf(purse', u) \subseteq MadeOf(purse, u)
  PROVE  TInv'
<1>1. found' \in Founds /\ found'.lying \subseteq found.lying /\ found'.taking \subseteq found.taking
      /\ refused' \in 0..MaxRefused
  BY DEF TInv, TreasureTypeOK, Founds
<1> QED BY <1>1, CallInv

LEMMA ChangesOtherInv == ASSUME TInv, ChangesOther PROVE TInv'
<1> USE DEF TInv, TreasureInv
<1>1. /\ purse \in Purse /\ calls' \in 0..MaxCalls /\ calls' = calls + 1 /\ calls \in Nat /\ purse.other \in Nat
      /\ purse.other + 1 <= calls' /\ purse.other + 1 \in 0..MaxCalls /\ crossed' = crossed
      /\ UNCHANGED <<call, made, dropped>> /\ NoReport /\ asks' = Touches(asks, 0)
  <2>1. purse \in Purse /\ calls \in 0..MaxCalls /\ purse.other <= calls
    BY DEF TreasureTypeOK, RequestsAreClaimed
  <2>2. purse.other \in Nat BY <2>1, PurseFields
  <2>3. calls < MaxCalls /\ calls' = calls + 1 BY DEF ChangesOther, Calls
  <2> QED BY <2>1, <2>2, <2>3 DEF ChangesOther
<1>2. purse' = [purse EXCEPT !.other = purse.other + 1] BY DEF ChangesOther
<1>3. /\ purse' \in Purse /\ purse'.chests = purse.chests /\ purse'.weapons = purse.weapons
      /\ purse'.keys = purse.keys /\ purse'.other = purse.other + 1
  BY <1>1, <1>2, PurseFields
<1>4. ~crossed' => /\ ~crossed /\ purse'.keys >= 0 /\ purse.weapons \subseteq purse'.weapons
                   /\ purse.chests \cup purse.weapons \cup dropped
                        \subseteq purse'.chests \cup purse'.weapons \cup dropped'
                   /\ \A u \in Lying \cup {BossChest} : MadeOf(purse', u) \subseteq MadeOf(purse, u)
  BY <1>1, <1>3 DEF AccountAddsUp, MadeOf
<1>5. /\ call' \in Calling /\ made' \in [Treasure -> Nat] /\ dropped' \in SUBSET Chest /\ crossed' \in BOOLEAN
      /\ calls <= calls' /\ purse'.other <= calls'
  BY <1>1, <1>3 DEF TreasureTypeOK, Calling
<1>6. asks' = Touches(asks, 0) /\ calls' \in 0..MaxCalls
      /\ UNCHANGED <<found, claims, report, keptOn, chain, answer, refused>>
  BY <1>1 DEF NoReport
<1> QED BY <1>3, <1>4, <1>5, <1>6, AccountCallInv

LEMMA DropsChestInv == ASSUME TInv, NEW c \in purse.chests, DropsChest(c) PROVE TInv'
<1> USE DEF TInv, TreasureInv
<1>1. /\ purse \in Purse /\ calls' \in 0..MaxCalls /\ calls <= calls' /\ purse.other <= calls' /\ crossed' = crossed
      /\ UNCHANGED <<call, made>> /\ NoReport /\ asks' = Touches(asks, 0) /\ dropped' = dropped \cup {c}
      /\ c \in Chest
  <2>1. purse \in Purse /\ calls \in 0..MaxCalls /\ purse.other <= calls
    BY DEF TreasureTypeOK, RequestsAreClaimed
  <2>2. purse.other \in Nat /\ c \in Chest BY <2>1, PurseFields
  <2>3. calls < MaxCalls /\ calls' = calls + 1 BY DEF DropsChest, Calls
  <2> QED BY <2>1, <2>2, <2>3 DEF DropsChest
<1>2. purse' = [purse EXCEPT !.chests = purse.chests \ {c}] /\ purse.chests \ {c} \in SUBSET Chest
  BY <1>1, PurseFields DEF DropsChest
<1>3. /\ purse' \in Purse /\ purse'.chests = purse.chests \ {c} /\ purse'.weapons = purse.weapons
      /\ purse'.keys = purse.keys /\ purse'.other = purse.other
  BY <1>1, <1>2, PurseFields
<1>4. ~crossed' => /\ ~crossed /\ purse'.keys >= 0 /\ purse.weapons \subseteq purse'.weapons
                   /\ purse.chests \cup purse.weapons \cup dropped
                        \subseteq purse'.chests \cup purse'.weapons \cup dropped'
                   /\ \A u \in Lying \cup {BossChest} : MadeOf(purse', u) \subseteq MadeOf(purse, u)
  BY <1>1, <1>3 DEF AccountAddsUp, MadeOf
<1>5. /\ call' \in Calling /\ made' \in [Treasure -> Nat] /\ dropped' \in SUBSET Chest /\ crossed' \in BOOLEAN
      /\ calls <= calls' /\ purse'.other <= calls'
  BY <1>1, <1>3 DEF TreasureTypeOK, Calling
<1>6. asks' = Touches(asks, 0) /\ calls' \in 0..MaxCalls
      /\ UNCHANGED <<found, claims, report, keptOn, chain, answer, refused>>
  BY <1>1 DEF NoReport
<1> QED BY <1>3, <1>4, <1>5, <1>6, AccountCallInv

LEMMA CallEndsInv == ASSUME TInv, CallEnds PROVE TInv'
<1> USE DEF TInv, TreasureInv
<1>1. /\ purse \in Purse /\ calls \in 0..MaxCalls /\ purse.other <= calls /\ call \in Calling /\ call # NoCall
      /\ purse.keys \in Int /\ purse.other \in Nat /\ dropped \in SUBSET Chest /\ made \in [Treasure -> Nat]
      /\ call' = NoCall /\ asks' = Touches(asks, 0) /\ NoReport /\ UNCHANGED <<dropped, calls>>
      /\ crossed \in BOOLEAN
  BY PurseFields DEF TreasureTypeOK, RequestsAreClaimed, CallEnds, Calling
<1>2. CASE call.how = "open"
  <2>1. /\ purse' = Opened(purse, call.chest) /\ made' = made
        /\ crossed' = (crossed \/ purse.keys < 1 \/ call.chest \notin purse.chests)
    BY <1>2 DEF CallEnds
  <2>2. call.chest \in Chest BY <1>1, <1>2 DEF Calling
  <2>3. /\ purse' \in Purse /\ purse'.chests = purse.chests \ {call.chest}
        /\ purse'.weapons = purse.weapons \cup {call.chest}
        /\ purse'.keys = purse.keys - 1 /\ purse'.other = purse.other
    BY <1>1, <2>1, <2>2, OpenedFields
  <2>4. ~crossed' => /\ ~crossed /\ purse'.keys >= 0 /\ purse.weapons \subseteq purse'.weapons
                     /\ purse.chests \cup purse.weapons \cup dropped
                          \subseteq purse'.chests \cup purse'.weapons \cup dropped'
                     /\ \A u \in Lying \cup {BossChest} : MadeOf(purse', u) \subseteq MadeOf(purse, u)
    <3> SUFFICES ASSUME ~crossed'
                 PROVE  /\ ~crossed /\ purse'.keys >= 0 /\ purse.weapons \subseteq purse'.weapons
                        /\ purse.chests \cup purse.weapons \cup dropped
                             \subseteq purse'.chests \cup purse'.weapons \cup dropped'
                        /\ \A u \in Lying \cup {BossChest} : MadeOf(purse', u) \subseteq MadeOf(purse, u)
      OBVIOUS
    <3>0. ~crossed /\ ~(purse.keys < 1) /\ call.chest \in purse.chests BY <2>1
    <3>1. ~crossed /\ purse.keys >= 1 /\ call.chest \in purse.chests BY <1>1, <3>0
    <3>2. purse'.keys >= 0 BY <1>1, <2>3, <3>1
    <3>3. \A u : MadeOf(purse', u) \subseteq MadeOf(purse, u) BY <2>3, <3>1 DEF MadeOf
    <3> QED BY <1>1, <2>3, <3>1, <3>2, <3>3
  <2>5. /\ call' \in Calling /\ made' \in [Treasure -> Nat] /\ dropped' \in SUBSET Chest /\ crossed' \in BOOLEAN
        /\ calls' \in 0..MaxCalls /\ calls <= calls' /\ purse'.other <= calls'
        /\ UNCHANGED <<found, claims, report, keptOn, chain, answer, refused>>
    BY <1>1, <2>1, <2>3 DEF Calling, NoReport
  <2> QED BY <1>1, <2>3, <2>4, <2>5, AccountCallInv
<1>3. CASE call.how = "buy"
  <2> DEFINE c == NewChest(Bought)
             cs == call.chests \cup {c}
  <2>1. /\ MakesChest(Bought) /\ purse' = [purse EXCEPT !.chests = cs]
        /\ crossed' = (crossed \/ purse.chests # call.chests)
    BY <1>3 DEF CallEnds
  <2>2. Bought \in Treasure /\ c \in Chest /\ c[1] = Bought /\ call.chests \in SUBSET Chest
    BY <1>1, <1>3, NewChestIsOf DEF Treasure, Calling
  <2>3. made' \in [Treasure -> Nat] BY <1>1, <2>1, <2>2, MadeChest
  <2> HIDE DEF c
  <2>4. cs \in SUBSET Chest BY <2>2
  <2>5. /\ purse' \in Purse /\ purse'.chests = cs /\ purse'.weapons = purse.weapons
        /\ purse'.keys = purse.keys /\ purse'.other = purse.other
    BY <1>1, <2>1, <2>4, PurseFields
  <2>6. ~crossed' => /\ ~crossed /\ purse'.keys >= 0 /\ purse.weapons \subseteq purse'.weapons
                     /\ purse.chests \cup purse.weapons \cup dropped
                          \subseteq purse'.chests \cup purse'.weapons \cup dropped'
                     /\ \A u \in Lying \cup {BossChest} : MadeOf(purse', u) \subseteq MadeOf(purse, u)
    <3> SUFFICES ASSUME ~crossed'
                 PROVE  /\ ~crossed /\ purse'.keys >= 0 /\ purse.weapons \subseteq purse'.weapons
                        /\ purse.chests \cup purse.weapons \cup dropped
                             \subseteq purse'.chests \cup purse'.weapons \cup dropped'
                        /\ \A u \in Lying \cup {BossChest} : MadeOf(purse', u) \subseteq MadeOf(purse, u)
      OBVIOUS
    <3>1. ~crossed /\ purse.chests = call.chests /\ AccountAddsUp BY <2>1
    <3>2. purse'.keys >= 0 BY <2>5, <3>1 DEF AccountAddsUp
    <3>3. \A u \in Lying \cup {BossChest} : MadeOf(purse', u) \subseteq MadeOf(purse, u)
      BY <2>2, <2>5, <3>1, Distinct DEF MadeOf
    <3> QED BY <1>1, <2>5, <3>1, <3>2, <3>3
  <2>7. /\ call' \in Calling /\ dropped' \in SUBSET Chest /\ crossed' \in BOOLEAN
        /\ calls' \in 0..MaxCalls /\ calls <= calls' /\ purse'.other <= calls'
        /\ UNCHANGED <<found, claims, report, keptOn, chain, answer, refused>>
    BY <1>1, <2>1, <2>5 DEF Calling, NoReport
  <2> QED BY <1>1, <2>3, <2>5, <2>6, <2>7, AccountCallInv
<1> QED BY <1>2, <1>3 DEF CallEnds

\* The report's buttons.
LEMMA NothingAsked ==
  ASSUME TInv, NEW s \in Slots4, TreasureAt(s)
  PROVE  /\ s \in DOMAIN claims /\ claims[s].st = "none" /\ claims[s].of \in Lying \cup {BossChest} /\ ~Under(s)
         /\ ~IsToBeSaved(s) /\ claims \in Seq(Claim)
         /\ ~crossed => AccountAddsUp /\ MadeOf(purse, claims[s].of) = {}
<1> USE DEF TInv, TreasureInv
<1>1. s \in DOMAIN claims /\ claims[s].st = "none" /\ claims \in Seq(Claim)
  BY DEF TreasureAt, TreasureTypeOK
<1>2. claims[s] \in Claim BY <1>1, ElementOfSeq, LenProperties
<1>3. ~Under(s) BY <1>1 DEF RequestsAreClaimed
<1>4. ~IsToBeSaved(s) BY <1>3 DEF RequestsAreClaimed, IsToBeSaved
<1>5. ~crossed => AccountAddsUp /\ MadeOf(purse, claims[s].of) = {}
  BY <1>1 DEF AccountAddsUp, Of
<1> QED BY <1>1, <1>2, <1>3, <1>4, <1>5 DEF Claim

LEMMA DropsClaimInv == ASSUME TInv, NEW s \in Slots4, DropsClaim(s) PROVE TInv'
<1> USE DEF TInv, TreasureInv
<1>1. /\ s \in DOMAIN claims /\ claims[s].st = "none" /\ ~Under(s) /\ ~IsToBeSaved(s) /\ claims \in Seq(Claim)
      /\ ~crossed => AccountAddsUp /\ MadeOf(purse, claims[s].of) = {}
  BY NothingAsked DEF DropsClaim
<1>2. /\ UNCHANGED <<found, report, keptOn, purse, asks, call, chain, made, answer, dropped, calls, refused, crossed>>
      /\ claims' = [claims EXCEPT ![s].st = "dropped"]
  BY DEF DropsClaim
<1>3. OneSettled(s) /\ claims'[s].st = "dropped" BY <1>1, <1>2, ClaimMarked DEF OneSettled
<1>4. TreasureTypeOK' BY <1>2, <1>3 DEF TreasureTypeOK, OneSettled
<1>5. OnePlaceEach' BY <1>2, <1>3, PlacesKept
<1>6. \A r \in Slots4 : Under(r) => r # s /\ r \in DOMAIN claims /\ claims'[r] = claims[r]
  BY <1>1, <1>3 DEF RequestsAreClaimed, OneSettled
<1>7. RequestsAreClaimed'
  <2>1. \A i \in DOMAIN claims' :
          /\ claims'[i].st = "pending" => i \in Slots4 /\ Under(i) /\ asks[i].step # "save"
          /\ claims'[i].st \in {"kept", "opened"} => claims'[i].chest \in ChestsOf(claims'[i].of)
    BY <1>3 DEF RequestsAreClaimed, OneSettled
  <2> QED BY <1>2, <1>3, <1>6, <2>1 DEF RequestsAreClaimed, Under, OneSettled
<1>8. ASSUME ~crossed' PROVE AccountAddsUp'
  <2>1. AccountAddsUp /\ MadeOf(purse, claims[s].of) = {} BY <1>1, <1>2, <1>8
  <2>2. \A i \in DOMAIN claims' :
          /\ claims'[i].st \in {"none", "dropped"} => MadeOf(purse, claims'[i].of) = {}
          /\ claims'[i].st = "kept" => claims'[i].chest \in purse.chests \cup purse.weapons \cup dropped
          /\ claims'[i].st = "opened" => claims'[i].chest \in purse.weapons
    BY <1>3, <2>1 DEF AccountAddsUp, Of, Holds, OneSettled
  <2> QED BY <1>2, <1>6, <2>1, <2>2, ZenonT(60) DEF AccountAddsUp, Of, Holds, Under, Undoes
<1> QED BY <1>4, <1>5, <1>7, <1>8

LEMMA AsksForInv == ASSUME TInv, NEW s \in Slots4, NEW how \in {"take", "open"}, AsksFor(s, how) PROVE TInv'
<1> USE DEF TInv, TreasureInv
<1> DEFINE q == [how |-> how, step |-> "chest", before |-> purse, touched |-> FALSE]
<1>1. /\ s \in DOMAIN claims /\ claims[s].st = "none" /\ ~Under(s) /\ ~IsToBeSaved(s) /\ claims \in Seq(Claim)
      /\ ~crossed => AccountAddsUp /\ MadeOf(purse, claims[s].of) = {}
  BY NothingAsked DEF AsksFor
<1>2. /\ UNCHANGED <<found, report, keptOn, purse, call, chain, made, answer, dropped, calls, refused, crossed>>
      /\ claims' = [claims EXCEPT ![s].st = "pending"]
      /\ asks' = [asks EXCEPT ![s] = q] /\ asks \in Asks4 /\ purse \in Purse
  BY DEF AsksFor, TreasureTypeOK, Asks4
<1>3. /\ q \in Ask /\ q.how # "none" /\ q.step = "chest" /\ q.before = purse /\ ~q.touched
  BY <1>2 DEF Ask
<1> HIDE DEF q
<1>4. asks' \in Asks4 /\ asks'[s] = q /\ \A r \in Slots4 : r # s => asks'[r] = asks[r]
  BY <1>2, <1>3 DEF Asks4
<1>5. OneSettled(s) /\ claims'[s].st = "pending" BY <1>1, <1>2, ClaimMarked DEF OneSettled
<1>6. TreasureTypeOK' BY <1>2, <1>4, <1>5 DEF TreasureTypeOK, OneSettled, Asks4
<1>7. OnePlaceEach' BY <1>2, <1>5, PlacesKept
<1>8. RequestsAreClaimed'
  <2>1. calls \in Nat /\ calls' = calls /\ purse'.other <= calls
    BY <1>2 DEF TreasureTypeOK, RequestsAreClaimed
  <2>2. Under(s)' /\ asks'[s].step = "chest" /\ asks'[s].before.other <= calls
    BY <1>2, <1>3, <1>4, <2>1 DEF Under
  <2>3. \A r \in Slots4 : IsToBeSaved(r)' <=> IsToBeSaved(r) BY <1>2 DEF IsToBeSaved
  <2>4. \A i, j \in DOMAIN chain' : chain'[i] = chain'[j] => i = j
    BY <1>2 DEF RequestsAreClaimed
  <2>5. \A r \in Slots4 : r # s =>
          /\ asks'[r].how = asks[r].how
          /\ Under(r) => asks'[r].step = asks[r].step /\ asks'[r].before = asks[r].before
    BY <1>4
  <2> QED BY <1>1, <1>5, <2>1, <2>2, <2>3, <2>4, <2>5, RequestMoves
<1>9. ASSUME ~crossed' PROVE AccountAddsUp'
  <2>1. AccountAddsUp /\ MadeOf(purse, claims[s].of) = {} BY <1>1, <1>2, <1>9
  <2>2. \A i \in DOMAIN claims' :
          /\ claims'[i].st \in {"none", "dropped"} => MadeOf(purse, claims'[i].of) = {}
          /\ claims'[i].st = "kept" => claims'[i].chest \in purse.chests \cup purse.weapons \cup dropped
          /\ claims'[i].st = "opened" => claims'[i].chest \in purse.weapons
    BY <1>5, <2>1 DEF AccountAddsUp, Of, Holds, OneSettled
  <2>3. \A r \in Slots4 : Under(r)' => /\ asks'[r].step = "chest" => MadeOf(purse, claims'[r].of) = {}
                                       /\ ~asks'[r].touched => Undoes(r)'
    <3> SUFFICES ASSUME NEW r \in Slots4, Under(r)'
                 PROVE  /\ asks'[r].step = "chest" => MadeOf(purse, claims'[r].of) = {}
                        /\ ~asks'[r].touched => Undoes(r)'
      OBVIOUS
    <3>1. CASE r = s
      <4>1. Without(purse.chests, claims[s].of) = purse.chests /\ Without(purse.weapons, claims[s].of) = purse.weapons
        BY <2>1 DEF Without, MadeOf
      <4>2. purse.keys \in Int BY <1>2, PurseFields
      <4>3. asks'[s].before = purse /\ purse' = purse /\ claims'[s].of = claims[s].of
        BY <1>1, <1>2, <1>3, <1>4, <1>5 DEF OneSettled
      <4>4. Undoes(s)' BY <4>1, <4>2, <4>3 DEF Undoes
      <4>5. MadeOf(purse, claims'[s].of) = {} BY <2>1, <4>3
      <4> QED BY <3>1, <4>4, <4>5
    <3>2. CASE r # s
      <4>1. Under(r) /\ asks'[r] = asks[r] BY <1>4, <3>2 DEF Under
      <4>2. r \in DOMAIN claims /\ claims'[r] = claims[r]
        BY <1>5, <3>2, <4>1 DEF RequestsAreClaimed, OneSettled
      <4> QED BY <1>2, <2>1, <4>1, <4>2 DEF AccountAddsUp, Of, Undoes
    <3> QED BY <3>1, <3>2
  <2> QED BY <1>2, <2>1, <2>2, <2>3 DEF AccountAddsUp, Of, Holds
<1> QED BY <1>6, <1>7, <1>8, <1>9

\* A request whose treasure is its own goes a step further, with its chest.
LEMMA RequestInv ==
  ASSUME TInv, NEW s \in Slots4, Under(s), IsToBeSaved(s) => FALSE,
         NEW st \in {"pending", "kept", "opened"}, NEW step \in {"weapon", "save"}, NEW c \in ChestsOf(claims[s].of),
         st = "pending" <=> step = "weapon",
         claims' = [claims EXCEPT ![s].st = st, ![s].chest = c],
         asks' = [Touches(asks, s) EXCEPT ![s].step = step],
         chain' \in Seq(Slots4), ChainIsOnce', \A r \in Slots4 : r # s => (IsToBeSaved(r)' <=> IsToBeSaved(r)),
         IsToBeSaved(s)' <=> step = "save",
         UNCHANGED <<found, report, keptOn, call, answer, dropped, calls, refused>>,
         made' \in [Treasure -> Nat], crossed' \in BOOLEAN,
         purse' \in Purse, purse'.other = purse.other,
         ~crossed' => /\ ~crossed /\ purse'.keys >= 0 /\ purse'.keys <= purse.keys /\ OnlyMoves(claims[s].of)
                      /\ MadeOf(purse', claims[s].of) \subseteq {c}
                      /\ st = "kept" => c \in purse'.chests
                      /\ st = "opened" => c \in purse'.weapons
  PROVE  TInv'
<1> USE DEF TInv, TreasureInv
<1>1. /\ asks \in Asks4 /\ asks[s] \in Ask /\ asks[s].before.other <= calls /\ s \in DOMAIN claims
      /\ claims \in Seq(Claim) /\ calls \in Nat /\ purse.other <= calls
  BY AskCases DEF TreasureTypeOK, Asks4, RequestsAreClaimed
<1>2. c \in Chest /\ claims[s].of \in Lying \cup {BossChest}
  <2>1. claims[s] \in Claim BY <1>1, ElementOfSeq, LenProperties
  <2>2. claims[s].of \in Lying \cup {BossChest} /\ claims[s].of \in Treasure
    BY <2>1 DEF Claim, Treasure
  <2> QED BY <2>2, ChestIsOf
<1>3. OneSettled(s) /\ claims'[s].st = st /\ claims'[s].chest = c
  BY <1>1, <1>2, ClaimSettled DEF OneSettled
<1>4. /\ asks' \in Asks4 /\ OthersNotice(s) /\ Under(s)' /\ asks'[s].step = step
      /\ asks'[s].before = asks[s].before /\ asks'[s].touched = asks[s].touched
  BY <1>1, AskSteps
<1>5. TreasureTypeOK' BY <1>3, <1>4 DEF TreasureTypeOK, OneSettled, Asks4
<1>6. OnePlaceEach' BY <1>3, PlacesKept
<1>7. RequestsAreClaimed'
  <2>1. \A r \in Slots4 : r # s =>
          /\ asks'[r].how = asks[r].how
          /\ Under(r) => asks'[r].step = asks[r].step /\ asks'[r].before = asks[r].before
    BY <1>4 DEF OthersNotice
  <2>2. \A i, j \in DOMAIN chain' : chain'[i] = chain'[j] => i = j BY DEF ChainIsOnce
  <2>3. /\ claims'[s].st = "pending" => Under(s)' /\ asks'[s].step # "save"
        /\ claims'[s].st \in {"kept", "opened"} => claims'[s].chest \in ChestsOf(claims[s].of)
        /\ Under(s)' => /\ asks'[s].before.other <= calls
                        /\ claims'[s].st \in IF asks'[s].step = "save" THEN {"kept", "opened"} ELSE {"pending"}
                        /\ asks'[s].step = "weapon" => claims'[s].chest \in ChestsOf(claims[s].of)
        /\ IsToBeSaved(s)' <=> Under(s)' /\ asks'[s].step = "save"
    BY <1>1, <1>3, <1>4
  <2>4. purse'.other <= calls /\ calls' = calls BY <1>1
  <2> QED BY <1>1, <1>3, <2>1, <2>2, <2>3, <2>4, RequestMoves
<1>8. ASSUME ~crossed' PROVE AccountAddsUp'
  <2>1. /\ AccountAddsUp /\ purse'.keys >= 0 /\ purse'.keys <= purse.keys /\ OnlyMoves(claims[s].of)
        /\ MadeOf(purse', claims[s].of) \subseteq {c}
        /\ st = "kept" => c \in purse'.chests
        /\ st = "opened" => c \in purse'.weapons
    BY <1>8
  <2>2. \A r \in Slots4 : r # s =>
          /\ asks'[r].how = asks[r].how
          /\ Under(r) => asks'[r].step = asks[r].step /\ asks'[r].touched
    BY <1>4 DEF OthersNotice
  <2>3. /\ \A x, y \in MadeOf(purse', claims[s].of) : x = y
        /\ claims'[s].st \in {"none", "dropped"} => MadeOf(purse', claims[s].of) = {}
        /\ claims'[s].st = "kept" => claims'[s].chest \in purse'.chests \cup purse'.weapons \cup dropped'
        /\ claims'[s].st = "opened" => claims'[s].chest \in purse'.weapons
        /\ Under(s)' => /\ asks'[s].step # "chest" /\ asks'[s].before = asks[s].before
                        /\ asks'[s].touched = asks[s].touched /\ purse'.keys <= purse.keys
    BY <1>3, <1>4, <2>1
  <2>4. TreasureTypeOK /\ OnePlaceEach /\ RequestsAreClaimed /\ UNCHANGED <<found, report, dropped>>
    OBVIOUS
  <2> QED BY <1>3, <2>1, <2>2, <2>3, <2>4, OwnTreasureMoves
<1> QED BY <1>5, <1>6, <1>7, <1>8

\* What a request under way says of its claim.
LEMMA RequestOf ==
  ASSUME TInv, NEW s \in Slots4, Under(s)
  PROVE  /\ s \in DOMAIN claims /\ claims \in Seq(Claim) /\ chain \in Seq(Slots4) /\ ChainIsOnce
         /\ claims[s].of \in Lying \cup {BossChest} /\ claims[s].of \in Treasure
         /\ asks \in Asks4 /\ asks[s] \in Ask /\ asks[s].how \in {"take", "open"}
         /\ asks[s].step # "save" => claims[s].st = "pending" /\ ~IsToBeSaved(s)
         /\ asks[s].step = "save" => claims[s].st \in {"kept", "opened"}
         /\ asks[s].step = "weapon" => claims[s].chest \in ChestsOf(claims[s].of)
         /\ ~crossed => AccountAddsUp
<1> USE DEF TInv, TreasureInv
<1>1. s \in DOMAIN claims /\ claims \in Seq(Claim) /\ chain \in Seq(Slots4) /\ asks \in Asks4
  BY DEF RequestsAreClaimed, TreasureTypeOK, Asks4
<1>2. claims[s] \in Claim BY <1>1, ElementOfSeq, LenProperties
<1>3. claims[s].of \in Lying \cup {BossChest} /\ claims[s].of \in Treasure
  BY <1>2 DEF Claim, Treasure
<1>4. asks[s] \in Ask /\ asks[s].how \in {"take", "open"} /\ asks[s].step \in {"chest", "weapon", "save"}
  BY <1>1, AskCases, AskFields
<1>5. ChainIsOnce /\ (asks[s].step # "save" => ~IsToBeSaved(s))
  BY DEF RequestsAreClaimed, ChainIsOnce, IsToBeSaved
<1>6. /\ asks[s].step # "save" => claims[s].st = "pending"
      /\ asks[s].step = "save" => claims[s].st \in {"kept", "opened"}
      /\ asks[s].step = "weapon" => claims[s].chest \in ChestsOf(claims[s].of)
  BY <1>4 DEF RequestsAreClaimed
<1> QED BY <1>1, <1>3, <1>4, <1>5, <1>6

\* The chest's id has come: kept, waiting for a weapon's id, opened, or refused for want of a key or of room.
LEMMA ChestComesInv == ASSUME TInv, NEW s \in Slots4, ChestComes(s) PROVE TInv'
<1> USE DEF TInv, TreasureInv
<1> DEFINE t == claims[s].of
           c == NewChest(t)
           cs == purse.chests \cup {c}
           with == [purse EXCEPT !.chests = cs]
<1>1. Under(s) /\ asks[s].step = "chest" BY DEF ChestComes, Under
<1>2. /\ s \in DOMAIN claims /\ claims \in Seq(Claim) /\ chain \in Seq(Slots4) /\ ChainIsOnce /\ ~IsToBeSaved(s)
      /\ t \in Lying \cup {BossChest} /\ t \in Treasure /\ (~crossed => AccountAddsUp)
  BY <1>1, RequestOf
<1>3. c \in ChestsOf(t) /\ c \in Chest /\ c[1] = t /\ made \in [Treasure -> Nat] /\ purse \in Purse /\ crossed \in BOOLEAN
  BY <1>2, NewChestIsOf DEF TreasureTypeOK
<1>4. UNCHANGED <<found, report, keptOn, call, dropped, calls, refused>> /\ MakesChest(t)
  BY DEF ChestComes
<1>5. made' \in [Treasure -> Nat] /\ refused' \in 0..MaxRefused
  BY <1>2, <1>3, <1>4, MadeChest DEF TreasureTypeOK
<1> HIDE DEF c
<1>6. cs \in SUBSET Chest BY <1>3, PurseFields
<1>7. /\ with \in Purse /\ with.chests = cs /\ with.weapons = purse.weapons /\ with.keys = purse.keys
      /\ with.other = purse.other /\ purse.keys \in Int
  BY <1>3, <1>6, PurseFields
<1>8. ~crossed => purse.keys >= 0 /\ MadeOf(purse, t) = {} BY <1>1, <1>2 DEF AccountAddsUp, Of
<1> HIDE DEF with
<1>9. CASE asks[s].how = "take" /\ purse' = with /\ SettlesClaim(s, "kept", c) /\ QueuesSave(s)
           /\ asks' = [Touches(asks, s) EXCEPT ![s].step = "save"] /\ UNCHANGED <<answer, crossed>>
  <2>1. chain' \in Seq(Slots4) /\ ChainIsOnce' /\ \A r : IsToBeSaved(r)' <=> IsToBeSaved(r) \/ r = s
    BY <1>2, <1>9, ChainGrows DEF QueuesSave
  <2>2. ~crossed' => /\ ~crossed /\ purse'.keys >= 0 /\ purse'.keys <= purse.keys /\ OnlyMoves(t)
                     /\ MadeOf(purse', t) \subseteq {c} /\ c \in purse'.chests
    BY <1>3, <1>7, <1>8, <1>9 DEF OnlyMoves, MadeOf
  <2> QED BY <1>1, <1>2, <1>3, <1>4, <1>5, <1>7, <1>9, <2>1, <2>2, RequestInv DEF SettlesClaim
<1>10. CASE purse' = with /\ SettlesClaim(s, "pending", c) /\ UNCHANGED chain
            /\ asks' = [Touches(asks, s) EXCEPT ![s].step = "weapon"] /\ UNCHANGED <<answer, crossed>>
  <2>1. chain' \in Seq(Slots4) /\ ChainIsOnce' /\ \A r : IsToBeSaved(r)' <=> IsToBeSaved(r)
    BY <1>2, <1>10 DEF ChainIsOnce, IsToBeSaved
  <2>2. ~crossed' => /\ ~crossed /\ purse'.keys >= 0 /\ purse'.keys <= purse.keys /\ OnlyMoves(t)
                     /\ MadeOf(purse', t) \subseteq {c}
    BY <1>3, <1>7, <1>8, <1>10 DEF OnlyMoves, MadeOf
  <2> QED BY <1>1, <1>2, <1>3, <1>4, <1>5, <1>7, <1>10, <2>1, <2>2, RequestInv DEF SettlesClaim
<1>11. CASE MayOpen /\ purse' = Opened(with, c) /\ SettlesClaim(s, "opened", c) /\ QueuesSave(s)
            /\ asks' = [Touches(asks, s) EXCEPT ![s].step = "save"] /\ UNCHANGED <<answer, crossed>>
  <2>1. chain' \in Seq(Slots4) /\ ChainIsOnce' /\ \A r : IsToBeSaved(r)' <=> IsToBeSaved(r) \/ r = s
    BY <1>2, <1>11, ChainGrows DEF QueuesSave
  <2>2. /\ purse' \in Purse /\ purse'.chests = with.chests \ {c} /\ purse'.weapons = with.weapons \cup {c}
        /\ purse'.keys = with.keys - 1 /\ purse'.other = with.other
    BY <1>3, <1>7, <1>11, OpenedFields
  <2>3. purse.keys >= 1 BY <1>11 DEF MayOpen
  <2>4. ~crossed' => /\ ~crossed /\ purse'.keys >= 0 /\ purse'.keys <= purse.keys /\ OnlyMoves(t)
                     /\ MadeOf(purse', t) \subseteq {c} /\ c \in purse'.weapons
    <3>1. purse'.keys >= 0 /\ purse'.keys <= purse.keys BY <1>7, <2>2, <2>3
    <3>2. purse'.chests \subseteq cs /\ purse'.weapons = purse.weapons \cup {c}
          /\ \A d : d # c => (d \in purse'.chests <=> d \in purse.chests)
      BY <1>7, <2>2
    <3> QED BY <1>3, <1>8, <1>11, <3>1, <3>2 DEF OnlyMoves, MadeOf
  <2> QED BY <1>1, <1>2, <1>3, <1>4, <1>5, <1>7, <1>11, <2>1, <2>2, <2>4, RequestInv DEF SettlesClaim
<1>12. CASE Fails(s) /\ UNCHANGED chain
  <2>1. chain' \in Seq(Slots4) /\ ChainIsOnce' /\ \A r : IsToBeSaved(r)' <=> IsToBeSaved(r)
    BY <1>2, <1>12 DEF ChainIsOnce, IsToBeSaved
  <2> QED BY <1>1, <1>2, <1>4, <1>5, <1>12, <2>1, FailsInv
<1> QED BY <1>9, <1>10, <1>11, <1>12 DEF ChestComes, c, with

\* The weapon's id has come.
LEMMA WeaponComesInv == ASSUME TInv, NEW s \in Slots4, WeaponComes(s) PROVE TInv'
<1> USE DEF TInv, TreasureInv
<1> DEFINE t == claims[s].of
           c == claims[s].chest
<1>1. Under(s) /\ asks[s].step = "weapon" BY DEF WeaponComes, Under
<1>2. /\ s \in DOMAIN claims /\ claims \in Seq(Claim) /\ chain \in Seq(Slots4) /\ ChainIsOnce /\ ~IsToBeSaved(s)
      /\ t \in Lying \cup {BossChest} /\ t \in Treasure /\ c \in ChestsOf(t) /\ (~crossed => AccountAddsUp)
  BY <1>1, RequestOf
<1>3. c \in Chest /\ c[1] = t /\ made \in [Treasure -> Nat] /\ purse \in Purse /\ crossed \in BOOLEAN
  BY <1>2, ChestIsOf DEF TreasureTypeOK
<1>4. /\ UNCHANGED <<found, report, keptOn, call, made, answer, dropped, calls, refused>>
      /\ SettlesClaim(s, "opened", c) /\ QueuesSave(s) /\ purse' = Opened(purse, c)
      /\ asks' = [Touches(asks, s) EXCEPT ![s].step = "save"]
      /\ crossed' = (crossed \/ purse.keys < 1 \/ c \notin purse.chests)
  BY DEF WeaponComes
<1>5. chain' \in Seq(Slots4) /\ ChainIsOnce' /\ \A r : IsToBeSaved(r)' <=> IsToBeSaved(r) \/ r = s
  BY <1>2, <1>4, ChainGrows DEF QueuesSave
<1>6. /\ purse' \in Purse /\ purse'.chests = purse.chests \ {c} /\ purse'.weapons = purse.weapons \cup {c}
      /\ purse'.keys = purse.keys - 1 /\ purse'.other = purse.other /\ purse.keys \in Int
  BY <1>3, <1>4, OpenedFields, PurseFields
<1>7. ASSUME ~crossed'
      PROVE  /\ ~crossed /\ purse'.keys >= 0 /\ purse'.keys <= purse.keys /\ OnlyMoves(t)
             /\ MadeOf(purse', t) \subseteq {c} /\ c \in purse'.weapons
  <2>1. ~crossed /\ ~(purse.keys < 1) /\ c \in purse.chests BY <1>4, <1>7
  <2>2. purse'.keys >= 0 /\ purse'.keys <= purse.keys BY <1>6, <2>1
  <2>3. \A d \in MadeOf(purse, t) : d = c BY <1>2, <1>3, <2>1 DEF AccountAddsUp, Of, MadeOf
  <2>4. MadeOf(purse', t) \subseteq {c} BY <1>6, <2>3 DEF MadeOf
  <2>5. OnlyMoves(t) BY <1>3, <1>6 DEF OnlyMoves
  <2> QED BY <1>6, <2>1, <2>2, <2>4, <2>5
<1>8. claims' = [claims EXCEPT ![s].st = "opened", ![s].chest = c] /\ crossed' \in BOOLEAN
  BY <1>4 DEF SettlesClaim
<1> HIDE DEF c
<1> QED BY <1>1, <1>2, <1>3, <1>4, <1>5, <1>6, <1>7, <1>8, RequestInv

\* An id does not come.
LEMMA IdFailsInv == ASSUME TInv, NEW s \in Slots4, IdFails(s) PROVE TInv'
<1>1. Under(s) /\ asks[s].step # "save" BY DEF IdFails, Under
<1>2. chain \in Seq(Slots4) /\ ChainIsOnce /\ ~IsToBeSaved(s) BY <1>1, RequestOf
<1>3. /\ UNCHANGED <<found, report, keptOn, call, chain, made, dropped, calls>> /\ Fails(s) /\ Refuses
      /\ made \in [Treasure -> Nat] /\ refused \in 0..MaxRefused
  BY DEF IdFails, TInv, TreasureTypeOK
<1>4. made' \in [Treasure -> Nat] /\ refused' \in 0..MaxRefused BY <1>3 DEF Refuses
<1>5. chain' \in Seq(Slots4) /\ ChainIsOnce' /\ \A r : IsToBeSaved(r)' <=> IsToBeSaved(r)
  BY <1>2, <1>3 DEF ChainIsOnce, IsToBeSaved
<1> QED BY <1>1, <1>2, <1>3, <1>4, <1>5, FailsInv

\* A request's save is over: answered, or rolled back.
LEMMA SettleEndsInv == ASSUME TInv, SettleEnds PROVE TInv'
<1> USE DEF TInv, TreasureInv
<1>1. chain \in Seq(Slots4) /\ ChainIsOnce /\ chain # <<>> /\ chain' = Tail(chain)
  BY DEF TreasureTypeOK, RequestsAreClaimed, ChainIsOnce, SettleEnds
<1>2. PICK s \in Slots4 : /\ s = Head(chain) /\ IsToBeSaved(s) /\ chain' \in Seq(Slots4) /\ ChainIsOnce'
                         /\ \A r : IsToBeSaved(r)' <=> IsToBeSaved(r) /\ r # s
  BY <1>1, ChainShrinks
<1>3. Under(s) /\ asks[s].step = "save" BY <1>2 DEF RequestsAreClaimed, IsToBeSaved
<1>4. /\ s \in DOMAIN claims /\ claims[s].st \in {"kept", "opened"} /\ asks \in Asks4
      /\ made \in [Treasure -> Nat] /\ refused \in 0..MaxRefused
  BY <1>2, <1>3, RequestOf DEF TreasureTypeOK
<1>5. UNCHANGED <<found, report, keptOn, call, made, dropped, calls>> BY DEF SettleEnds
<1>6. CASE Refuses /\ Fails(s)
  <2>1. made' \in [Treasure -> Nat] /\ refused' \in 0..MaxRefused
    BY <1>4, <1>5, <1>6 DEF Refuses
  <2> QED BY <1>2, <1>3, <1>5, <1>6, <2>1, FailsInv
<1>7. CASE /\ asks' = [asks EXCEPT ![s] = NoAsk] /\ answer' = [answer EXCEPT ![s] = claims[s].st]
           /\ UNCHANGED <<purse, claims, crossed, refused>>
  <2>0. asks' \in Asks4 /\ asks'[s] = NoAsk /\ \A r \in Slots4 : r # s => asks'[r] = asks[r]
    BY <1>2, <1>4, <1>7 DEF Asks4
  <2>1. asks' \in Asks4 /\ ~Under(s)' /\ \A r \in Slots4 : r # s => asks'[r] = asks[r] /\ (Under(r)' <=> Under(r))
    BY <2>0 DEF Under, NoAsk
  <2>2. TreasureTypeOK' BY <1>2, <1>4, <1>5, <1>7, <2>1 DEF TreasureTypeOK, Asks4
  <2>3. OnePlaceEach' BY <1>5, <1>7 DEF OnePlaceEach
  <2>4. \A r \in Slots4 : Under(r)' => r # s /\ Under(r) /\ asks'[r] = asks[r] BY <2>1
  <2>5. RequestsAreClaimed'
    <3>1. \A i \in DOMAIN claims' :
            /\ claims'[i].st = "pending" => i \in Slots4 /\ Under(i)' /\ asks'[i].step # "save"
            /\ claims'[i].st \in {"kept", "opened"} => claims'[i].chest \in ChestsOf(claims'[i].of)
      <4> SUFFICES ASSUME NEW i \in DOMAIN claims
                   PROVE  /\ claims[i].st = "pending" => i \in Slots4 /\ Under(i)' /\ asks'[i].step # "save"
                          /\ claims[i].st \in {"kept", "opened"} => claims[i].chest \in ChestsOf(claims[i].of)
        BY <1>7
      <4>1. claims[i].st = "pending" => i # s BY <1>4
      <4> QED BY <2>1, <4>1 DEF RequestsAreClaimed, Under
    <3>2. \A r \in Slots4 : Under(r)' =>
            /\ r \in DOMAIN claims' /\ asks'[r].before.other <= calls'
            /\ claims'[r].st \in IF asks'[r].step = "save" THEN {"kept", "opened"} ELSE {"pending"}
            /\ asks'[r].step = "weapon" => claims'[r].chest \in ChestsOf(claims'[r].of)
      BY <1>5, <1>7, <2>4 DEF RequestsAreClaimed
    <3>3. \A r \in Slots4 : IsToBeSaved(r)' <=> Under(r)' /\ asks'[r].step = "save"
      <4> SUFFICES ASSUME NEW r \in Slots4 PROVE IsToBeSaved(r)' <=> Under(r)' /\ asks'[r].step = "save"
        OBVIOUS
      <4>1. IsToBeSaved(r) <=> Under(r) /\ asks[r].step = "save"
        BY DEF RequestsAreClaimed, IsToBeSaved
      <4> QED BY <1>2, <2>1, <4>1
    <3>4. purse'.other <= calls' BY <1>5, <1>7 DEF RequestsAreClaimed
    <3> QED BY <1>2, <3>1, <3>2, <3>3, <3>4 DEF RequestsAreClaimed, IsToBeSaved, ChainIsOnce
  <2>6. ~crossed' => AccountAddsUp' BY <1>5, <1>7, <2>4 DEF AccountAddsUp, Of, Holds, Undoes
  <2> QED BY <2>2, <2>3, <2>5, <2>6
<1> QED BY <1>2, <1>6, <1>7 DEF SettleEnds

LEMMA TInvUnchanged == ASSUME TInv, UNCHANGED treasureVars PROVE TInv'
<1>1. /\ UNCHANGED <<found, claims, report, keptOn, purse, asks, call, chain, made, answer, dropped, calls>>
      /\ UNCHANGED <<refused, crossed>>
  BY DEF treasureVars
<1>2. TreasureTypeOK' BY <1>1 DEF TInv, TreasureTypeOK
<1>3. OnePlaceEach' /\ RequestsAreClaimed'
  BY <1>1 DEF TInv, TreasureInv, OnePlaceEach, RequestsAreClaimed, Under
<1>4. ~crossed' => AccountAddsUp'
  BY <1>1 DEF TInv, TreasureInv, AccountAddsUp, Of, Holds, Under, Undoes
<1> QED BY <1>2, <1>3, <1>4 DEF TInv, TreasureInv

\* No treasure is claimed, nothing asked, and the account holds one key.
LEMMA TInvInit == TreasureInit => TInv
<1> SUFFICES ASSUME TreasureInit PROVE TInv OBVIOUS
<1>1. /\ found = [lying |-> Lying, taking |-> {}] /\ claims = <<>> /\ report = FALSE /\ keptOn \in {"pickup", "report"}
      /\ purse = [chests |-> {}, weapons |-> {}, keys |-> 1, other |-> 0]
      /\ asks = [s \in Slots4 |-> NoAsk] /\ call = NoCall /\ chain = <<>>
      /\ made = [t \in Lying \cup {BossChest, Bought} |-> 0]
      /\ answer = [s \in Slots4 |-> "none"] /\ dropped = {} /\ calls = 0 /\ refused = 0 /\ crossed = FALSE
  BY DEF TreasureInit
<1>2. purse \in Purse /\ purse.chests = {} /\ purse.weapons = {} /\ purse.keys = 1 /\ purse.other = 0
  BY <1>1 DEF Purse
<1>3. found \in Founds /\ found.lying = Lying /\ found.taking = {} BY <1>1 DEF Founds
<1>4. \A s \in Slots4 : asks[s] = NoAsk /\ ~Under(s) BY <1>1 DEF Under, NoAsk
<1>5. claims \in Seq(Claim) /\ DOMAIN claims = {} /\ chain \in Seq(Slots4) /\ DOMAIN chain = {}
  BY <1>1
<1>6. TreasureTypeOK
  <2>1. made \in [Treasure -> Nat] /\ asks \in [Slots4 -> Ask \cup {NoAsk}] BY <1>1 DEF Treasure
  <2>2. answer \in [Slots4 -> {"none", "refused", "kept", "opened"}] BY <1>1
  <2>3. calls \in 0..MaxCalls /\ refused \in 0..MaxRefused /\ crossed \in BOOLEAN /\ report \in BOOLEAN
        /\ dropped \subseteq Chest
    <3>1. MaxCalls \in Nat /\ MaxRefused \in Nat OBVIOUS
    <3>2. calls \in 0..MaxCalls /\ refused \in 0..MaxRefused BY <1>1, <3>1
    <3>3. crossed = FALSE /\ report = FALSE /\ dropped = {} BY <1>1, Zenon
    <3> QED BY <3>2, <3>3
  <2>4. call \in Calling BY <1>1 DEF Calling
  <2> QED BY <1>1, <1>2, <1>3, <1>5, <2>1, <2>2, <2>3, <2>4 DEF TreasureTypeOK, Founds, Calling
<1>7. OnePlaceEach BY <1>3, <1>5 DEF OnePlaceEach
<1>8. RequestsAreClaimed BY <1>1, <1>2, <1>4, <1>5 DEF RequestsAreClaimed
<1>9. AccountAddsUp BY <1>2, <1>4, <1>5 DEF AccountAddsUp, Of, MadeOf
<1> QED BY <1>6, <1>7, <1>8, <1>9 DEF TInv, TreasureInv

LEMMA TreasureStepInv == TInv /\ [TreasureNext]_treasureVars => TInv'
<1> SUFFICES ASSUME TInv, [TreasureNext]_treasureVars PROVE TInv' OBVIOUS
<1>1. CASE \E t \in Lying \cup {BossChest} : Collects(t) \/ KeptOnPickup(t)
  BY <1>1, CollectsInv, KeptOnPickupInv
<1>2. CASE ReportIsAsked \/ SettleEnds \/ ChangesOther \/ Buys \/ CallEnds
  BY <1>2, ReportIsAskedInv, SettleEndsInv, ChangesOtherInv, BuysInv, CallEndsInv
<1>3. CASE \E s \in Slots4 : DropsClaim(s) \/ ChestComes(s) \/ WeaponComes(s) \/ IdFails(s)
  BY <1>3, DropsClaimInv, ChestComesInv, WeaponComesInv, IdFailsInv
<1>4. CASE \E s \in Slots4 : \E how \in {"take", "open"} : AsksFor(s, how) BY <1>4, AsksForInv
<1>5. CASE \E c \in purse.chests : DropsChest(c) \/ OpensChest(c)
  BY <1>5, DropsChestInv, OpensChestInv
<1>6. CASE UNCHANGED treasureVars BY <1>6, TInvUnchanged
<1> QED BY <1>1, <1>2, <1>3, <1>4, <1>5, <1>6 DEF TreasureNext

LEMMA InvAddsUp == TInv => OnlyCrossedOperationsLose
<1> SUFFICES ASSUME TInv, ~crossed
             PROVE  /\ purse.keys >= 0
                    /\ \A t \in Lying \cup {BossChest} : Cardinality(Of(t)) <= 1
                    /\ \A s \in DOMAIN claims :
                         /\ claims[s].st = "kept" => Holds(claims[s].chest)
                         /\ claims[s].st = "opened" => claims[s].chest \in purse.weapons
                         /\ claims[s].st \in {"none", "dropped"} => Of(claims[s].of) = {}
  BY DEF OnlyCrossedOperationsLose
<1>1. AccountAddsUp BY DEF TInv, TreasureInv
<1>2. ASSUME NEW t \in Lying \cup {BossChest} PROVE Cardinality(Of(t)) <= 1
  <2>1. \A c, d \in Of(t) : c = d BY <1>1 DEF AccountAddsUp
  <2> QED BY <2>1, AtMostOne
<1> QED BY <1>1, <1>2 DEF AccountAddsUp

\* Whatever the floor holds and the client calls, an account on which no two operations crossed has
\* what the report said of it: no chest is lost or doubled, no key spent twice (chests.js,
\* summary-chests.js).
THEOREM OnlyCrossingsLose == TreasureSpec => [](TreasureTypeOK /\ OnlyCrossedOperationsLose)
<1>1. TInv => TreasureTypeOK /\ OnlyCrossedOperationsLose BY InvAddsUp DEF TInv
<1> QED BY <1>1, TInvInit, TreasureStepInv, PTL DEF TreasureSpec

-----------------------------------------------------------------------------
(* How its floors end: the report is what was told.                        *)

\* There is a floor to go on to, and no second advance while the heroes are between two.
HasANext(f) ==
  /\ f.next => f.finished /\ f.at.floor < LastFloor /\ f.change \notin {"loading", "building"}
  /\ f.change = "loading" => f.at.floor < LastFloor
  /\ f.change \in {"loading", "building"} => f.finished

\* What is announced is what will be reported, and who has left is settled already.
FloorInv ==
  /\ fl.report = "none" => fl.paid = {} /\ fl.summary \in {"none", fl.told}
  /\ fl.report # "none" => fl.report = fl.told /\ (fl.paid # {} => fl.report = "won") /\ Party \subseteq settledOf
  /\ \A m \in Party : heroOf[m] = "left" => m \in settledOf
  /\ HasANext(fl)

\* What the parts of floorstate.js leave as it is: the report, and that it will say what was told.
Keeps(f, g) ==
  /\ g \in FloorStates /\ g.report = f.report /\ g.paid = f.paid
  /\ f.summary \in {"none", f.told} => g.summary \in {"none", g.told}
  /\ HasANext(f) => HasANext(g)

LEMMA FlagSet ==
  ASSUME NEW f \in FloorStates
  PROVE  /\ \A b \in BOOLEAN :
              /\ Keeps(f, [f EXCEPT !.failing = b]) /\ Keeps(f, [f EXCEPT !.cleared = b])
              /\ Keeps(f, [f EXCEPT !.victory = b])
              /\ Keeps(f, [f EXCEPT !.quick = b]) /\ Keeps(f, [f EXCEPT !.hasty = b])
              /\ Keeps(f, [f EXCEPT !.byLastFoe = b]) /\ Keeps(f, [f EXCEPT !.transition = b])
         /\ Keeps(f, [f EXCEPT !.finished = TRUE])
         /\ ~f.finished /\ f.at.floor < LastFloor => Keeps(f, [f EXCEPT !.finished = TRUE, !.next = TRUE])
<1>1. \A b \in BOOLEAN : /\ Keeps(f, [f EXCEPT !.failing = b]) /\ Keeps(f, [f EXCEPT !.cleared = b])
                         /\ Keeps(f, [f EXCEPT !.victory = b])
  BY DEF Keeps, FloorStates, HasANext
<1>2. \A b \in BOOLEAN : /\ Keeps(f, [f EXCEPT !.quick = b]) /\ Keeps(f, [f EXCEPT !.hasty = b])
                         /\ Keeps(f, [f EXCEPT !.byLastFoe = b]) /\ Keeps(f, [f EXCEPT !.transition = b])
  BY DEF Keeps, FloorStates, HasANext
<1>3. /\ Keeps(f, [f EXCEPT !.finished = TRUE])
      /\ ~f.finished /\ f.at.floor < LastFloor => Keeps(f, [f EXCEPT !.finished = TRUE, !.next = TRUE])
  BY DEF Keeps, FloorStates, HasANext
<1> QED BY <1>1, <1>2, <1>3

LEMMA KeepsOn ==
  ASSUME NEW e, NEW f, NEW g, Keeps(e, f), Keeps(f, g) PROVE Keeps(e, g)
BY DEF Keeps

LEMMA PartsKeep ==
  ASSUME NEW f \in FloorStates, NEW h \in [Party -> {"up", "down", "off", "left"}]
  PROVE  /\ Keeps(f, f)
         /\ \A o \in Outcomes : Keeps(f, Told(f, o))
         /\ Keeps(f, ReportFloorFailed(f)) /\ Keeps(f, CancelFloorFailing(f))
         /\ Keeps(f, BeginFloorFailing(f, h)) /\ Keeps(f, RefreshFloorFailing(f, h))
         /\ \A b, held \in BOOLEAN : Keeps(f, CompleteFloor(f, b, held))
         /\ \A held \in BOOLEAN : Keeps(f, CheckFloorCleared(f, held))
<1>1. ASSUME NEW e \in FloorStates, NEW o \in Outcomes PROVE Keeps(e, Told(e, o))
  <2>1. Told(e, o) \in FloorStates BY <1>1 DEF Told, Scheduled, FloorStates
  <2>2. /\ Told(e, o).report = e.report /\ Told(e, o).paid = e.paid /\ Told(e, o).summary = o /\ Told(e, o).told = o
        /\ Told(e, o).change = e.change /\ Told(e, o).at = e.at
        /\ Told(e, o).next = e.next /\ Told(e, o).finished = e.finished
    BY <1>1 DEF Told, Scheduled, FloorStates
  <2> QED BY <2>1, <2>2 DEF Keeps, HasANext
<1>2. \A e \in FloorStates : Keeps(e, CancelFloorFailing(e)) BY FlagSet DEF CancelFloorFailing
<1>3. ASSUME NEW e \in FloorStates PROVE Keeps(e, e) BY <1>3 DEF Keeps
<1>4. ASSUME NEW e \in FloorStates PROVE Keeps(e, ReportFloorFailed(e))
  <2>1. PICK d \in FloorStates : d = [e EXCEPT !.failing = FALSE] /\ Keeps(e, d)
    BY <1>4, FlagSet DEF Keeps
  <2>2. PICK c \in FloorStates : c = [d EXCEPT !.cleared = TRUE] /\ Keeps(d, c)
    BY FlagSet DEF Keeps
  <2>3. "lost" \in Outcomes /\ Keeps(c, Told(c, "lost")) /\ Keeps(e, c)
    BY <1>1, <2>1, <2>2, KeepsOn DEF Outcomes
  <2>4. c = [e EXCEPT !.failing = FALSE, !.cleared = TRUE] BY <2>1, <2>2
  <2>5. ReportFloorFailed(e) = IF e.cleared THEN e ELSE Told(c, "lost")
    BY <2>4 DEF ReportFloorFailed
  <2>6. Keeps(e, Told(c, "lost")) /\ Keeps(e, e) BY <1>3, <1>4, <2>3, KeepsOn
  <2> QED BY <2>5, <2>6
<1>5. Keeps(f, BeginFloorFailing(f, h))
  <2>1. Keeps(f, f) /\ Keeps(f, ReportFloorFailed(f)) /\ Keeps(f, [f EXCEPT !.failing = TRUE])
    BY <1>3, <1>4, FlagSet
  <2> QED BY <2>1 DEF BeginFloorFailing
<1>6. Keeps(f, RefreshFloorFailing(f, h)) BY <1>2, <1>3, <1>5 DEF RefreshFloorFailing
<1>7. ASSUME NEW e \in FloorStates, NEW b \in BOOLEAN, NEW held \in BOOLEAN PROVE Keeps(e, CompleteFloor(e, b, held))
  <2>1. PICK d \in FloorStates : d = [e EXCEPT !.finished = TRUE] /\ Keeps(e, d)
    BY <1>7, FlagSet DEF Keeps
  <2>2. ~e.finished /\ e.at.floor < LastFloor => Keeps(e, [e EXCEPT !.finished = TRUE, !.next = TRUE])
    BY <1>7, FlagSet
  <2>3. PICK v \in FloorStates : v = [d EXCEPT !.victory = TRUE] /\ Keeps(d, v)
    BY FlagSet DEF Keeps
  <2>4. PICK y \in FloorStates : y = [v EXCEPT !.hasty = e.quick] /\ Keeps(v, y)
    <3>1. e.quick \in BOOLEAN BY <1>7 DEF FloorStates
    <3> QED BY <3>1, FlagSet DEF Keeps
  <2>5. Keeps(y, [y EXCEPT !.byLastFoe = b]) BY <1>7, FlagSet
  <2>6. [e EXCEPT !.finished = TRUE, !.victory = TRUE, !.hasty = e.quick, !.byLastFoe = b]
          = [y EXCEPT !.byLastFoe = b]
    BY <2>1, <2>3, <2>4
  <2>7. Keeps(e, [e EXCEPT !.finished = TRUE, !.victory = TRUE, !.hasty = e.quick, !.byLastFoe = b])
    BY <2>1, <2>3, <2>4, <2>5, <2>6, KeepsOn
  <2> QED BY <1>3, <1>7, <2>2, <2>7 DEF CompleteFloor
<1>8. ASSUME NEW held \in BOOLEAN PROVE Keeps(f, CheckFloorCleared(f, held))
  <2>1. PICK d \in FloorStates : d = [f EXCEPT !.cleared = TRUE] /\ Keeps(f, d)
    BY FlagSet DEF Keeps
  <2>2. PICK c \in FloorStates : c = CancelFloorFailing(d) /\ Keeps(f, c)
    <3>1. Keeps(d, CancelFloorFailing(d)) BY <1>2
    <3>2. CancelFloorFailing(d) \in FloorStates BY <3>1 DEF Keeps
    <3> QED BY <2>1, <3>1, <3>2, KeepsOn
  <2>3. Keeps(f, CompleteFloor(c, TRUE, held)) /\ Keeps(f, f) BY <1>3, <1>7, <1>8, <2>2, KeepsOn
  <2> QED BY <2>1, <2>2, <2>3 DEF CheckFloorCleared
<1> QED BY <1>1, <1>2, <1>3, <1>4, <1>5, <1>6, <1>7, <1>8

\* What a step must keep.
FInv == FloorTypeOK /\ FloorInv

LEMMA FloorMoves ==
  ASSUME FInv, Keeps(fl, fl'), fl.report = "none" \/ fl' = fl,
         heroOf' \in [Party -> {"up", "down", "off", "left"}], bombs' \in [Party -> 0..MaxBombs],
         bombing' \in [Party -> {"idle", "spends", "raises", "raisesAll"}],
         settledOf \subseteq settledOf', settledOf' \subseteq Party,
         \A m \in Party : heroOf'[m] = "left" => heroOf[m] = "left" \/ m \in settledOf'
  PROVE  FInv'
BY DEF FInv, FloorTypeOK, FloorInv, Keeps, HasANext

\* Steps of the floor that settle nobody and after which nobody more has left.
LEMMA FloorFollows ==
  ASSUME FInv, Keeps(fl, fl'), fl.report = "none" \/ fl' = fl, Quiet,
         heroOf' \in [Party -> {"up", "down", "off", "left"}],
         \A m \in Party : heroOf'[m] = "left" => heroOf[m] = "left"
  PROVE  FInv'
BY FloorMoves DEF FInv, FloorTypeOK, Quiet

LEMMA FoesAndDecisions ==
  ASSUME FInv, FoeFalls \/ FloorDecides \/ ModeDecides \/ ModeEndsFloor PROVE FInv'
<1>1. fl \in FloorStates /\ heroOf \in [Party -> {"up", "down", "off", "left"}]
  BY DEF FInv, FloorTypeOK
<1>2. fl.report = "none" /\ Quiet /\ UNCHANGED heroOf
  BY DEF FoeFalls, FloorDecides, ModeDecides, ModeEndsFloor, Playing, Active
<1>3. CASE FoeFalls
  <2>1. PICK f \in FloorStates : f = [fl EXCEPT !.at.foes = @ - 1] /\ Keeps(fl, f)
    <3>1. fl.at.foes \in 1..MaxFoes /\ fl.at.foes - 1 \in 0..MaxFoes
      BY <1>1, <1>3, FloorAssumption DEF FoeFalls, FloorStates
    <3>2. PICK a : a = [fl.at EXCEPT !.foes = fl.at.foes - 1] OBVIOUS
    <3>3. a \in [floor : 1..LastFloor, foes : 0..MaxFoes, exits : BOOLEAN, authored : BOOLEAN]
      BY <1>1, <3>1, <3>2 DEF FloorStates
    <3>4. [fl EXCEPT !.at.foes = @ - 1] = [fl EXCEPT !.at = a] BY <1>1, <3>2
    <3>5. [fl EXCEPT !.at = a] \in FloorStates /\ Keeps(fl, [fl EXCEPT !.at = a])
      BY <1>1, <3>2, <3>3 DEF FloorStates, Keeps, HasANext
    <3> QED BY <3>4, <3>5
  <2>2. Keeps(fl, fl') BY <1>1, <1>3, <2>1, PartsKeep, KeepsOn DEF FoeFalls
  <2> QED BY <1>1, <1>2, <2>2, FloorFollows
<1>4. CASE FloorDecides
  <2>1. PICK f \in FloorStates : f = [fl EXCEPT !.quick = TRUE] /\ Keeps(fl, f)
    BY <1>1, FlagSet DEF Keeps
  <2>2. /\ Keeps(fl, fl) /\ Keeps(fl, ReportFloorFailed(fl))
        /\ Keeps(fl, CompleteFloor(f, FALSE, FALSE))
    BY <1>1, <2>1, PartsKeep, KeepsOn
  <2>3. Keeps(fl, fl') BY <1>4, <2>1, <2>2 DEF FloorDecides
  <2> QED BY <1>1, <1>2, <2>3, FloorFollows
<1>5. CASE ModeDecides
  <2>1. PICK d \in FloorStates : d = CancelFloorFailing(fl) /\ Keeps(fl, d)
    BY <1>1, PartsKeep DEF Keeps
  <2>2. PICK e \in FloorStates : e = [d EXCEPT !.finished = TRUE] /\ Keeps(d, e)
    BY FlagSet DEF Keeps
  <2>3. PICK f \in FloorStates : f = [e EXCEPT !.cleared = TRUE] /\ Keeps(e, f)
    BY FlagSet DEF Keeps
  <2>4. f = [CancelFloorFailing(fl) EXCEPT !.finished = TRUE, !.cleared = TRUE]
    BY <2>1, <2>2, <2>3
  <2>5. PICK g \in FloorStates : g = [fl EXCEPT !.finished = TRUE] /\ Keeps(fl, g)
    BY <1>1, FlagSet DEF Keeps
  <2>6. PICK k \in FloorStates : k = [g EXCEPT !.cleared = FALSE] /\ Keeps(g, k)
    BY FlagSet DEF Keeps
  <2>7. k = [fl EXCEPT !.finished = TRUE, !.cleared = FALSE] BY <2>5, <2>6
  <2>8. Keeps(f, Told(f, "won")) /\ Keeps(k, ReportFloorFailed(k))
    BY PartsKeep, <1>1 DEF Outcomes
  <2>9. Keeps(fl, Told(f, "won")) /\ Keeps(fl, ReportFloorFailed(k))
    BY <2>1, <2>2, <2>3, <2>5, <2>6, <2>8, KeepsOn
  <2>10. Keeps(fl, fl') BY <1>5, <2>4, <2>7, <2>9 DEF ModeDecides
  <2> QED BY <1>1, <1>2, <2>10, FloorFollows
<1>6. CASE ModeEndsFloor
  <2>1. Keeps(fl, fl') BY <1>1, <1>6, PartsKeep DEF ModeEndsFloor
  <2> QED BY <1>1, <1>2, <2>1, FloorFollows
<1> QED BY <1>3, <1>4, <1>5, <1>6

LEMMA HeroesMove ==
  ASSUME FInv, NEW m \in Party,
         HeroFalls(m) \/ ReachesFloorExit(m) \/ \E v \in Party : RescuesAlly(m, v)
  PROVE  FInv'
<1>1. fl \in FloorStates /\ heroOf \in [Party -> {"up", "down", "off", "left"}]
  BY DEF FInv, FloorTypeOK
<1>2. fl.report = "none" /\ Quiet
  BY DEF HeroFalls, ReachesFloorExit, RescuesAlly, Playing, Active
<1>3. heroOf' \in [Party -> {"up", "down", "off", "left"}] /\ \A v \in Party : heroOf'[v] = "left" => heroOf[v] = "left"
  BY <1>1 DEF HeroFalls, ReachesFloorExit, RescuesAlly
<1>4. CASE HeroFalls(m)
  <2>1. Keeps(fl, fl') BY <1>1, <1>3, <1>4, PartsKeep DEF HeroFalls
  <2> QED BY <1>2, <1>3, <2>1, FloorFollows
<1>5. CASE ReachesFloorExit(m)
  <2>1. PICK e \in FloorStates : e = [fl EXCEPT !.transition = TRUE] /\ Keeps(fl, e)
    BY <1>1, FlagSet DEF Keeps
  <2>2. PICK f \in FloorStates : f = [e EXCEPT !.quick = TRUE] /\ Keeps(e, f)
    BY FlagSet DEF Keeps
  <2>3. f = [fl EXCEPT !.transition = TRUE, !.quick = TRUE] BY <2>1, <2>2
  <2>4. \A held \in BOOLEAN : Keeps(f, CompleteFloor(f, FALSE, held)) BY <1>1, PartsKeep
  <2>5. Keeps(fl, fl') BY <1>5, <2>1, <2>2, <2>3, <2>4, KeepsOn DEF ReachesFloorExit
  <2> QED BY <1>2, <1>3, <2>5, FloorFollows
<1>6. CASE \E v \in Party : RescuesAlly(m, v)
  <2>1. Keeps(fl, fl') BY <1>1, <1>6, PartsKeep DEF RescuesAlly
  <2> QED BY <1>2, <1>3, <2>1, FloorFollows
<1> QED BY <1>4, <1>5, <1>6

LEMMA BombsGoOff ==
  ASSUME FInv, NEW m \in Party, ProposesSelfRevive(m) \/ SpendsBomb(m) \/ BombRaises(m)
  PROVE  FInv'
<1>1. /\ fl \in FloorStates /\ heroOf \in [Party -> {"up", "down", "off", "left"}] /\ settledOf \subseteq Party
      /\ bombs \in [Party -> 0..MaxBombs] /\ bombing \in [Party -> {"idle", "spends", "raises", "raisesAll"}]
  BY DEF FInv, FloorTypeOK
<1>2. Keeps(fl, fl) BY <1>1, PartsKeep
<1>3. CASE ProposesSelfRevive(m) BY <1>1, <1>2, <1>3, FloorMoves DEF ProposesSelfRevive
<1>4. CASE SpendsBomb(m)
  <2>1. bombs' \in [Party -> 0..MaxBombs]
    <3>1. bombs[m] # 0 => bombs[m] - 1 \in 0..MaxBombs BY <1>1, FloorAssumption
    <3> QED BY <1>1, <1>4, <3>1 DEF SpendsBomb
  <2>2. bombing' \in [Party -> {"idle", "spends", "raises", "raisesAll"}]
    BY <1>1, <1>4 DEF SpendsBomb
  <2> QED BY <1>1, <1>2, <1>4, <2>1, <2>2, FloorMoves DEF SpendsBomb
<1>5. CASE BombRaises(m)
  <2>1. Keeps(fl, CancelFloorFailing(fl)) BY <1>1, PartsKeep
  <2>2. Keeps(fl, fl') /\ (fl.report = "none" \/ fl' = fl)
    BY <1>2, <1>5, <2>1 DEF BombRaises, Active
  <2>3. /\ heroOf' \in [Party -> {"up", "down", "off", "left"}]
        /\ \A v \in Party : heroOf'[v] = "left" => heroOf[v] = "left"
    BY <1>1, <1>5 DEF BombRaises
  <2> QED BY <1>1, <1>5, <2>2, <2>3, FloorMoves DEF BombRaises
<1> QED BY <1>3, <1>4, <1>5

LEMMA TimersFire ==
  ASSUME FInv, FloorTimers PROVE FInv'
<1>1. /\ fl \in FloorStates /\ heroOf \in [Party -> {"up", "down", "off", "left"}]
      /\ fl.report = "none" /\ fl.summary \in {"none", fl.told} /\ settledOf \subseteq Party
  BY DEF FInv, FloorTypeOK, FloorInv, FloorTimers, CountdownEnds, VictoryComes, SummaryComes, Active
<1>2. CASE CountdownEnds
  <2>1. PICK f \in FloorStates : f = [fl EXCEPT !.failing = FALSE] /\ Keeps(fl, f)
    BY <1>1, FlagSet DEF Keeps
  <2>2. Keeps(f, ReportFloorFailed(f)) BY <1>1, PartsKeep
  <2>3. Keeps(fl, fl') BY <1>2, <2>1, <2>2, KeepsOn DEF CountdownEnds
  <2> QED BY <1>1, <1>2, <2>3, FloorFollows DEF CountdownEnds
<1>3. CASE VictoryComes
  <2>1. PICK f \in FloorStates : f = [fl EXCEPT !.victory = FALSE] /\ Keeps(fl, f)
    BY <1>1, FlagSet DEF Keeps
  <2>2. Keeps(f, Told(f, "won")) BY <1>1, PartsKeep DEF Outcomes
  <2>3. Keeps(fl, fl') BY <1>3, <2>1, <2>2, KeepsOn DEF VictoryComes
  <2> QED BY <1>1, <1>3, <2>3, FloorFollows DEF VictoryComes
<1>4. CASE SummaryComes
  <2>1. /\ fl' \in FloorStates /\ fl'.report = fl.told /\ fl'.told = fl.told
        /\ fl'.paid # {} => fl'.report = "won"
        /\ (HasANext(fl) => HasANext(fl'))
    <3>1. Present \subseteq Party BY DEF Present
    <3>2. /\ fl'.report = fl.summary /\ fl'.told = fl.told
          /\ fl'.paid = IF fl.summary = "won" THEN Present ELSE {}
      BY <1>1, <1>4 DEF SummaryComes, FloorStates
    <3>3. PICK p \in SUBSET Party : p = IF fl.summary = "won" THEN Present ELSE {} BY <3>1
    <3>4. fl' = [fl EXCEPT !.report = fl.summary, !.summary = "none", !.failing = FALSE, !.victory = FALSE, !.paid = p]
      BY <1>4, <3>3 DEF SummaryComes
    <3>5. fl' \in FloorStates BY <1>1, <3>4 DEF FloorStates, Outcomes
    <3>6. HasANext(fl) => HasANext(fl') BY <1>1, <3>4 DEF HasANext, FloorStates
    <3> QED BY <1>1, <1>4, <3>2, <3>5, <3>6 DEF SummaryComes
  <2>2. settledOf' = settledOf \cup Present /\ settledOf' \subseteq Party
    BY <1>1, <1>4 DEF SummaryComes, SettlesFloor, Present
  <2>3. Party \subseteq settledOf' BY <2>2 DEF FInv, FloorInv, Present
  <2>4. fl'.report # "none" BY <1>1, <1>4, <2>1 DEF SummaryComes
  <2>5. heroOf' \in [Party -> {"up", "down", "off", "left"}] /\ UNCHANGED <<bombs, bombing>>
    BY <1>1, <1>4 DEF SummaryComes
  <2> QED BY <2>1, <2>2, <2>3, <2>4, <2>5 DEF FInv, FloorTypeOK, FloorInv
<1> QED BY <1>2, <1>3, <1>4 DEF FloorTimers

LEMMA FloorsChange ==
  ASSUME FInv, FloorChange \/ FloorChangeFails PROVE FInv'
<1>1. fl \in FloorStates /\ heroOf \in [Party -> {"up", "down", "off", "left"}] /\ fl.report = "none" /\ Quiet
  BY DEF FInv, FloorTypeOK, FloorChange, AdvanceStarts, FloorIsLoaded, FloorIsPeopled, FloorIsBuilt, FloorChangeFails, Active
<1>2. heroOf' \in [Party -> {"up", "down", "off", "left"}] /\ \A v \in Party : heroOf'[v] = "left" => heroOf[v] = "left"
  <2>1. \/ heroOf' = heroOf
        \/ \E p \in {"up", "off"} : heroOf' = [m \in Party |-> IF heroOf[m] = "left" THEN "left" ELSE p]
    BY <1>1 DEF FloorChange, AdvanceStarts, FloorIsLoaded, FloorIsPeopled, FloorIsBuilt, FloorChangeFails
  <2> QED BY <1>1, <2>1
<1> DEFINE Places == [floor : 1..LastFloor, foes : 0..MaxFoes, exits : BOOLEAN, authored : BOOLEAN]
<1>3. HasANext(fl) /\ fl.at \in Places BY <1>1 DEF FInv, FloorInv, FloorStates
<1>4. Keeps(fl, fl')
  <2>1. CASE AdvanceStarts BY <1>1, <1>3, <2>1 DEF AdvanceStarts, Keeps, FloorStates, HasANext
  <2>2. CASE FloorIsLoaded
    <3>1. PICK k \in Kinds(fl.at.floor + 1) :
            fl' = [fl EXCEPT !.change = "building", !.cleared = FALSE, !.at.floor = @ + 1, !.at.foes = 0,
                             !.at.authored = k.authored]
      BY <2>2 DEF FloorIsLoaded
    <3>2. fl.change = "loading" /\ fl.finished /\ ~fl.next /\ fl.at.floor < LastFloor /\ fl.at.floor \in 1..LastFloor
      BY <1>1, <1>3, <2>2 DEF HasANext, FloorIsLoaded, FloorStates
    <3>3. fl.at.floor + 1 \in 1..LastFloor /\ 0 \in 0..MaxFoes /\ k.authored \in BOOLEAN
      BY <3>2, FloorAssumption DEF Kinds
    <3>4. PICK a : a = [fl.at EXCEPT !.floor = @ + 1, !.foes = 0, !.authored = k.authored]
      OBVIOUS
    <3>5. a \in Places BY <1>3, <3>3, <3>4
    <3>6. fl' = [fl EXCEPT !.change = "building", !.cleared = FALSE, !.at = a]
      BY <1>1, <3>1, <3>4 DEF FloorStates
    <3>7. fl' \in FloorStates BY <1>1, <3>5, <3>6 DEF FloorStates
    <3> QED BY <1>1, <3>2, <3>6, <3>7 DEF Keeps, FloorStates, HasANext
  <2>3. CASE FloorIsPeopled
    <3>1. PICK n \in 0..MaxFoes : fl' = [fl EXCEPT !.change = "filling", !.finished = FALSE, !.at.foes = n]
      BY <2>3 DEF FloorIsPeopled
    <3>2. PICK a : a = [fl.at EXCEPT !.foes = n] OBVIOUS
    <3>3. a \in Places /\ fl' = [fl EXCEPT !.change = "filling", !.finished = FALSE, !.at = a]
      BY <1>1, <1>3, <3>1, <3>2 DEF FloorStates
    <3>4. ~fl.next BY <1>3, <2>3 DEF HasANext, FloorIsPeopled
    <3>5. fl' \in FloorStates BY <1>1, <3>3 DEF FloorStates
    <3> QED BY <1>1, <3>3, <3>4, <3>5 DEF Keeps, FloorStates, HasANext
  <2>4. CASE FloorIsBuilt
    <3>1. PICK k \in Kinds(fl.at.floor), n \in fl.at.foes..MaxFoes :
            fl' = [fl EXCEPT !.change = "none", !.transition = FALSE, !.at.foes = n, !.at.exits = k.exits]
      BY <2>4 DEF FloorIsBuilt
    <3>2. n \in 0..MaxFoes /\ k.exits \in BOOLEAN BY <1>3, FloorAssumption DEF Kinds
    <3>3. PICK a : a = [fl.at EXCEPT !.foes = n, !.exits = k.exits] OBVIOUS
    <3>4. a \in Places /\ a.floor = fl.at.floor BY <1>3, <3>2, <3>3
    <3>5. fl' = [fl EXCEPT !.change = "none", !.transition = FALSE, !.at = a]
      BY <1>1, <3>1, <3>3 DEF FloorStates
    <3>6. fl' \in FloorStates BY <1>1, <3>4, <3>5 DEF FloorStates
    <3> QED BY <1>1, <3>4, <3>5, <3>6 DEF Keeps, FloorStates, HasANext
  <2>5. CASE FloorChangeFails BY <1>1, <2>5 DEF FloorChangeFails, Keeps, FloorStates, HasANext
  <2> QED BY <2>1, <2>2, <2>3, <2>4, <2>5 DEF FloorChange
<1> QED BY <1>1, <1>2, <1>4, FloorFollows

LEMMA OneLeaves ==
  ASSUME FInv, NEW m \in Party, LeavesFloor(m) PROVE FInv'
<1>1. /\ fl \in FloorStates /\ heroOf \in [Party -> {"up", "down", "off", "left"}] /\ settledOf \subseteq Party
      /\ bombs \in [Party -> 0..MaxBombs] /\ bombing \in [Party -> {"idle", "spends", "raises", "raisesAll"}]
  BY DEF FInv, FloorTypeOK
<1>2. /\ heroOf' = [heroOf EXCEPT ![m] = "left"] /\ heroOf' \in [Party -> {"up", "down", "off", "left"}]
      /\ settledOf' = settledOf \cup {m} /\ UNCHANGED <<bombs, bombing>>
  BY <1>1 DEF LeavesFloor, SettlesFloor
<1>3. CASE fl.report = "none"
  <2>1. PICK d \in FloorStates : d = [fl EXCEPT !.failing = FALSE] /\ Keeps(fl, d)
    BY <1>1, FlagSet DEF Keeps
  <2>2. PICK e \in FloorStates : e = [d EXCEPT !.victory = FALSE] /\ Keeps(d, e)
    BY FlagSet DEF Keeps
  <2>3. Keeps(e, [e EXCEPT !.summary = "none"]) BY DEF Keeps, FloorStates, Outcomes, HasANext
  <2>4. [fl EXCEPT !.failing = FALSE, !.victory = FALSE, !.summary = "none"] = [e EXCEPT !.summary = "none"]
    BY <2>1, <2>2
  <2>5. Keeps(fl, [fl EXCEPT !.failing = FALSE, !.victory = FALSE, !.summary = "none"])
    BY <2>1, <2>2, <2>3, <2>4, KeepsOn
  <2>6. Keeps(fl, fl) BY <1>1, PartsKeep
  <2>7. \A h \in [Party -> {"up", "down", "off", "left"}] : Keeps(fl, RefreshFloorFailing(fl, h))
    BY <1>1, PartsKeep
  <2>8. Keeps(fl, fl') BY <1>2, <2>5, <2>6, <2>7 DEF LeavesFloor
  <2> QED BY <1>1, <1>2, <1>3, <2>8, FloorMoves
<1>4. CASE fl.report # "none"
  <2>1. fl' \in {fl, [fl EXCEPT !.failing = FALSE, !.victory = FALSE, !.summary = "none"]}
    BY <1>4 DEF LeavesFloor, Active
  <2>2. PICK e : e = [fl EXCEPT !.failing = FALSE, !.victory = FALSE, !.summary = "none"]
    OBVIOUS
  <2>3. e \in FloorStates /\ e.report = fl.report /\ e.told = fl.told /\ e.paid = fl.paid /\ (HasANext(fl) => HasANext(e))
    BY <1>1, <2>2 DEF FloorStates, Outcomes, HasANext
  <2>4. /\ fl' \in FloorStates /\ fl'.report = fl.report /\ fl'.told = fl.told /\ fl'.paid = fl.paid
        /\ HasANext(fl) => HasANext(fl')
    BY <1>1, <2>1, <2>2, <2>3
  <2> QED BY <1>1, <1>2, <1>4, <2>4 DEF FInv, FloorTypeOK, FloorInv, HasANext
<1> QED BY <1>3, <1>4

LEMMA FloorBegins == FloorInit => FInv
<1> SUFFICES ASSUME FloorInit PROVE FInv OBVIOUS
<1>1. PICK k \in Kinds(1), r \in BOOLEAN :
       fl = [at |-> NewFloor(1, k), revives |-> r, finished |-> FALSE, cleared |-> FALSE,
             transition |-> FALSE, failing |-> FALSE, victory |-> FALSE,
             quick |-> FALSE, hasty |-> FALSE, byLastFoe |-> FALSE, next |-> FALSE, change |-> "none",
             summary |-> "none", told |-> "none", report |-> "none", paid |-> {}]
  BY DEF FloorInit
<1>2. NewFloor(1, k) \in [floor : 1..LastFloor, foes : 0..MaxFoes, exits : BOOLEAN, authored : BOOLEAN]
  BY FloorAssumption DEF NewFloor, Kinds
<1>3. fl \in FloorStates /\ fl.report = "none" /\ fl.paid = {} /\ fl.summary = "none" /\ HasANext(fl)
  BY <1>1, <1>2 DEF FloorStates, Outcomes, HasANext
<1>4. /\ heroOf \in [Party -> {"up", "down", "off", "left"}] /\ bombs \in [Party -> 0..MaxBombs]
      /\ bombing \in [Party -> {"idle", "spends", "raises", "raisesAll"}] /\ settledOf \subseteq Party
      /\ \A m \in Party : heroOf[m] # "left"
  BY FloorAssumption DEF FloorInit
<1> QED BY <1>3, <1>4 DEF FInv, FloorTypeOK, FloorInv

LEMMA FloorStepStays ==
  ASSUME FInv, [FloorNext]_floorVars PROVE FInv'
<1>1. CASE UNCHANGED floorVars BY <1>1 DEF floorVars, FInv, FloorTypeOK, FloorInv, HasANext
<1> QED BY <1>1, FoesAndDecisions, HeroesMove, BombsGoOff, TimersFire, FloorsChange, OneLeaves DEF FloorNext

LEMMA FloorHolds == FloorSpec => []FInv
BY FloorBegins, FloorStepStays, PTL DEF FloorSpec

\* The one report of a run says what its members were last told, whatever defeat, victory and countdown
\* crossed on the way to it; only a win is paid, and nobody who was there or had left is unsettled.
THEOREM ReportSaysWhatWasTold == FloorSpec => []ReportIsAsTold
<1>1. FInv => ReportIsAsTold BY DEF FInv, FloorInv, ReportIsAsTold
<1> QED BY <1>1, FloorHolds, PTL

-----------------------------------------------------------------------------
(* The dungeon as one: the saves, the treasures and the world side by side. *)

LEMMA DungeonSteps ==
  [AllNext]_allVars => [Next]_vars /\ [TreasureNext]_treasureVars /\ [WorldNext]_worldVars
BY DEF AllNext, allVars

LEMMA DungeonHolds == AllSpec => [](Inv /\ TInv /\ WInv)
<1> DEFINE All == Inv /\ TInv /\ WInv
<1>1. AllInit => All BY InvInit, TInvInit, WInvInit DEF AllInit
<1>2. All /\ [AllNext]_allVars => All' BY DungeonSteps, InvStep, TreasureStepInv, WorldStepInv
<1> QED BY <1>1, <1>2, PTL DEF AllSpec

\* The accounts, the chests, the claims and the world of a dungeon keep their types.
THEOREM DungeonTypeCorrect == AllSpec => []DungeonTypeOK
<1>1. Inv /\ TInv /\ WInv => DungeonTypeOK BY DEF DungeonTypeOK, Inv, TInv, WInv
<1> QED BY <1>1, DungeonHolds, PTL

\* The account adds up beside everything else a dungeon does (chests.js, summary-chests.js, store.js).
THEOREM DungeonAccountsAddUp == AllSpec => []TreasuresAddUp
<1>1. Inv /\ TInv /\ WInv => TreasuresAddUp BY InvAddsUp DEF TInv, TreasuresAddUp
<1> QED BY <1>1, DungeonHolds, PTL

\* So do the saves in their turn, kept unless overtaken, and the world everybody in it sees
\* (session.js, match-world.js).
THEOREM DungeonKeepsItsWord ==
  AllSpec => [](EverySaveIsInTurn /\ LetGoUnwrittenOnlyIfOvertaken /\ JoinersSeeTheWorld)
<1>1. Inv /\ TInv /\ WInv => EverySaveIsInTurn /\ LetGoUnwrittenOnlyIfOvertaken /\ JoinersSeeTheWorld
  BY InvSaves, InvShowsEverybody
<1> QED BY <1>1, DungeonHolds, PTL
=============================================================================
