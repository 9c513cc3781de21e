---------------------------- MODULE EconomyProofs ----------------------------
(***************************************************************************)
(* What changes hands between accounts is neither lost nor doubled, and    *)
(* gifts keep to their ration, for any accounts, weapons, requests and     *)
(* prices.                                                                 *)
(*                                                                         *)
(* The invariant follows two copies of what all accounts have: what will   *)
(* be if every request under way succeeds (Ahead) and what will be if each *)
(* of them fails (Behind).  Both are sound at every step that no fault cut *)
(* in half, and at rest they are what is at hand and what is on file.      *)
(***************************************************************************)
EXTENDS Economy, FiniteSetTheorems, WellFoundedInduction, Integers, TLAPS

-----------------------------------------------------------------------------
(* Value, as it changes hands (Economy).                                   *)

Value(k) == k.gold + (Price - Tax) * k.sold + Tax * k.sales
Gifts(k) == k.pile + k.stock
GoodsFiles == [gold : Int, bag : SUBSET Weapons, up : SUBSET Weapons, sold : Int, sales : Int, pile : Int, stock : Int, sent : SUBSET Accounts]

UnderWay(r) == request[r].at \in {"grants", "changed", "staged", "half"}
InHands(a) == \E r \in Requests : UnderWay(r) /\ a \in Parties(r)
InHalf(a) == \E r \in Requests : Halved(r) /\ a \in Parties(r)
Granting(a) == \E r \in Requests : request[r].at = "grants" /\ request[r].me = a
\* What will be if what is under way succeeds, and if it fails
Ahead == [a \in Accounts |-> IF a \in played \/ InHands(a) THEN object[a] ELSE filed[a]]
Behind == [a \in Accounts |-> IF InHalf(a) THEN object[a] ELSE filed[a]]

\* A weapon in a bag, or put up
Has(f, a, s, w) == IF s THEN w \in f[a].bag ELSE w \in f[a].up
Held(f, some, w) == \E a \in some, s \in BOOLEAN : Has(f, a, s, w)
AtMostOnce(f, some, w) == \A a, b \in some, s, t \in BOOLEAN : Has(f, a, s, w) /\ Has(f, b, t, w) => a = b /\ s = t
Sound(f) ==
  /\ \A w \in Weapons : Held(f, Accounts, w) /\ AtMostOnce(f, Accounts, w)
  /\ Worth(f) = Purse * Cardinality(Accounts)
Balanced(f, g, m, y) ==
  /\ \A w \in Weapons : Held(f, {m, y}, w) <=> Held(g, {m, y}, w)
  /\ IF m = y THEN Value(g[m]) = Value(f[m]) ELSE Value(g[m]) + Value(g[y]) = Value(f[m]) + Value(f[y])
\* Two copies that differ in no more than what is on the pile of gifts
Alike(k, l) == k.gold = l.gold /\ k.bag = l.bag /\ k.up = l.up /\ k.sold = l.sold /\ k.sales = l.sales /\ k.sent = l.sent
SendersIn(f, a) == {b \in Accounts : a \in f[b].sent}

IsRequest(q) == q = [op |-> q.op, me |-> q.me, you |-> q.you, weapon |-> q.weapon, at |-> q.at, shared |-> q.shared, staged |-> q.staged]
AskedWell(q) ==
  /\ q.me \in Accounts /\ q.you \in Accounts /\ q.weapon \in Weapons
  /\ q.op \in TwoPartyOps <=> q.me # q.you
  /\ q.op \in {"trade", "list", "buy", "cancel", "claim", "gift", "accept"}
\* What a call does to gifts and the log of them
Gives(q, f, g) ==
  IF q.op = "accept" THEN Alike(f[q.me], g[q.me]) /\ Gifts(g[q.me]) = Gifts(f[q.me]) - 1
  ELSE /\ q.me # q.you => g[q.you].sent = f[q.you].sent /\ Gifts(g[q.me]) = Gifts(f[q.me])
       /\ IF q.op = "gift" THEN /\ q.you \notin f[q.me].sent /\ g[q.me].sent = f[q.me].sent \cup {q.you}
                                /\ Gifts(g[q.you]) = Gifts(f[q.you]) + 1
          ELSE g[q.me].sent = f[q.me].sent /\ Gifts(g[q.you]) = Gifts(f[q.you])
RequestFits(r) == LET q == request[r] IN
  /\ IsRequest(q) /\ q.at \in {"idle", "asks", "grants", "changed", "staged", "half"}
  /\ q.at # "idle" => AskedWell(q)
  /\ q.at = "grants" => q.op = "accept"
  /\ q.at = "half" => q.op \in TwoPartyOps /\ filed[FirstOf(r)] = object[FirstOf(r)]
  /\ UnderWay(r) => \A a \in Parties(r) : locked[a] = r
  /\ UnderWay(r) /\ q.op \notin TwoPartyOps /\ q.op # "accept" => ~q.shared
  /\ UnderWay(r) /\ ~q.shared => Parties(r) \cap played = {}
  /\ q.at \in {"staged", "half"} => \A a \in Parties(r) : q.staged[a] = object[a]
LocksFit == \A a \in Accounts : locked[a] = Nobody \/ (locked[a] \in Requests /\ request[locked[a]].at # "idle" /\ a \in Parties(locked[a]))
EconomyShape ==
  /\ filed \in [Accounts -> GoodsFiles] /\ object \in [Accounts -> GoodsFiles]
  /\ played \subseteq Accounts /\ locked = [a \in Accounts |-> locked[a]] /\ request = [r \in Requests |-> request[r]]
  /\ LocksFit /\ \A r \in Requests : RequestFits(r)

PlayedAlike == \A a \in played : ~InHands(a) => Alike(filed[a], object[a]) /\ Gifts(filed[a]) <= Gifts(object[a])
\* What a request has changed and not saved can be taken back
CanGoBack(r) == LET q == request[r] IN
  IF q.op = "accept" THEN Alike(filed[q.me], object[q.me]) /\ Gifts(filed[q.me]) <= Gifts(object[q.me]) + (IF q.at = "grants" THEN 1 ELSE 0)
  ELSE Balanced(filed, object, q.me, q.you) /\ Gives(q, filed, object)
LinkFits(r) ==
  UnderWay(r) => IF Halved(r) THEN \A a \in Parties(r) : Gifts(filed[a]) <= Gifts(object[a]) ELSE CanGoBack(r)
Links == PlayedAlike /\ \A r \in Requests : LinkFits(r)
Rationed ==
  \A a \in Accounts : /\ a \notin Ahead[a].sent
                      /\ Gifts(Ahead[a]) + (IF Granting(a) THEN 1 ELSE 0) <= Cardinality(SendersIn(Ahead, a))
Intact == Sound(Ahead) /\ Sound(Behind) /\ Links /\ Rationed
EconomyInv == EconomyShape /\ (~torn => Intact)

-----------------------------------------------------------------------------
(* What all accounts are worth together.                                   *)

LEMMA LeastIs == ASSUME NEW S \in SUBSET Nat, S # {} PROVE \E x \in S : \A y \in S : x <= y
<1> DEFINE R == {p \in Nat \X Nat : p[1] < p[2]}
<1>1. IsWellFoundedOn(R, Nat) BY NatLessThanWellFounded DEF OpToRel
<1>2. \E x \in S : \A y \in S : ~ (<<y, x>> \in R) BY <1>1, WFMin
<1>3. PICK x \in S : \A y \in S : ~ (<<y, x>> \in R) BY <1>2
<1>4. ASSUME NEW y \in S PROVE x <= y
  <2>1. x \in Nat /\ y \in Nat /\ ~(y < x) BY <1>3
  <2> QED BY <2>1
<1> QED BY <1>4

\* The account with which the sum goes on
One(s) == CHOOSE x \in s : TRUE
\* The sums of v over the sets of accounts
AddsUp(g, v) == g = [s \in SUBSET Accounts |-> IF s = {} THEN 0 ELSE v[One(s)] + g[s \ {One(s)}]]
\* up to those of n accounts
AddsUpTo(g, v, n) ==
  \A s \in SUBSET Accounts : Cardinality(s) <= n => g[s] = IF s = {} THEN 0 ELSE v[One(s)] + g[s \ {One(s)}]

LEMMA OneIs == ASSUME NEW s \in SUBSET Accounts, s # {}
  PROVE  /\ One(s) \in s /\ s \ {One(s)} \in SUBSET Accounts
         /\ Cardinality(s) \in Nat /\ Cardinality(s \ {One(s)}) = Cardinality(s) - 1 /\ Cardinality(s) - 1 \in Nat /\ IsFiniteSet(s)
<1>1. One(s) \in s BY DEF One
<1>2. IsFiniteSet(s) BY FS_Subset, EconomyAssumption
<1>3. Cardinality(s \ {One(s)}) = Cardinality(s) - 1 /\ IsFiniteSet(s \ {One(s)})
  BY <1>1, <1>2, FS_RemoveElement
<1> QED BY <1>1, <1>2, <1>3, FS_CardinalityType

LEMMA SizeOf == ASSUME NEW s \in SUBSET Accounts PROVE IsFiniteSet(s) /\ Cardinality(s) \in Nat /\ (Cardinality(s) = 0 <=> s = {})
  BY FS_Subset, EconomyAssumption, FS_CardinalityType, FS_EmptySet

LEMMA AddsUpExists == ASSUME NEW v PROVE \E g : AddsUp(g, v)
<1> DEFINE Fine(n) == \E g : g = [s \in SUBSET Accounts |-> g[s]] /\ AddsUpTo(g, v, n)
           Bad == {m \in Nat : ~Fine(m)}
<1>1. ASSUME Bad # {} PROVE FALSE
  <2>1. PICK m \in Bad : \A y \in Bad : m <= y BY <1>1, LeastIs
  <2>2. CASE m = 0
    <3> DEFINE g == [s \in SUBSET Accounts |-> 0]
    <3>1. AddsUpTo(g, v, 0) BY SizeOf DEF AddsUpTo
    <3>2. Fine(0) BY <3>1
    <3> QED BY <2>1, <2>2, <3>2
  <2>3. CASE m # 0
    <3>0. m - 1 \in Nat /\ m \in Nat BY <2>1, <2>3
    <3>1. Fine(m - 1)
      <4>1. ~(m <= m - 1) BY <3>0
      <4>2. m - 1 \notin Bad BY <2>1, <4>1
      <4> HIDE DEF Fine
      <4> QED BY <3>0, <4>2
    <3>2. PICK f : AddsUpTo(f, v, m - 1) BY <3>1
    <3> DEFINE g == [s \in SUBSET Accounts |-> IF s = {} THEN 0 ELSE v[One(s)] + f[s \ {One(s)}]]
    <3>3. ASSUME NEW s \in SUBSET Accounts, Cardinality(s) <= m - 1 PROVE g[s] = f[s]
      BY <3>2, <3>3 DEF AddsUpTo
    <3>4. ASSUME NEW s \in SUBSET Accounts, Cardinality(s) <= m, s # {} PROVE g[s \ {One(s)}] = f[s \ {One(s)}]
      <4>1. s \ {One(s)} \in SUBSET Accounts /\ Cardinality(s \ {One(s)}) <= m - 1
        BY <3>0, <3>4, OneIs
      <4> QED BY <3>3, <4>1
    <3>5. AddsUpTo(g, v, m) BY <3>4 DEF AddsUpTo
    <3>6. Fine(m) BY <3>5
    <3> QED BY <2>1, <3>6
  <2> QED BY <2>2, <2>3
<1>2. Cardinality(Accounts) \in Nat BY SizeOf
<1>3. Fine(Cardinality(Accounts)) BY <1>1, <1>2
<1>4. PICK g : g = [s \in SUBSET Accounts |-> g[s]] /\ AddsUpTo(g, v, Cardinality(Accounts))
  BY <1>3
<1>5. ASSUME NEW s \in SUBSET Accounts PROVE Cardinality(s) <= Cardinality(Accounts)
  BY FS_Subset, EconomyAssumption
<1>6. ASSUME NEW s \in SUBSET Accounts PROVE g[s] = IF s = {} THEN 0 ELSE v[One(s)] + g[s \ {One(s)}]
  BY <1>4, <1>5 DEF AddsUpTo
<1>7. AddsUp(g, v) BY <1>4, <1>6 DEF AddsUp
<1> QED BY <1>7

LEMMA WorthIs == ASSUME NEW f PROVE \E g : AddsUp(g, [a \in Accounts |-> Value(f[a])]) /\ Worth(f) = g[Accounts]
<1> DEFINE v == [a \in Accounts |-> Value(f[a])]
           Body(g) == [s \in SUBSET Accounts |-> IF s = {} THEN 0 ELSE LET x == CHOOSE y \in s : TRUE IN
                         (f[x].gold + (Price - Tax) * f[x].sold + Tax * f[x].sales) + g[s \ {x}]]
           F == CHOOSE g : g = Body(g)
<1>1. Worth(f) = F[Accounts] BY Zenon DEF Worth, MapThenSumSet, MapThenFoldSet
<1>2. ASSUME NEW g PROVE g = Body(g) <=> AddsUp(g, v)
  <2>1. ASSUME NEW s \in SUBSET Accounts, s # {} PROVE v[One(s)] = f[One(s)].gold + (Price - Tax) * f[One(s)].sold + Tax * f[One(s)].sales
    BY <2>1, OneIs DEF Value
  <2>2. Body(g) = [s \in SUBSET Accounts |-> IF s = {} THEN 0 ELSE v[One(s)] + g[s \ {One(s)}]]
    <3>1. Body(g) = [s \in SUBSET Accounts |-> IF s = {} THEN 0 ELSE
                       (f[One(s)].gold + (Price - Tax) * f[One(s)].sold + Tax * f[One(s)].sales) + g[s \ {One(s)}]]
      BY Zenon DEF One
    <3> HIDE DEF v
    <3> QED BY <2>1, <3>1
  <2> QED BY <2>2 DEF AddsUp
<1>3. \E g : g = Body(g)
  <2>1. \E g : AddsUp(g, v) BY AddsUpExists
  <2> HIDE DEF v, Body
  <2> QED BY <1>2, <2>1
<1>4. F = Body(F) BY <1>3, Zenon
<1> QED BY <1>1, <1>2, <1>4

LEMMA SumsAre ==
  ASSUME NEW v \in [Accounts -> Int], NEW g, AddsUp(g, v)
  PROVE  \A s \in SUBSET Accounts : g[s] \in Int
<1> DEFINE Good(n) == \A s \in SUBSET Accounts : Cardinality(s) = n => g[s] \in Int
           Bad == {n \in Nat : ~Good(n)}
<1>1. ASSUME Bad # {} PROVE FALSE
  <2>1. PICK m \in Bad : \A y \in Bad : m <= y BY <1>1, LeastIs
  <2>2. PICK s \in SUBSET Accounts : Cardinality(s) = m /\ g[s] \notin Int BY <2>1
  <2>3. g[s] = IF s = {} THEN 0 ELSE v[One(s)] + g[s \ {One(s)}] BY DEF AddsUp
  <2>4. CASE s = {} BY <2>2, <2>3, <2>4
  <2>5. CASE s # {}
    <3>1. m \in Nat /\ m - 1 \in Nat /\ s \ {One(s)} \in SUBSET Accounts /\ Cardinality(s \ {One(s)}) = m - 1 /\ One(s) \in Accounts
      BY <2>2, <2>5, OneIs
    <3>2. m - 1 \notin Bad
      <4>1. ~(m <= m - 1) BY <3>1
      <4> QED BY <2>1, <4>1
    <3>3. g[s \ {One(s)}] \in Int BY <3>1, <3>2
    <3> QED BY <2>2, <2>3, <2>5, <3>1, <3>3
  <2> QED BY <2>4, <2>5
<1> QED BY <1>1, SizeOf

\* What one account gains, all of them gain
LEMMA OneGains ==
  ASSUME NEW v \in [Accounts -> Int], NEW w \in [Accounts -> Int], NEW a \in Accounts, \A b \in Accounts \ {a} : w[b] = v[b],
         NEW g, AddsUp(g, v), NEW h, AddsUp(h, w), NEW gain, gain = w[a] - v[a]
  PROVE  h[Accounts] = g[Accounts] + gain
<1> DEFINE Good(n) == \A s \in SUBSET Accounts : Cardinality(s) = n => h[s] = g[s] + (IF a \in s THEN gain ELSE 0)
           Bad == {n \in Nat : ~Good(n)}
<1>0. \A s \in SUBSET Accounts : g[s] \in Int /\ h[s] \in Int BY SumsAre
<1>1. ASSUME Bad # {} PROVE FALSE
  <2>1. PICK m \in Bad : \A y \in Bad : m <= y BY <1>1, LeastIs
  <2>2. PICK s \in SUBSET Accounts : Cardinality(s) = m /\ h[s] # g[s] + (IF a \in s THEN gain ELSE 0)
    BY <2>1
  <2>x. PICK x : x = One(s) OBVIOUS
  <2>3. g[s] = (IF s = {} THEN 0 ELSE v[x] + g[s \ {x}]) /\ h[s] = (IF s = {} THEN 0 ELSE w[x] + h[s \ {x}])
    BY <2>x DEF AddsUp
  <2>4. CASE s = {} BY <2>2, <2>3, <2>4
  <2>5. CASE s # {}
    <3>1. m \in Nat /\ m - 1 \in Nat /\ s \ {x} \in SUBSET Accounts /\ Cardinality(s \ {x}) = m - 1 /\ x \in s
      BY <2>2, <2>5, <2>x, OneIs
    <3>2. m - 1 \notin Bad
      <4>1. ~(m <= m - 1) BY <3>1
      <4> QED BY <2>1, <4>1
    <3>3. h[s \ {x}] = g[s \ {x}] + (IF a \in s \ {x} THEN gain ELSE 0) BY <3>1, <3>2
    <3>4. CASE x = a
      <4>1. h[s \ {x}] = g[s \ {x}] BY <1>0, <3>1, <3>3, <3>4
      <4> QED BY <1>0, <2>2, <2>3, <2>5, <3>1, <3>4, <4>1
    <3>5. CASE x # a
      <4>1. w[x] = v[x] /\ v[x] \in Int BY <3>1, <3>5
      <4>2. CASE a \in s
        <5>1. h[s \ {x}] = g[s \ {x}] + gain BY <3>3, <3>5, <4>2
        <5> QED BY <1>0, <2>2, <2>3, <2>5, <3>1, <4>1, <4>2, <5>1
      <4>3. CASE a \notin s
        <5>1. h[s \ {x}] = g[s \ {x}] BY <1>0, <3>1, <3>3, <4>3
        <5> QED BY <1>0, <2>2, <2>3, <2>5, <3>1, <4>1, <4>3, <5>1
      <4> QED BY <4>2, <4>3
    <3> QED BY <3>4, <3>5
  <2> QED BY <2>4, <2>5
<1>2. Good(Cardinality(Accounts)) BY <1>1, SizeOf
<1> QED BY <1>2

LEMMA AllAlike ==
  ASSUME NEW v, NEW x \in Nat, \A a \in Accounts : v[a] = x, NEW g, AddsUp(g, v)
  PROVE  g[Accounts] = x * Cardinality(Accounts)
<1> DEFINE Good(n) == \A s \in SUBSET Accounts : Cardinality(s) = n => g[s] = x * n
           Bad == {n \in Nat : ~Good(n)}
<1>1. ASSUME Bad # {} PROVE FALSE
  <2>1. PICK m \in Bad : \A y \in Bad : m <= y BY <1>1, LeastIs
  <2>2. PICK s \in SUBSET Accounts : Cardinality(s) = m /\ g[s] # x * m BY <2>1
  <2>y. PICK y : y = One(s) OBVIOUS
  <2>3. g[s] = IF s = {} THEN 0 ELSE v[y] + g[s \ {y}] BY <2>y DEF AddsUp
  <2>4. CASE s = {}
    <3>1. m = 0 /\ x * 0 = 0 BY <2>2, <2>4, FS_EmptySet
    <3> QED BY <2>2, <2>3, <2>4, <3>1
  <2>5. CASE s # {}
    <3>1. m \in Nat /\ m - 1 \in Nat /\ s \ {y} \in SUBSET Accounts /\ Cardinality(s \ {y}) = m - 1 /\ y \in s
      BY <2>2, <2>5, <2>y, OneIs
    <3>2. m - 1 \notin Bad
      <4>1. ~(m <= m - 1) BY <3>1
      <4> QED BY <2>1, <4>1
    <3>3. g[s \ {y}] = x * (m - 1) BY <3>1, <3>2
    <3>4. v[y] = x BY <3>1
    <3>5. x + x * (m - 1) = x * m BY <3>1
    <3> QED BY <2>2, <2>3, <2>5, <3>3, <3>4, <3>5
  <2> QED BY <2>4, <2>5
<1>2. Good(Cardinality(Accounts)) BY <1>1, SizeOf
<1> QED BY <1>2

\* Whose values are numbers
Priced(f) == \A b \in Accounts : Value(f[b]) \in Int

LEMMA WorthOne ==
  ASSUME NEW f, NEW k, NEW a \in Accounts, Priced(f), Priced(k), \A b \in Accounts \ {a} : Value(k[b]) = Value(f[b])
  PROVE  Worth(k) = Worth(f) + (Value(k[a]) - Value(f[a])) /\ Worth(f) \in Int /\ Worth(k) \in Int
<1>v. PICK v : v = [b \in Accounts |-> Value(f[b])] OBVIOUS
<1>w. PICK w : w = [b \in Accounts |-> Value(k[b])] OBVIOUS
<1>1. v \in [Accounts -> Int] /\ w \in [Accounts -> Int] /\ v[a] = Value(f[a]) /\ w[a] = Value(k[a]) /\ \A b \in Accounts \ {a} : w[b] = v[b]
  BY <1>v, <1>w DEF Priced
<1>2. PICK g : AddsUp(g, v) /\ Worth(f) = g[Accounts] BY <1>v, WorthIs
<1>3. PICK h : AddsUp(h, w) /\ Worth(k) = h[Accounts] BY <1>w, WorthIs
<1>4. g[Accounts] \in Int /\ h[Accounts] \in Int BY <1>1, <1>2, <1>3, SumsAre
<1>5. h[Accounts] = g[Accounts] + (w[a] - v[a]) BY <1>1, <1>2, <1>3, OneGains
<1> QED BY <1>1, <1>2, <1>3, <1>4, <1>5

\* What one loses another gains
LEMMA WorthTwo ==
  ASSUME NEW f, NEW k, NEW a \in Accounts, NEW b \in Accounts, a # b, Priced(f), Priced(k),
         \A c \in Accounts \ {a, b} : Value(k[c]) = Value(f[c]), Value(k[a]) + Value(k[b]) = Value(f[a]) + Value(f[b])
  PROVE  Worth(k) = Worth(f)
<1>m. PICK m : m = [c \in Accounts |-> IF c = a THEN k[c] ELSE f[c]] OBVIOUS
<1>1. m[a] = k[a] /\ m[b] = f[b] /\ (\A c \in Accounts \ {a} : m[c] = f[c]) /\ (\A c \in Accounts \ {b} : Value(k[c]) = Value(m[c]))
  BY <1>m
<1>2. Priced(m) BY <1>m DEF Priced
<1>3. Worth(m) = Worth(f) + (Value(k[a]) - Value(f[a])) /\ Worth(f) \in Int /\ Worth(m) \in Int
  <2>1. Worth(m) = Worth(f) + (Value(m[a]) - Value(f[a])) /\ Worth(f) \in Int /\ Worth(m) \in Int
    BY <1>1, <1>2, WorthOne
  <2> QED BY <1>1, <2>1
<1>4. Worth(k) = Worth(m) + (Value(k[b]) - Value(m[b])) /\ Worth(k) \in Int
  BY <1>1, <1>2, WorthOne
<1>5. Value(k[a]) \in Int /\ Value(k[b]) \in Int /\ Value(f[a]) \in Int /\ Value(f[b]) \in Int /\ m[b] = f[b]
  BY <1>1 DEF Priced
<1> QED BY <1>3, <1>4, <1>5

\* Where one or two accounts change hands among themselves, nothing is lost or doubled
LEMMA GoodsMove ==
  ASSUME NEW f, NEW g, Priced(f), Priced(g), NEW m \in Accounts, NEW y \in Accounts,
         \A a \in Accounts \ {m, y} : Alike(f[a], g[a]), Balanced(f, g, m, y), \A w \in Weapons : AtMostOnce(g, {m, y}, w), Sound(f)
  PROVE  Sound(g)
<1>1. ASSUME NEW a \in Accounts \ {m, y} PROVE Value(g[a]) = Value(f[a]) /\ \A s \in BOOLEAN, w \in Weapons : Has(f, a, s, w) <=> Has(g, a, s, w)
  <2>1. Alike(f[a], g[a]) OBVIOUS
  <2> QED BY <2>1 DEF Alike, Value, Has
<1>2. Worth(g) = Worth(f)
  <2>1. CASE m = y
    <3>1. \A b \in Accounts : Value(g[b]) = Value(f[b]) BY <1>1, <2>1 DEF Balanced
    <3>2. Worth(g) = Worth(f) + (Value(g[m]) - Value(f[m])) /\ Worth(f) \in Int
      BY <3>1, WorthOne
    <3>3. Value(g[m]) = Value(f[m]) /\ Value(f[m]) \in Int BY <3>1 DEF Priced
    <3> QED BY <3>2, <3>3
  <2>2. CASE m # y BY <1>1, <2>2, WorthTwo DEF Balanced
  <2> QED BY <2>1, <2>2
<1>3. ASSUME NEW w \in Weapons PROVE Held(g, Accounts, w) /\ AtMostOnce(g, Accounts, w)
  <2>1. Held(f, Accounts, w) /\ AtMostOnce(f, Accounts, w) /\ AtMostOnce(g, {m, y}, w)
    BY DEF Sound
  <2>2. Held(f, {m, y}, w) <=> Held(g, {m, y}, w) BY DEF Balanced
  <2>3. Held(g, Accounts, w)
    <3>1. PICK a \in Accounts, s \in BOOLEAN : Has(f, a, s, w) BY <2>1 DEF Held
    <3>2. CASE a \in {m, y} BY <2>2, <3>1, <3>2 DEF Held
    <3>3. CASE a \notin {m, y} BY <1>1, <3>1, <3>3 DEF Held
    <3> QED BY <3>2, <3>3
  <2>4. ASSUME NEW a \in Accounts, NEW b \in Accounts, NEW s \in BOOLEAN, NEW t \in BOOLEAN, Has(g, a, s, w), Has(g, b, t, w), a \in {m, y}, b \notin {m, y}
        PROVE FALSE
    <3>1. PICK c \in {m, y}, u \in BOOLEAN : Has(f, c, u, w) BY <2>2, <2>4 DEF Held
    <3>2. Has(f, b, t, w) BY <1>1, <2>4
    <3> QED BY <2>1, <2>4, <3>1, <3>2 DEF AtMostOnce
  <2>5. ASSUME NEW a \in Accounts, NEW b \in Accounts, NEW s \in BOOLEAN, NEW t \in BOOLEAN, Has(g, a, s, w), Has(g, b, t, w) PROVE a = b /\ s = t
    <3>1. CASE a \in {m, y} /\ b \in {m, y} BY <2>1, <2>5, <3>1 DEF AtMostOnce
    <3>2. CASE a \notin {m, y} /\ b \notin {m, y}
      <4>1. Has(f, a, s, w) /\ Has(f, b, t, w) BY <1>1, <2>5, <3>2
      <4> QED BY <2>1, <4>1 DEF AtMostOnce
    <3> QED BY <2>4, <2>5, <3>1, <3>2
  <2> QED BY <2>3, <2>5 DEF AtMostOnce
<1> QED BY <1>2, <1>3 DEF Sound

\* and where one copy takes the place of another that holds the same
LEMMA AlikeSound ==
  ASSUME NEW f, NEW g, Priced(f), Priced(g), \A a \in Accounts : Alike(f[a], g[a]), Sound(f)
  PROVE  Sound(g)
<1>1. \A a \in Accounts : Value(g[a]) = Value(f[a]) /\ g[a].bag = f[a].bag /\ g[a].up = f[a].up
  BY DEF Alike, Value
<1>2. PICK m \in Accounts : TRUE BY EconomyAssumption
<1>3. \A a \in Accounts, s \in BOOLEAN, w \in Weapons : Has(f, a, s, w) <=> Has(g, a, s, w)
  BY <1>1 DEF Has
<1>4. \A w \in Weapons : AtMostOnce(g, {m, m}, w) /\ (Held(f, {m, m}, w) <=> Held(g, {m, m}, w))
  <2>1. \A w \in Weapons : AtMostOnce(f, Accounts, w) BY DEF Sound
  <2>2. ASSUME NEW w \in Weapons, NEW s \in BOOLEAN, NEW t \in BOOLEAN, Has(g, m, s, w), Has(g, m, t, w) PROVE s = t
    BY <1>3, <2>1, <2>2 DEF AtMostOnce
  <2> QED BY <1>3, <2>2 DEF AtMostOnce, Held
<1>5. Balanced(f, g, m, m) BY <1>1, <1>4 DEF Balanced
<1> QED BY <1>4, <1>5, GoodsMove

LEMMA TakenBack ==
  ASSUME NEW f, NEW g, NEW m, NEW y, Balanced(f, g, m, y)
  PROVE  Balanced(g, f, m, y)
BY DEF Balanced

\* What one or two accounts hold is as little doubled as what all do
LEMMA OnceAmong ==
  ASSUME NEW f, NEW g, NEW some \in SUBSET Accounts, \A a \in some : Alike(f[a], g[a]), NEW w \in Weapons, Sound(f)
  PROVE  AtMostOnce(g, some, w)
<1>1. \A a \in some, s \in BOOLEAN : Has(f, a, s, w) <=> Has(g, a, s, w) BY DEF Alike, Has
<1>2. AtMostOnce(f, Accounts, w) BY DEF Sound
<1> QED BY <1>1, <1>2 DEF AtMostOnce

\* A sound town is whole
LEMMA SoundIsWhole == ASSUME NEW f, Sound(f) PROVE Whole(f)
<1>1. ASSUME NEW w \in Weapons PROVE Cardinality(Holders(f, w)) = 1
  <2>1. Held(f, Accounts, w) /\ AtMostOnce(f, Accounts, w) BY DEF Sound
  <2>2. PICK a \in Accounts, s \in BOOLEAN : Has(f, a, s, w) BY <2>1 DEF Held
  <2>3. \A b \in Accounts : (w \in f[b].bag <=> b = a /\ s = TRUE) /\ (w \in f[b].up <=> b = a /\ s = FALSE)
    <3>1. ASSUME NEW b \in Accounts, NEW t \in BOOLEAN PROVE Has(f, b, t, w) <=> b = a /\ t = s
      BY <2>1, <2>2 DEF AtMostOnce
    <3>2. ASSUME NEW b \in Accounts PROVE (Has(f, b, TRUE, w) <=> b = a /\ TRUE = s) /\ (Has(f, b, FALSE, w) <=> b = a /\ FALSE = s)
      BY <3>1
    <3> QED BY <3>2 DEF Has
  <2>4. Holders(f, w) = {<<a, IF s THEN "bag" ELSE "up">>}
    <3>1. CASE s = TRUE BY <2>3, <3>1 DEF Holders
    <3>2. CASE s = FALSE BY <2>3, <3>2 DEF Holders
    <3> QED BY <3>1, <3>2
  <2> QED BY <2>4, FS_Singleton
<1> QED BY <1>1 DEF Whole, Sound

LEMMA PricesAre == Price \in Int /\ Tax \in Int /\ Price - Tax \in Int /\ (Price - Tax) + Tax = Price /\ Purse \in Nat
BY EconomyAssumption

LEMMA ValueIs == ASSUME NEW k \in GoodsFiles PROVE Value(k) \in Int /\ Gifts(k) \in Int
<1>1. k.gold \in Int /\ k.sold \in Int /\ k.sales \in Int /\ k.pile \in Int /\ k.stock \in Int
  BY DEF GoodsFiles
<1>2. (Price - Tax) * k.sold \in Int /\ Tax * k.sales \in Int BY <1>1, PricesAre
<1> QED BY <1>1, <1>2 DEF Value, Gifts

LEMMA AllPriced == ASSUME NEW f \in [Accounts -> GoodsFiles] PROVE Priced(f)
BY ValueIs DEF Priced

\* Who is sent one more, or gives one up, has one sender more or one less
LEMMA SendersCount ==
  ASSUME NEW f, NEW g, NEW a \in Accounts, NEW p \in Int, NEW q \in Int, p <= Cardinality(SendersIn(f, a)),
         \/ SendersIn(g, a) = SendersIn(f, a) /\ q <= p
         \/ \E b \in SendersIn(f, a) : SendersIn(g, a) = SendersIn(f, a) \ {b} /\ q <= p - 1
         \/ \E b \in Accounts \ SendersIn(f, a) : SendersIn(g, a) = SendersIn(f, a) \cup {b} /\ q <= p + 1
  PROVE  q <= Cardinality(SendersIn(g, a))
<1>1. SendersIn(f, a) \in SUBSET Accounts BY DEF SendersIn
<1>2. IsFiniteSet(SendersIn(f, a)) /\ Cardinality(SendersIn(f, a)) \in Nat BY <1>1, SizeOf
<1>3. \A b \in SendersIn(f, a) : Cardinality(SendersIn(f, a) \ {b}) = Cardinality(SendersIn(f, a)) - 1
  BY <1>2, FS_RemoveElement
<1>4. \A b \in Accounts \ SendersIn(f, a) : Cardinality(SendersIn(f, a) \cup {b}) = Cardinality(SendersIn(f, a)) + 1
  BY <1>2, FS_AddElement
<1> QED BY <1>2, <1>3, <1>4

\* The others are one fewer than all
LEMMA SendersAreOthers == ASSUME NEW f, NEW a \in Accounts, a \notin f[a].sent PROVE Cardinality(SendersIn(f, a)) < Cardinality(Accounts) /\ Cardinality(SendersIn(f, a)) \in Nat
<1>1. SendersIn(f, a) \subseteq Accounts \ {a} /\ SendersIn(f, a) \in SUBSET Accounts
  BY DEF SendersIn
<1>2. IsFiniteSet(Accounts) /\ Cardinality(Accounts) \in Nat BY SizeOf
<1>3. Cardinality(Accounts \ {a}) = Cardinality(Accounts) - 1 /\ IsFiniteSet(Accounts \ {a})
  BY <1>2, FS_RemoveElement
<1>4. Cardinality(SendersIn(f, a)) <= Cardinality(Accounts \ {a}) BY <1>1, <1>3, FS_Subset
<1> QED BY <1>1, <1>2, <1>3, <1>4, SizeOf

\* One weapon changes hands, or none
Steady(f, g, m, y, w) == \A a \in {m, y}, s \in BOOLEAN : Has(f, a, s, w) <=> Has(g, a, s, w)
Only(f, m, y, w, a, s) == \A b \in {m, y}, t \in BOOLEAN : Has(f, b, t, w) <=> b = a /\ t = s
Passes(f, g, m, y, w) ==
  \E a \in {m, y}, b \in {m, y}, s \in BOOLEAN, t \in BOOLEAN : Only(f, m, y, w, a, s) /\ Only(g, m, y, w, b, t)
LEMMA OneMoves ==
  ASSUME NEW f, NEW g, NEW m, NEW y, \A w \in Weapons : AtMostOnce(f, {m, y}, w),
         \A w \in Weapons : Steady(f, g, m, y, w) \/ Passes(f, g, m, y, w)
  PROVE  \A w \in Weapons : (Held(f, {m, y}, w) <=> Held(g, {m, y}, w)) /\ AtMostOnce(g, {m, y}, w)
<1>1. ASSUME NEW w \in Weapons, Steady(f, g, m, y, w) PROVE (Held(f, {m, y}, w) <=> Held(g, {m, y}, w)) /\ AtMostOnce(g, {m, y}, w)
  BY <1>1 DEF Steady, Held, AtMostOnce
<1>2. ASSUME NEW w \in Weapons, Passes(f, g, m, y, w) PROVE (Held(f, {m, y}, w) <=> Held(g, {m, y}, w)) /\ AtMostOnce(g, {m, y}, w)
  BY <1>2 DEF Passes, Only, Held, AtMostOnce
<1> QED BY <1>1, <1>2

-----------------------------------------------------------------------------
(* What each call changes.                                                 *)

ChangedAs(r, f, g) ==
  LET q == request[r]
      c == Changed(r, f[q.me], f[q.you])
  IN Agreed(r, f[q.me], f[q.you]) /\ g[q.you] = c.you /\ g[q.me] = c.me
LEMMA WhatChanges ==
  ASSUME NEW r \in Requests, AskedWell(request[r]), NEW f \in [Accounts -> GoodsFiles], NEW g, ChangedAs(r, f, g)
  PROVE  /\ g[request[r].me] \in GoodsFiles /\ g[request[r].you] \in GoodsFiles /\ Gives(request[r], f, g)
         /\ (\A w \in Weapons : AtMostOnce(f, {request[r].me, request[r].you}, w))
              => /\ Balanced(f, g, request[r].me, request[r].you)
                 /\ \A w \in Weapons : AtMostOnce(g, {request[r].me, request[r].you}, w)
<1> DEFINE q == request[r]
<1>q. PICK me \in Accounts, you \in Accounts, u \in Weapons, m \in GoodsFiles, y \in GoodsFiles :
        me = q.me /\ you = q.you /\ u = q.weapon /\ m = f[me] /\ y = f[you]
  BY DEF AskedWell
<1> DEFINE Once == \A w \in Weapons : AtMostOnce(f, {me, you}, w)
           Done == /\ g[me] \in GoodsFiles /\ g[you] \in GoodsFiles
                   /\ IF me = you THEN Value(g[me]) = Value(f[me]) ELSE Value(g[me]) + Value(g[you]) = Value(f[me]) + Value(f[you])
                   /\ Gives(q, f, g)
                   /\ Once => \A w \in Weapons : Steady(f, g, me, you, w) \/ Passes(f, g, me, you, w)
<1>n. /\ Gifts(m) \in Int /\ m.gold \in Int /\ m.sold \in Int /\ m.sales \in Int /\ y.gold \in Int /\ y.sold \in Int /\ y.sales \in Int
      /\ m.bag \subseteq Weapons /\ m.up \subseteq Weapons /\ y.bag \subseteq Weapons /\ y.up \subseteq Weapons
  BY ValueIs DEF GoodsFiles
<1>1. ASSUME q.op = "trade" PROVE Done
  <2>1. g[me] = TradeChanges(m, y, u).me /\ g[you] = TradeChanges(m, y, u).you /\ u \in m.bag /\ me # you
    BY <1>1, <1>q DEF ChangedAs, Changed, Agreed, AskedWell, TwoPartyOps
  <2>2. g[me] = [m EXCEPT !.bag = @ \ {u}, !.gold = @ + 1] /\ g[you] = [y EXCEPT !.bag = @ \cup {u}, !.gold = @ - 1]
    BY <2>1 DEF TradeChanges
  <2>3. g[me] \in GoodsFiles /\ g[you] \in GoodsFiles
    <3>a. PICK lost \in SUBSET Weapons, won \in SUBSET Weapons : lost = m.bag \ {u} /\ won = y.bag \cup {u}
      BY <1>n
    <3>1. PICK more \in Int, less \in Int : more = m.gold + 1 /\ less = y.gold - 1 BY <1>n
    <3>2. g[me] = [m EXCEPT !.bag = lost, !.gold = more] /\ g[you] = [y EXCEPT !.bag = won, !.gold = less]
      BY <2>2, <3>a, <3>1
    <3> QED BY <3>2 DEF GoodsFiles
  <2>4. /\ g[me].bag = m.bag \ {u} /\ g[me].up = m.up /\ g[me].sold = m.sold /\ g[me].sales = m.sales /\ g[me].gold = m.gold + 1
        /\ g[me].sent = m.sent /\ g[me].pile = m.pile /\ g[me].stock = m.stock
        /\ g[you].bag = y.bag \cup {u} /\ g[you].up = y.up /\ g[you].sold = y.sold /\ g[you].sales = y.sales /\ g[you].gold = y.gold - 1
        /\ g[you].sent = y.sent /\ g[you].pile = y.pile /\ g[you].stock = y.stock
    BY <2>2 DEF GoodsFiles
  <2>5. Value(g[me]) = Value(m) + 1 /\ Value(g[you]) = Value(y) - 1 /\ Value(m) \in Int /\ Value(y) \in Int
    <3>1. (Price - Tax) * m.sold \in Int /\ Tax * m.sales \in Int /\ (Price - Tax) * y.sold \in Int /\ Tax * y.sales \in Int
      BY <1>n, PricesAre
    <3> QED BY <1>n, <2>4, <3>1 DEF Value
  <2>6. Gives(q, f, g) BY <1>1, <1>q, <2>1, <2>4 DEF Gives, Gifts
  <2>7. ASSUME Once, NEW w \in Weapons PROVE Steady(f, g, me, you, w) \/ Passes(f, g, me, you, w)
    <3>1. CASE w = u
      <4>1. Has(f, me, TRUE, u) /\ Only(f, me, you, u, me, TRUE)
        BY <1>q, <2>1, <2>7 DEF Has, AtMostOnce, Only
      <4>2. Only(g, me, you, u, you, TRUE) BY <1>q, <2>1, <2>4, <4>1 DEF Only, Has
      <4> QED BY <3>1, <4>1, <4>2 DEF Passes
    <3>2. CASE w # u
      <4>1. /\ w \in g[me].bag <=> w \in f[me].bag
            /\ w \in g[me].up <=> w \in f[me].up
            /\ w \in g[you].bag <=> w \in f[you].bag
            /\ w \in g[you].up <=> w \in f[you].up
        BY <1>q, <2>4, <3>2
      <4> QED BY <4>1 DEF Steady, Has
    <3> QED BY <3>1, <3>2
  <2>8. IF me = you THEN Value(g[me]) = Value(f[me]) ELSE Value(g[me]) + Value(g[you]) = Value(f[me]) + Value(f[you])
    BY <1>q, <2>1, <2>5
  <2>9. Once => \A w \in Weapons : Steady(f, g, me, you, w) \/ Passes(f, g, me, you, w) BY <2>7
  <2> QED BY <2>3, <2>6, <2>8, <2>9
<1>2. ASSUME q.op = "list" PROVE Done
  <2>1. g[me] = ListChanges(m, u) /\ u \in m.bag /\ me = you
    BY <1>2, <1>q DEF ChangedAs, Changed, Agreed, AskedWell, TwoPartyOps
  <2>2. g[me] = [m EXCEPT !.bag = @ \ {u}, !.up = @ \cup {u}] BY <2>1 DEF ListChanges
  <2>3. g[me] \in GoodsFiles
    <3>1. PICK bag \in SUBSET Weapons, up \in SUBSET Weapons : bag = m.bag \ {u} /\ up = m.up \cup {u}
      BY <1>n
    <3>2. g[me] = [m EXCEPT !.bag = bag, !.up = up] BY <2>2, <3>1
    <3> QED BY <3>2 DEF GoodsFiles
  <2>4. /\ g[me].bag = m.bag \ {u} /\ g[me].up = m.up \cup {u} /\ g[me].sold = m.sold /\ g[me].sales = m.sales /\ g[me].gold = m.gold
        /\ g[me].sent = m.sent /\ g[me].pile = m.pile /\ g[me].stock = m.stock
    BY <2>2 DEF GoodsFiles
  <2>5. Value(g[me]) = Value(m) BY <2>4 DEF Value
  <2>6. Gives(q, f, g) BY <1>2, <1>q, <2>1, <2>4 DEF Gives, Gifts
  <2>7. ASSUME Once, NEW w \in Weapons PROVE Steady(f, g, me, you, w) \/ Passes(f, g, me, you, w)
    <3>1. CASE w = u
      <4>1. Has(f, me, TRUE, u) /\ Only(f, me, you, u, me, TRUE)
        BY <1>q, <2>1, <2>7 DEF Has, AtMostOnce, Only
      <4>2. Only(g, me, you, u, me, FALSE) BY <1>q, <2>1, <2>4, <4>1 DEF Only, Has
      <4> QED BY <3>1, <4>1, <4>2 DEF Passes
    <3>2. CASE w # u BY <1>q, <2>1, <2>4, <3>2 DEF Steady, Has
    <3> QED BY <3>1, <3>2
  <2> QED BY <1>q, <2>1, <2>3, <2>5, <2>6, <2>7
<1>3. ASSUME q.op = "buy" PROVE Done
  <2>1. g[me] = BuyChanges(m, y, u).me /\ g[you] = BuyChanges(m, y, u).you /\ u \in y.up /\ me # you
    BY <1>3, <1>q DEF ChangedAs, Changed, Agreed, AskedWell, TwoPartyOps
  <2>2. g[me] = [m EXCEPT !.bag = @ \cup {u}, !.gold = @ - Price] /\ g[you] = [y EXCEPT !.up = @ \ {u}, !.sold = @ + 1, !.sales = @ + 1]
    BY <2>1 DEF BuyChanges
  <2>3. g[me] \in GoodsFiles /\ g[you] \in GoodsFiles
    <3>a. PICK bag \in SUBSET Weapons, up \in SUBSET Weapons : bag = m.bag \cup {u} /\ up = y.up \ {u}
      BY <1>n
    <3>b. PICK less \in Int : less = m.gold - Price BY <1>n, PricesAre
    <3>1. PICK sold \in Int, sales \in Int : sold = y.sold + 1 /\ sales = y.sales + 1 BY <1>n
    <3>2. g[me] = [m EXCEPT !.bag = bag, !.gold = less] /\ g[you] = [y EXCEPT !.up = up, !.sold = sold, !.sales = sales]
      BY <2>2, <3>a, <3>b, <3>1
    <3> QED BY <3>2 DEF GoodsFiles
  <2>4. /\ g[me].bag = m.bag \cup {u} /\ g[me].up = m.up /\ g[me].sold = m.sold /\ g[me].sales = m.sales /\ g[me].gold = m.gold - Price
        /\ g[me].sent = m.sent /\ g[me].pile = m.pile /\ g[me].stock = m.stock
        /\ g[you].bag = y.bag /\ g[you].up = y.up \ {u} /\ g[you].sold = y.sold + 1 /\ g[you].sales = y.sales + 1 /\ g[you].gold = y.gold
        /\ g[you].sent = y.sent /\ g[you].pile = y.pile /\ g[you].stock = y.stock
    BY <2>2 DEF GoodsFiles
  <2>5. Value(g[me]) = Value(m) - Price /\ Value(g[you]) = Value(y) + Price /\ Value(m) \in Int /\ Value(y) \in Int
    <3>p. PICK p \in Int, t \in Int : p = Price - Tax /\ t = Tax /\ p + t = Price BY PricesAre
    <3>1. p * m.sold \in Int /\ t * m.sales \in Int /\ p * y.sold \in Int /\ t * y.sales \in Int
      BY <1>n
    <3>2. p * (y.sold + 1) = p * y.sold + p /\ t * (y.sales + 1) = t * y.sales + t BY <1>n
    <3> QED BY <1>n, <2>4, <3>p, <3>1, <3>2 DEF Value
  <2>6. Gives(q, f, g) BY <1>3, <1>q, <2>1, <2>4 DEF Gives, Gifts
  <2>7. ASSUME Once, NEW w \in Weapons PROVE Steady(f, g, me, you, w) \/ Passes(f, g, me, you, w)
    <3>1. CASE w = u
      <4>1. Has(f, you, FALSE, u) /\ Only(f, me, you, u, you, FALSE)
        BY <1>q, <2>1, <2>7 DEF Has, AtMostOnce, Only
      <4>2. Only(g, me, you, u, me, TRUE) BY <1>q, <2>1, <2>4, <4>1 DEF Only, Has
      <4> QED BY <3>1, <4>1, <4>2 DEF Passes
    <3>2. CASE w # u
      <4>1. /\ w \in g[me].bag <=> w \in f[me].bag
            /\ w \in g[me].up <=> w \in f[me].up
            /\ w \in g[you].bag <=> w \in f[you].bag
            /\ w \in g[you].up <=> w \in f[you].up
        BY <1>q, <2>4, <3>2
      <4> QED BY <4>1 DEF Steady, Has
    <3> QED BY <3>1, <3>2
  <2>8. IF me = you THEN Value(g[me]) = Value(f[me]) ELSE Value(g[me]) + Value(g[you]) = Value(f[me]) + Value(f[you])
    BY <1>q, <2>1, <2>5, PricesAre
  <2>9. Once => \A w \in Weapons : Steady(f, g, me, you, w) \/ Passes(f, g, me, you, w) BY <2>7
  <2> QED BY <2>3, <2>6, <2>8, <2>9
<1>4. ASSUME q.op = "cancel" PROVE Done
  <2>1. g[me] = CancelChanges(m, u) /\ u \in m.up /\ me = you
    BY <1>4, <1>q DEF ChangedAs, Changed, Agreed, AskedWell, TwoPartyOps
  <2>2. g[me] = [m EXCEPT !.bag = @ \cup {u}, !.up = @ \ {u}] BY <2>1 DEF CancelChanges
  <2>3. g[me] \in GoodsFiles
    <3>1. PICK bag \in SUBSET Weapons, up \in SUBSET Weapons : bag = m.bag \cup {u} /\ up = m.up \ {u}
      BY <1>n
    <3>2. g[me] = [m EXCEPT !.bag = bag, !.up = up] BY <2>2, <3>1
    <3> QED BY <3>2 DEF GoodsFiles
  <2>4. /\ g[me].bag = m.bag \cup {u} /\ g[me].up = m.up \ {u} /\ g[me].sold = m.sold /\ g[me].sales = m.sales /\ g[me].gold = m.gold
        /\ g[me].sent = m.sent /\ g[me].pile = m.pile /\ g[me].stock = m.stock
    BY <2>2 DEF GoodsFiles
  <2>5. Value(g[me]) = Value(m) BY <2>4 DEF Value
  <2>6. Gives(q, f, g) BY <1>4, <1>q, <2>1, <2>4 DEF Gives, Gifts
  <2>7. ASSUME Once, NEW w \in Weapons PROVE Steady(f, g, me, you, w) \/ Passes(f, g, me, you, w)
    <3>1. CASE w = u
      <4>1. Has(f, me, FALSE, u) /\ Only(f, me, you, u, me, FALSE)
        BY <1>q, <2>1, <2>7 DEF Has, AtMostOnce, Only
      <4>2. Only(g, me, you, u, me, TRUE) BY <1>q, <2>1, <2>4, <4>1 DEF Only, Has
      <4> QED BY <3>1, <4>1, <4>2 DEF Passes
    <3>2. CASE w # u BY <1>q, <2>1, <2>4, <3>2 DEF Steady, Has
    <3> QED BY <3>1, <3>2
  <2> QED BY <1>q, <2>1, <2>3, <2>5, <2>6, <2>7
<1>5. ASSUME q.op = "claim" PROVE Done
  <2>1. g[me] = ClaimChanges(m) /\ me = you
    BY <1>5, <1>q DEF ChangedAs, Changed, Agreed, AskedWell, TwoPartyOps
  <2>p. PICK p \in Int : p = (Price - Tax) * m.sold /\ (Price - Tax) * 0 = 0 BY <1>n, PricesAre
  <2>2. g[me] = [m EXCEPT !.gold = @ + p, !.sold = 0] BY <2>1, <2>p DEF ClaimChanges
  <2>3. g[me] \in GoodsFiles
    <3>1. PICK more \in Int, none \in Int : more = m.gold + p /\ none = 0 BY <1>n
    <3>2. g[me] = [m EXCEPT !.gold = more, !.sold = none] BY <2>2, <3>1
    <3> QED BY <3>2 DEF GoodsFiles
  <2>4. /\ g[me].bag = m.bag /\ g[me].up = m.up /\ g[me].sold = 0 /\ g[me].sales = m.sales /\ g[me].gold = m.gold + p
        /\ g[me].sent = m.sent /\ g[me].pile = m.pile /\ g[me].stock = m.stock
    BY <2>2 DEF GoodsFiles
  <2>5. Value(g[me]) = Value(m)
    <3>1. Tax * m.sales \in Int BY <1>n, PricesAre
    <3> QED BY <1>n, <2>4, <2>p, <3>1 DEF Value
  <2>6. Gives(q, f, g) BY <1>5, <1>q, <2>1, <2>4 DEF Gives, Gifts
  <2>7. ASSUME NEW w \in Weapons PROVE Steady(f, g, me, you, w)
    BY <1>q, <2>1, <2>4 DEF Steady, Has
  <2> QED BY <1>q, <2>1, <2>3, <2>5, <2>6, <2>7
<1>6. ASSUME q.op = "gift" PROVE Done
  <2>1. g[me] = GiftChanges(m, y, me, you).me /\ g[you] = GiftChanges(m, y, me, you).you /\ you \notin m.sent /\ me # you
    BY <1>6, <1>q DEF ChangedAs, Changed, Agreed, AskedWell, TwoPartyOps
  <2>2. g[me] = [m EXCEPT !.sent = @ \cup {you}] /\ g[you] = [y EXCEPT !.pile = @ + 1]
    BY <2>1 DEF GiftChanges
  <2>3. g[me] \in GoodsFiles /\ g[you] \in GoodsFiles
    <3>a. PICK sent \in SUBSET Accounts : sent = m.sent \cup {you} BY DEF GoodsFiles
    <3>1. PICK pile \in Int : pile = y.pile + 1 BY DEF GoodsFiles
    <3>2. g[me] = [m EXCEPT !.sent = sent] /\ g[you] = [y EXCEPT !.pile = pile]
      BY <2>2, <3>a, <3>1
    <3> QED BY <3>2 DEF GoodsFiles
  <2>4. /\ g[me].bag = m.bag /\ g[me].up = m.up /\ g[me].sold = m.sold /\ g[me].sales = m.sales /\ g[me].gold = m.gold
        /\ g[me].sent = m.sent \cup {you} /\ g[me].pile = m.pile /\ g[me].stock = m.stock
        /\ g[you].bag = y.bag /\ g[you].up = y.up /\ g[you].sold = y.sold /\ g[you].sales = y.sales /\ g[you].gold = y.gold
        /\ g[you].sent = y.sent /\ g[you].pile = y.pile + 1 /\ g[you].stock = y.stock
    BY <2>2 DEF GoodsFiles
  <2>5. Value(g[me]) = Value(m) /\ Value(g[you]) = Value(y) BY <2>4 DEF Value
  <2>6. Gives(q, f, g)
    <3>1. y.pile \in Int /\ y.stock \in Int BY DEF GoodsFiles
    <3>2. Gifts(g[me]) = Gifts(m) /\ Gifts(g[you]) = Gifts(y) + 1 BY <2>4, <3>1 DEF Gifts
    <3> QED BY <1>6, <1>q, <2>1, <2>4, <3>2 DEF Gives
  <2>7. ASSUME NEW w \in Weapons PROVE Steady(f, g, me, you, w)
    BY <1>q, <2>1, <2>4, ZenonT(60) DEF Steady, Has
  <2> QED BY <1>q, <2>1, <2>3, <2>5, <2>6, <2>7
<1>7. ASSUME q.op = "accept" PROVE Done
  <2>1. g[me] = TakeChanges(m) /\ me = you
    BY <1>7, <1>q DEF ChangedAs, Changed, Agreed, AskedWell, TwoPartyOps
  <2>2. g[me] = [m EXCEPT !.pile = @ - 1] BY <2>1 DEF TakeChanges
  <2>3. g[me] \in GoodsFiles BY <2>2 DEF GoodsFiles
  <2>4. /\ g[me].bag = m.bag /\ g[me].up = m.up /\ g[me].sold = m.sold /\ g[me].sales = m.sales /\ g[me].gold = m.gold
        /\ g[me].sent = m.sent /\ g[me].pile = m.pile - 1 /\ g[me].stock = m.stock
    BY <2>2 DEF GoodsFiles
  <2>5. Value(g[me]) = Value(m) BY <2>4 DEF Value
  <2>6. Gives(q, f, g)
    <3>1. m.pile \in Int /\ m.stock \in Int BY DEF GoodsFiles
    <3> QED BY <1>7, <1>q, <2>1, <2>4, <3>1 DEF Gives, Gifts, Alike
  <2>7. ASSUME NEW w \in Weapons PROVE Steady(f, g, me, you, w)
    BY <1>q, <2>1, <2>4 DEF Steady, Has
  <2> QED BY <1>q, <2>1, <2>3, <2>5, <2>6, <2>7
<1>8. Done
  <2>1. q.op \in {"trade", "list", "buy", "cancel", "claim", "gift", "accept"} BY DEF AskedWell
  <2> HIDE DEF Done
  <2> QED BY <1>1, <1>2, <1>3, <1>4, <1>5, <1>6, <1>7, <2>1
<1>9. ASSUME Once PROVE \A w \in Weapons : (Held(f, {me, you}, w) <=> Held(g, {me, you}, w)) /\ AtMostOnce(g, {me, you}, w)
  BY <1>8, <1>9, OneMoves
<1>10. Once => Balanced(f, g, me, you) /\ \A w \in Weapons : AtMostOnce(g, {me, you}, w)
  <2> HIDE DEF Once
  <2> QED BY <1>8, <1>9 DEF Balanced
<1> QED BY <1>q, <1>8, <1>10

-----------------------------------------------------------------------------
(* The locks, and how far each request is.                                 *)

\* One request is at another place, or at its end
RequestGoes(r, at, shared, staged) ==
  /\ request' = [x \in Requests |-> request'[x]] /\ \A x \in Requests \ {r} : request'[x] = request[x]
  /\ request'[r] = [op |-> request[r].op, me |-> request[r].me, you |-> request[r].you, weapon |-> request[r].weapon,
                    at |-> at, shared |-> shared, staged |-> staged]
RequestEnds(r) ==
  /\ request' = [x \in Requests |-> request'[x]] /\ \A x \in Requests \ {r} : request'[x] = request[x]
  /\ request'[r] = Idle /\ locked' = Unlocked(r)
\* What a request that is not at work has in its hands stays as it is
Untouched(x) ==
  /\ request'[x] = request[x]
  /\ UnderWay(x) => \A a \in Parties(x) : /\ locked'[a] = locked[a] /\ filed'[a] = filed[a] /\ object'[a] = object[a]
                                          /\ a \in played' <=> a \in played

LEMMA ShapeIs ==
  ASSUME EconomyShape
  PROVE  /\ filed \in [Accounts -> GoodsFiles] /\ object \in [Accounts -> GoodsFiles]
         /\ played \subseteq Accounts /\ locked = [a \in Accounts |-> locked[a]] /\ request = [r \in Requests |-> request[r]]
         /\ LocksFit /\ \A r \in Requests : RequestFits(r)
BY DEF EconomyShape

LEMMA GoesIs ==
  ASSUME EconomyShape, NEW r \in Requests, NEW at, NEW shared, NEW staged
  PROVE  /\ request' = [request EXCEPT ![r].at = at] => RequestGoes(r, at, request[r].shared, request[r].staged)
         /\ request' = [request EXCEPT ![r].at = at, ![r].shared = shared] => RequestGoes(r, at, shared, request[r].staged)
         /\ request' = [request EXCEPT ![r].at = at, ![r].staged = staged] => RequestGoes(r, at, request[r].shared, staged)
         /\ Ends(r) => RequestEnds(r)
<1>1. request = [x \in Requests |-> request[x]] /\ IsRequest(request[r])
  BY ShapeIs DEF RequestFits
<1>2. PICK q : q = request[r] OBVIOUS
<1>3. q = [op |-> q.op, me |-> q.me, you |-> q.you, weapon |-> q.weapon, at |-> q.at, shared |-> q.shared, staged |-> q.staged]
  BY <1>1, <1>2 DEF IsRequest
<1>k. PICK op, me, you, weapon, now, both, kept : q = [op |-> op, me |-> me, you |-> you, weapon |-> weapon, at |-> now, shared |-> both, staged |-> kept]
  BY <1>3
<1>f. q.op = op /\ q.me = me /\ q.you = you /\ q.weapon = weapon /\ q.shared = both /\ q.staged = kept
  BY <1>k
<1>a. [q EXCEPT !.at = at] = [op |-> op, me |-> me, you |-> you, weapon |-> weapon, at |-> at, shared |-> both, staged |-> kept]
  BY <1>k
<1>h. PICK h : h = [op |-> op, me |-> me, you |-> you, weapon |-> weapon, at |-> at, shared |-> both, staged |-> kept]
  OBVIOUS
<1>b. [q EXCEPT !.at = at, !.shared = shared] = [op |-> op, me |-> me, you |-> you, weapon |-> weapon, at |-> at, shared |-> shared, staged |-> kept]
  <2>1. [h EXCEPT !.shared = shared] = [op |-> op, me |-> me, you |-> you, weapon |-> weapon, at |-> at, shared |-> shared, staged |-> kept]
    BY <1>h
  <2> QED BY <1>a, <1>h, <2>1
<1>c. [q EXCEPT !.at = at, !.staged = staged] = [op |-> op, me |-> me, you |-> you, weapon |-> weapon, at |-> at, shared |-> both, staged |-> staged]
  <2>1. [h EXCEPT !.staged = staged] = [op |-> op, me |-> me, you |-> you, weapon |-> weapon, at |-> at, shared |-> both, staged |-> staged]
    BY <1>h
  <2> QED BY <1>a, <1>h, <2>1
<1>5. ASSUME request' = [request EXCEPT ![r].at = at] PROVE RequestGoes(r, at, request[r].shared, request[r].staged)
  <2>1. request'[r] = [q EXCEPT !.at = at] BY <1>1, <1>2, <1>5
  <2> QED BY <1>1, <1>2, <1>f, <1>a, <1>5, <2>1 DEF RequestGoes
<1>6. ASSUME request' = [request EXCEPT ![r].at = at, ![r].shared = shared] PROVE RequestGoes(r, at, shared, request[r].staged)
  <2>1. request'[r] = [q EXCEPT !.at = at, !.shared = shared] BY <1>1, <1>2, <1>6
  <2> QED BY <1>1, <1>2, <1>f, <1>b, <1>6, <2>1 DEF RequestGoes
<1>7. ASSUME request' = [request EXCEPT ![r].at = at, ![r].staged = staged] PROVE RequestGoes(r, at, request[r].shared, staged)
  <2>1. request'[r] = [q EXCEPT !.at = at, !.staged = staged] BY <1>1, <1>2, <1>7
  <2> QED BY <1>1, <1>2, <1>f, <1>c, <1>7, <2>1 DEF RequestGoes
<1>8. Ends(r) => RequestEnds(r) BY <1>1 DEF Ends, RequestEnds
<1> QED BY <1>5, <1>6, <1>7, <1>8

\* Who is party to a request
LEMMA PartiesAre ==
  ASSUME NEW r \in Requests, RequestFits(r), request[r].at # "idle"
  PROVE  /\ Parties(r) \subseteq Accounts /\ Parties(r) = {request[r].me, request[r].you}
         /\ FirstOf(r) \in Parties(r) /\ (request[r].op \notin TwoPartyOps => FirstOf(r) = request[r].me)
         /\ Cardinality(Parties(r)) = 2 <=> request[r].op \in TwoPartyOps
<1>1. AskedWell(request[r]) BY DEF RequestFits
<1>q. PICK q : q = request[r] OBVIOUS
<1>2. Parties(r) = {q.me, q.you} /\ Parties(r) \subseteq Accounts /\ FirstOf(r) \in {q.me, q.you} /\ (q.op \notin TwoPartyOps => q.me = q.you)
  BY <1>1, <1>q DEF Parties, AskedWell, FirstOf
<1>3. q.op \in TwoPartyOps => q.me # q.you BY <1>1, <1>q DEF AskedWell
<1>4. \A x, y : x # y => Cardinality({x, y}) = 2
  <2>1. ASSUME NEW x, NEW y, x # y PROVE Cardinality({x, y}) = 2
    <3>1. IsFiniteSet({x}) /\ Cardinality({x}) = 1 /\ {x, y} = {x} \cup {y} /\ y \notin {x}
      BY <2>1, FS_Singleton
    <3>2. Cardinality({x} \cup {y}) = 1 + 1 BY <3>1, FS_AddElement
    <3> QED BY <3>1, <3>2
  <2> QED BY <2>1
<1>5. \A x : Cardinality({x, x}) # 2 BY FS_Singleton
<1>6. q.op \in TwoPartyOps => Cardinality(Parties(r)) = 2
  <2>1. ASSUME q.op \in TwoPartyOps PROVE Cardinality({q.me, q.you}) = 2 BY <1>3, <1>4, <2>1
  <2> QED BY <1>2, <2>1
<1>7. q.op \notin TwoPartyOps => Cardinality(Parties(r)) # 2 BY <1>2, <1>5
<1> QED BY <1>2, <1>6, <1>7, <1>q

\* Two requests at work have no account in common
LEMMA Apart ==
  ASSUME EconomyShape, NEW r \in Requests, NEW x \in Requests \ {r}, UnderWay(r) \/ (\A a \in Parties(r) : locked[a] = r), UnderWay(x)
  PROVE  Parties(r) \cap Parties(x) = {}
<1>1. (\A a \in Parties(r) : locked[a] = r) /\ (\A a \in Parties(x) : locked[a] = x)
  BY ShapeIs DEF RequestFits
<1> QED BY <1>1

LEMMA Untroubled ==
  ASSUME NEW x \in Requests, RequestFits(x), Untouched(x)
  PROVE  /\ RequestFits(x)' /\ (LinkFits(x) => LinkFits(x)') /\ (UnderWay(x)' <=> UnderWay(x)) /\ Parties(x)' = Parties(x)
         /\ Halved(x)' <=> Halved(x)
<1>q. PICK q : q = request[x] /\ q = request'[x] BY DEF Untouched
<1>1. (UnderWay(x)' <=> UnderWay(x)) /\ Parties(x)' = Parties(x) /\ (Halved(x)' <=> Halved(x)) /\ FirstOf(x)' = FirstOf(x)
  BY <1>q DEF UnderWay, Parties, Halved, FirstOf
<1>2. ASSUME UnderWay(x)
      PROVE  /\ Parties(x) = {q.me, q.you} /\ FirstOf(x) \in Parties(x)
             /\ \A a \in {q.me, q.you} : /\ locked'[a] = locked[a] /\ filed'[a] = filed[a] /\ object'[a] = object[a]
                                         /\ a \in played' <=> a \in played
  <2>1. request[x].at # "idle" BY <1>2 DEF UnderWay
  <2> QED BY <1>2, <1>q, <2>1, PartiesAre DEF Untouched
<1>3. RequestFits(x)'
  <2>1. ASSUME ~UnderWay(x) PROVE RequestFits(x)'
    <3>1. q.at \notin {"grants", "changed", "staged", "half"} BY <1>q, <2>1 DEF UnderWay
    <3> QED BY <1>q, <1>1, <2>1, <3>1 DEF RequestFits
  <2>2. ASSUME UnderWay(x) PROVE RequestFits(x)'
    <3>1. Parties(x) \cap played' = Parties(x) \cap played BY <1>2, <2>2
    <3> QED BY <1>q, <1>1, <1>2, <2>2, <3>1 DEF RequestFits
  <2> QED BY <2>1, <2>2
<1>4. ASSUME LinkFits(x) PROVE LinkFits(x)'
  <2>1. ASSUME UnderWay(x), ~Halved(x) PROVE CanGoBack(x)'
    <3>1. CanGoBack(x) BY <1>4, <2>1 DEF LinkFits
    <3>2. CASE q.op = "accept" BY <1>q, <1>2, <2>1, <3>1, <3>2 DEF CanGoBack
    <3>3. CASE q.op # "accept"
      <4>1. Balanced(filed, object, q.me, q.you) /\ Gives(q, filed, object)
        BY <1>q, <3>1, <3>3 DEF CanGoBack
      <4>2. Balanced(filed', object', q.me, q.you)
        <5>1. filed'[q.me] = filed[q.me] /\ object'[q.me] = object[q.me] /\ filed'[q.you] = filed[q.you] /\ object'[q.you] = object[q.you]
          BY <1>2, <2>1
        <5>2. \A w : (Held(filed', {q.me, q.you}, w) <=> Held(filed, {q.me, q.you}, w)) /\ (Held(object', {q.me, q.you}, w) <=> Held(object, {q.me, q.you}, w))
          BY <5>1 DEF Held, Has
        <5> QED BY <4>1, <5>1, <5>2 DEF Balanced
      <4>3. Gives(q, filed', object') BY <1>2, <2>1, <4>1 DEF Gives
      <4> QED BY <1>q, <3>3, <4>2, <4>3 DEF CanGoBack
    <3> QED BY <3>2, <3>3
  <2>2. ASSUME UnderWay(x), Halved(x) PROVE \A a \in Parties(x) : Gifts(filed'[a]) <= Gifts(object'[a])
    BY <1>2, <1>4, <2>2 DEF LinkFits
  <2> QED BY <1>1, <2>1, <2>2 DEF LinkFits
<1> QED BY <1>1, <1>3, <1>4

LEMMA LocksGo ==
  ASSUME EconomyShape, NEW r \in Requests, NEW at, NEW shared, NEW staged, RequestGoes(r, at, shared, staged), at # "idle",
         locked' = locked \/ \E a \in Parties(r) : locked[a] = Nobody /\ locked' = [locked EXCEPT ![a] = r]
  PROVE  LocksFit' /\ locked' = [a \in Accounts |-> locked'[a]]
<1>1. LocksFit /\ locked = [a \in Accounts |-> locked[a]] BY ShapeIs
<1>2. \A x \in Requests : Parties(x)' = Parties(x) /\ (request[x].at # "idle" => request'[x].at # "idle")
  BY DEF RequestGoes, Parties
<1>3. request'[r].at # "idle" BY DEF RequestGoes
<1>4. \A a \in Accounts : locked'[a] = locked[a] \/ (locked'[a] = r /\ a \in Parties(r)) BY <1>1
<1>5. locked' = [a \in Accounts |-> locked'[a]] BY <1>1
<1>6. ASSUME NEW a \in Accounts, NEW z, z = locked'[a] PROVE z = Nobody \/ (z \in Requests /\ request'[z].at # "idle" /\ a \in Parties(z)')
  <2>1. CASE z = locked[a] BY <1>1, <1>2, <2>1 DEF LocksFit
  <2>2. CASE z = r /\ a \in Parties(r) BY <1>2, <1>3, <2>2
  <2> QED BY <1>4, <1>6, <2>1, <2>2
<1>7. LocksFit' BY <1>6 DEF LocksFit
<1> QED BY <1>5, <1>7

LEMMA LocksEnd ==
  ASSUME EconomyShape, NEW r \in Requests, RequestEnds(r)
  PROVE  /\ LocksFit' /\ locked' = [a \in Accounts |-> locked'[a]] /\ RequestFits(r)' /\ ~UnderWay(r)' /\ ~Halved(r)'
         /\ \A x \in Requests \ {r} : UnderWay(x) => \A a \in Parties(x) : locked'[a] = locked[a]
<1>1. LocksFit /\ locked' = [a \in Accounts |-> IF locked[a] = r THEN Nobody ELSE locked[a]] /\ r # Nobody
  BY ShapeIs, EconomyAssumption DEF RequestEnds, Unlocked
<1>2. ASSUME NEW a \in Accounts, NEW z, z = locked'[a] PROVE z = Nobody \/ (z \in Requests /\ request'[z].at # "idle" /\ a \in Parties(z)')
  <2>1. CASE z = Nobody BY <2>1
  <2>2. CASE z # Nobody
    <3>1. z \in Requests \ {r} /\ request[z].at # "idle" /\ a \in Parties(z)
      BY <1>1, <1>2, <2>2 DEF LocksFit
    <3>2. request'[z] = request[z] BY <3>1 DEF RequestEnds
    <3> QED BY <3>1, <3>2 DEF Parties
  <2> QED BY <2>1, <2>2
<1>l. LocksFit' BY <1>2 DEF LocksFit
<1>3. RequestFits(r)' /\ ~UnderWay(r)' /\ ~Halved(r)'
  <2>1. request'[r] = Idle BY DEF RequestEnds
  <2>2. IsRequest(Idle) /\ Idle.at = "idle" BY DEF Idle, IsRequest
  <2> QED BY <2>1, <2>2 DEF RequestFits, UnderWay, Halved
<1>4. ASSUME NEW x \in Requests \ {r}, UnderWay(x), NEW a \in Parties(x) PROVE locked'[a] = locked[a]
  <2>1. RequestFits(x) /\ request[x].at # "idle" BY <1>4, ShapeIs DEF UnderWay
  <2>2. locked[a] = x /\ a \in Accounts BY <1>4, <2>1, PartiesAre DEF RequestFits
  <2> QED BY <1>1, <2>2
<1> QED BY <1>1, <1>l, <1>3, <1>4

\* The rest are where they were
RestMoves(r) ==
  \A x \in Requests \ {r} : /\ (LinkFits(x) => LinkFits(x)') /\ (UnderWay(x)' <=> UnderWay(x)) /\ Parties(x)' = Parties(x)
                            /\ (Halved(x)' <=> Halved(x)) /\ request'[x] = request[x]
\* What one request does leaves the rest as they are
LEMMA RestStays ==
  ASSUME EconomyShape, NEW r \in Requests, filed' \in [Accounts -> GoodsFiles], object' \in [Accounts -> GoodsFiles],
         played' \subseteq Accounts, locked' = [a \in Accounts |-> locked'[a]], request' = [x \in Requests |-> request'[x]],
         LocksFit', RequestFits(r)', \A x \in Requests \ {r} : Untouched(x)
  PROVE  /\ EconomyShape'
         /\ RestMoves(r)
<1>1. ASSUME NEW x \in Requests \ {r}
      PROVE /\ RequestFits(x)' /\ (LinkFits(x) => LinkFits(x)') /\ (UnderWay(x)' <=> UnderWay(x)) /\ Parties(x)' = Parties(x)
            /\ Halved(x)' <=> Halved(x)
  <2>1. Untouched(x) /\ RequestFits(x) /\ x \in Requests BY ShapeIs
  <2> QED BY <2>1, Untroubled
<1>2. \A x \in Requests : RequestFits(x)' BY <1>1
<1>3. EconomyShape' BY <1>2 DEF EconomyShape
<1> QED BY <1>1, <1>3 DEF Untouched, RestMoves

HandsFit ==
  /\ \A r \in Requests : UnderWay(r) =>
       \A a \in Parties(r) : InHands(a) /\ (InHalf(a) <=> Halved(r)) /\ (Granting(a) <=> request[r].at = "grants")
  /\ \A a \in Accounts : ~InHands(a) => ~InHalf(a) /\ ~Granting(a)
LEMMA HandsAre == EconomyShape => HandsFit
<1> SUFFICES ASSUME EconomyShape PROVE HandsFit OBVIOUS
<1>1. \A x \in Requests : Halved(x) => UnderWay(x) BY DEF Halved, UnderWay
<1>2. ASSUME NEW x \in Requests, request[x].at = "grants" PROVE UnderWay(x) /\ Parties(x) = {request[x].me}
  <2>1. request[x].op = "accept" BY <1>2, ShapeIs DEF RequestFits
  <2> QED BY <1>2, <2>1 DEF UnderWay, Parties, TwoPartyOps
<1>3. ASSUME NEW r \in Requests, UnderWay(r), NEW a \in Parties(r)
      PROVE  InHands(a) /\ (InHalf(a) <=> Halved(r)) /\ (Granting(a) <=> request[r].at = "grants")
  <2>1. \A x \in Requests : UnderWay(x) /\ a \in Parties(x) => x = r BY <1>3, Apart
  <2> QED BY <1>1, <1>2, <1>3, <2>1 DEF InHands, InHalf, Granting
<1>4. \A a \in Accounts : ~InHands(a) => ~InHalf(a) /\ ~Granting(a)
  BY <1>1, <1>2 DEF InHands, InHalf, Granting
<1> QED BY <1>3, <1>4 DEF HandsFit

\* Where nothing moves
LEMMA NothingMoves ==
  ASSUME filed' = filed, object' = object, played' = played,
         \A x \in Requests : /\ (LinkFits(x) => LinkFits(x)') /\ (UnderWay(x)' <=> UnderWay(x)) /\ (UnderWay(x) => Parties(x)' = Parties(x))
                             /\ (Halved(x)' <=> Halved(x)) /\ (request'[x].at = "grants" <=> request[x].at = "grants")
                             /\ (request[x].at = "grants" => request'[x].me = request[x].me)
  PROVE  Intact => Intact'
<1>1. \A a : (InHands(a)' <=> InHands(a)) /\ (InHalf(a)' <=> InHalf(a)) /\ (Granting(a)' <=> Granting(a))
  <2>1. \A x \in Requests : Halved(x) => UnderWay(x) BY DEF Halved, UnderWay
  <2>2. \A x \in Requests : Halved(x)' => UnderWay(x) BY <2>1
  <2> QED BY <2>1, <2>2 DEF InHands, InHalf, Granting
<1>2. Ahead' = Ahead /\ Behind' = Behind BY <1>1 DEF Ahead, Behind
<1>3. ASSUME Intact PROVE Intact'
  <2>1. Links' BY <1>1, <1>3 DEF Intact, Links, PlayedAlike
  <2>2. Rationed'
    <3>1. \A a \in Accounts : SendersIn(Ahead', a) = SendersIn(Ahead, a) BY <1>2
    <3> QED BY <1>1, <1>2, <1>3, <3>1 DEF Intact, Rationed
  <2>3. Sound(Ahead') /\ Sound(Behind') BY <1>2, <1>3 DEF Intact
  <2> QED BY <2>1, <2>2, <2>3 DEF Intact
<1> QED BY <1>3

\* A request that has changed nothing yet, or no more
LEMMA QuietKeeps ==
  ASSUME EconomyShape, NEW r \in Requests, EconomyShape', filed' = filed, object' = object, played' = played, ~UnderWay(r), ~UnderWay(r)',
         RestMoves(r)
  PROVE  Intact => Intact'
<1>1. ASSUME NEW x \in Requests
      PROVE  /\ (LinkFits(x) => LinkFits(x)') /\ (UnderWay(x)' <=> UnderWay(x)) /\ (UnderWay(x) => Parties(x)' = Parties(x))
             /\ (Halved(x)' <=> Halved(x)) /\ (request'[x].at = "grants" <=> request[x].at = "grants")
             /\ (request[x].at = "grants" => request'[x].me = request[x].me)
  <2>1. CASE x = r
    <3>1. ~Halved(r) /\ ~Halved(r)' /\ LinkFits(r)' /\ request[r].at # "grants" /\ request'[r].at # "grants"
      BY DEF Halved, UnderWay, LinkFits
    <3> QED BY <2>1, <3>1
  <2>2. CASE x # r BY <2>2 DEF RestMoves
  <2> QED BY <2>1, <2>2
<1> QED BY <1>1, NothingMoves

LEMMA AsksKeeps ==
  ASSUME EconomyShape, NEW r \in Requests, Asks(r)
  PROVE  EconomyShape' /\ (Intact => Intact')
<1>1. PICK op \in {"trade", "list", "buy", "cancel", "claim", "gift", "accept"}, me \in Accounts, you \in Accounts, w \in Weapons :
        /\ op \in TwoPartyOps => me # you
        /\ op \notin TwoPartyOps => me = you
        /\ request' = [request EXCEPT ![r] = [op |-> op, me |-> me, you |-> you, weapon |-> w, at |-> "asks",
                                              shared |-> FALSE, staged |-> <<>>]]
  BY Zenon DEF Asks
<1>2. request[r].at = "idle" /\ UNCHANGED <<filed, object, played, locked>> BY DEF Asks
<1>3. request' = [x \in Requests |-> request'[x]] /\ \A x \in Requests \ {r} : request'[x] = request[x]
  BY <1>1, ShapeIs
<1>4. PICK q : q = request'[r] /\ q = [op |-> op, me |-> me, you |-> you, weapon |-> w, at |-> "asks", shared |-> FALSE, staged |-> <<>>]
  BY <1>1, ShapeIs
<1>5. IsRequest(q) /\ AskedWell(q) /\ q.at = "asks"
  <2>1. q.op = op /\ q.me = me /\ q.you = you /\ q.weapon = w /\ q.at = "asks" BY <1>4
  <2>2. AskedWell(q) BY <1>1, <2>1 DEF AskedWell
  <2>3. IsRequest(q) BY <1>4 DEF IsRequest
  <2> QED BY <2>1, <2>2, <2>3
<1>6. RequestFits(r)' BY <1>4, <1>5 DEF RequestFits, UnderWay
<1>7. LocksFit' /\ locked' = [a \in Accounts |-> locked'[a]]
  <2>1. ASSUME NEW a \in Accounts, NEW z, z = locked'[a] PROVE z = Nobody \/ (z \in Requests /\ request'[z].at # "idle" /\ a \in Parties(z)')
    <3>1. z = Nobody \/ (z \in Requests \ {r} /\ request[z].at # "idle" /\ a \in Parties(z))
      BY <1>2, <2>1, ShapeIs DEF LocksFit
    <3> QED BY <1>3, <3>1 DEF Parties
  <2> QED BY <1>2, <2>1, ShapeIs DEF LocksFit
<1>8. \A x \in Requests \ {r} : Untouched(x) BY <1>2, <1>3 DEF Untouched
<1>9. /\ EconomyShape'
      /\ RestMoves(r)
  BY <1>2, <1>3, <1>6, <1>7, <1>8, ShapeIs, RestStays
<1>10. ~UnderWay(r) /\ ~UnderWay(r)' BY <1>2, <1>4, <1>5 DEF UnderWay
<1> QED BY <1>2, <1>9, <1>10, QuietKeeps

LEMMA LocksKeeps ==
  ASSUME EconomyShape, NEW r \in Requests, Locks(r)
  PROVE  EconomyShape' /\ (Intact => Intact')
<1>1. /\ UNCHANGED <<filed, object, played, request>> /\ request[r].at = "asks" /\ locked[NextLock(r)] = Nobody
      /\ locked' = [locked EXCEPT ![NextLock(r)] = r]
  BY DEF Locks
<1>2. NextLock(r) \in Parties(r) /\ Parties(r) \subseteq Accounts
  <2>1. RequestFits(r) /\ Parties(r) \subseteq Accounts BY <1>1, ShapeIs, PartiesAre
  <2>2. PICK s : s = {a \in Parties(r) : locked[a] # r} OBVIOUS
  <2>3. s \in SUBSET Nat /\ s # {} BY <2>1, <2>2, EconomyAssumption DEF Locks
  <2>4. \E x \in s : \A y \in s : x <= y BY <2>3, LeastIs
  <2>5. Min(s) \in s BY <2>4 DEF Min
  <2> QED BY <2>1, <2>2, <2>5 DEF NextLock
<1>3. request' = [x \in Requests |-> request'[x]] /\ \A x \in Requests \ {r} : request'[x] = request[x]
  BY <1>1, ShapeIs
<1>4. RequestFits(r)'
  <2>1. RequestFits(r) BY ShapeIs
  <2>2. request' = request /\ request[r].at = "asks" BY <1>1
  <2> QED BY <2>1, <2>2 DEF RequestFits, UnderWay
<1>5. LocksFit' /\ locked' = [a \in Accounts |-> locked'[a]]
  <2>1. \A a \in Accounts : locked'[a] = locked[a] \/ (locked'[a] = r /\ a \in Parties(r))
    BY <1>1, <1>2, ShapeIs
  <2>2. ASSUME NEW a \in Accounts, NEW z, z = locked'[a] PROVE z = Nobody \/ (z \in Requests /\ request'[z].at # "idle" /\ a \in Parties(z)')
    <3>1. z = Nobody \/ (z \in Requests /\ request[z].at # "idle" /\ a \in Parties(z))
      BY <1>1, <2>1, <2>2, ShapeIs DEF LocksFit
    <3> QED BY <1>1, <3>1 DEF Parties
  <2>3. LocksFit' BY <2>2 DEF LocksFit
  <2>4. locked' = [a \in Accounts |-> locked'[a]] BY <1>1, ShapeIs
  <2> QED BY <2>3, <2>4
<1>6. ASSUME NEW x \in Requests \ {r} PROVE Untouched(x)
  <2>1. ASSUME UnderWay(x), NEW a \in Parties(x) PROVE locked'[a] = locked[a]
    <3>1. RequestFits(x) /\ request[x].at # "idle" BY <2>1, ShapeIs DEF UnderWay
    <3>2. locked[a] = x /\ a \in Accounts BY <2>1, <3>1, PartiesAre DEF RequestFits
    <3>3. x # Nobody BY EconomyAssumption
    <3> QED BY <1>1, <1>2, <3>2, <3>3, ShapeIs
  <2> QED BY <1>1, <2>1 DEF Untouched
<1>7. /\ EconomyShape'
      /\ RestMoves(r)
  BY <1>1, <1>3, <1>4, <1>5, <1>6, ShapeIs, RestStays
<1>8. ~UnderWay(r) /\ ~UnderWay(r)' BY <1>1 DEF UnderWay
<1> QED BY <1>1, <1>7, <1>8, QuietKeeps

LEMMA RefusedKeeps ==
  ASSUME EconomyShape, NEW r \in Requests, Refused(r)
  PROVE  EconomyShape' /\ (Intact => Intact')
<1>1. UNCHANGED <<filed, object, played>> /\ request[r].at = "asks" /\ RequestEnds(r)
  BY GoesIs DEF Refused, HasLocks
<1>2. /\ LocksFit' /\ locked' = [a \in Accounts |-> locked'[a]] /\ RequestFits(r)' /\ ~UnderWay(r)'
      /\ \A x \in Requests \ {r} : UnderWay(x) => \A a \in Parties(x) : locked'[a] = locked[a]
  BY <1>1, LocksEnd
<1>3. request' = [x \in Requests |-> request'[x]] /\ \A x \in Requests \ {r} : request'[x] = request[x]
  BY <1>1 DEF RequestEnds
<1>4. \A x \in Requests \ {r} : Untouched(x) BY <1>1, <1>2, <1>3 DEF Untouched
<1>5. /\ EconomyShape'
      /\ RestMoves(r)
  BY <1>1, <1>2, <1>3, <1>4, ShapeIs, RestStays
<1>6. ~UnderWay(r) BY <1>1 DEF UnderWay
<1> QED BY <1>1, <1>2, <1>5, <1>6, QuietKeeps

LEMMA StagesKeeps ==
  ASSUME EconomyShape, NEW r \in Requests, Stages(r)
  PROVE  EconomyShape' /\ (Intact => Intact')
<1>1. UNCHANGED <<filed, object, played, locked>> /\ request[r].at = "changed" /\ RequestGoes(r, "staged", request[r].shared, object)
  BY GoesIs DEF Stages
<1>2. request' = [x \in Requests |-> request'[x]] /\ \A x \in Requests \ {r} : request'[x] = request[x]
  BY <1>1 DEF RequestGoes
<1>3. LocksFit' /\ locked' = [a \in Accounts |-> locked'[a]] BY <1>1, LocksGo
<1>4. PICK q, k : /\ q = request[r] /\ k = request'[r] /\ IsRequest(k) /\ k.op = q.op /\ k.me = q.me /\ k.you = q.you /\ k.weapon = q.weapon
                  /\ k.at = "staged" /\ k.shared = q.shared /\ k.staged = object
  BY <1>1 DEF RequestGoes, IsRequest
<1>5. Parties(r)' = Parties(r) /\ UnderWay(r) /\ UnderWay(r)' /\ (Halved(r)' <=> Halved(r))
  BY <1>1, <1>4 DEF Parties, UnderWay, Halved
<1>6. RequestFits(r)'
  <2>1. RequestFits(r) BY ShapeIs
  <2>2. AskedWell(k) BY <1>1, <1>4, <2>1 DEF RequestFits, AskedWell
  <2> QED BY <1>1, <1>4, <1>5, <2>1, <2>2 DEF RequestFits
<1>7. LinkFits(r) => LinkFits(r)'
  <2>1. CanGoBack(r) => CanGoBack(r)'
    <3>1. Gives(q, filed, object) <=> Gives(k, filed, object) BY <1>4 DEF Gives
    <3> QED BY <1>1, <1>4, <3>1 DEF CanGoBack
  <2> QED BY <1>1, <1>5, <2>1 DEF LinkFits
<1>8. \A x \in Requests \ {r} : Untouched(x) BY <1>1, <1>2 DEF Untouched
<1>9. /\ EconomyShape'
      /\ RestMoves(r)
  BY <1>1, <1>2, <1>3, <1>6, <1>8, ShapeIs, RestStays
<1>10. ASSUME NEW x \in Requests
       PROVE  /\ (LinkFits(x) => LinkFits(x)') /\ (UnderWay(x)' <=> UnderWay(x)) /\ (UnderWay(x) => Parties(x)' = Parties(x))
              /\ (Halved(x)' <=> Halved(x)) /\ (request'[x].at = "grants" <=> request[x].at = "grants")
              /\ (request[x].at = "grants" => request'[x].me = request[x].me)
  <2>1. CASE x = r BY <1>1, <1>4, <1>5, <1>7, <2>1
  <2>2. CASE x # r BY <1>9, <2>2 DEF RestMoves
  <2> QED BY <2>1, <2>2
<1>11. Intact => Intact' BY <1>1, <1>10, NothingMoves
<1> QED BY <1>9, <1>11

-----------------------------------------------------------------------------
(* What is moved by a request inside its locks.                            *)

AtWork(r) ==
  /\ request[r].at # "idle" /\ (\A a \in Parties(r) : locked[a] = r) /\ RestMoves(r) /\ played' = played
  /\ UnderWay(r)' => Parties(r)' = Parties(r)
  /\ \A a \in Accounts \ Parties(r) : filed'[a] = filed[a] /\ object'[a] = object[a]
Pends(a) == IF Granting(a) THEN 1 ELSE 0

FacesFit ==
  /\ Ahead \in [Accounts -> GoodsFiles] /\ Behind \in [Accounts -> GoodsFiles]
  /\ \A a \in Accounts : /\ Ahead[a] = IF a \in played \/ InHands(a) THEN object[a] ELSE filed[a]
                         /\ Behind[a] = IF InHalf(a) THEN object[a] ELSE filed[a]
LEMMA FacesAre == EconomyShape => FacesFit
BY DEF EconomyShape, Ahead, Behind, FacesFit

\* Who has an account in hands
LEMMA WhoseHands ==
  ASSUME EconomyShape, EconomyShape', NEW r \in Requests, AtWork(r)
  PROVE  /\ \A a \in Accounts \ Parties(r) : (InHands(a)' <=> InHands(a)) /\ (InHalf(a)' <=> InHalf(a)) /\ (Granting(a)' <=> Granting(a))
         /\ \A a \in Parties(r) : (InHands(a) <=> UnderWay(r)) /\ (InHalf(a) <=> Halved(r)) /\ (Granting(a) <=> request[r].at = "grants")
         /\ \A a \in Parties(r) : (InHands(a)' <=> UnderWay(r)') /\ (InHalf(a)' <=> Halved(r)') /\ (Granting(a)' <=> request'[r].at = "grants")
<1>1. \A x \in Requests \ {r} : /\ UnderWay(x)' <=> UnderWay(x)
                                /\ Parties(x)' = Parties(x) /\ (Halved(x)' <=> Halved(x)) /\ request'[x] = request[x]
  BY DEF AtWork, RestMoves
<1>2. (\A a \in Parties(r) : locked[a] = r) /\ Parties(r) \subseteq Accounts /\ (UnderWay(r)' => Parties(r)' = Parties(r))
  BY ShapeIs, PartiesAre DEF AtWork
<1>3. \A x \in Requests \ {r} : UnderWay(x) => Parties(r) \cap Parties(x) = {} BY <1>2, Apart
<1>4. \A x \in Requests : (Halved(x) => UnderWay(x)) /\ (Halved(x)' => UnderWay(x)')
  BY DEF Halved, UnderWay
<1>5. \A x \in Requests : (request[x].at = "grants" => UnderWay(x) /\ request[x].me \in Parties(x)) /\ (request'[x].at = "grants" => UnderWay(x)' /\ request'[x].me \in Parties(x)')
  BY DEF UnderWay, Parties
<1>6. ASSUME NEW a \in Accounts \ Parties(r)
      PROVE  (InHands(a)' <=> InHands(a)) /\ (InHalf(a)' <=> InHalf(a)) /\ (Granting(a)' <=> Granting(a))
  <2>1. \A x \in Requests : UnderWay(x) /\ a \in Parties(x) => x # r OBVIOUS
  <2>2. \A x \in Requests : UnderWay(x)' /\ a \in Parties(x)' => x # r BY <1>2
  <2>3. InHands(a)' <=> InHands(a) BY <1>1, <2>1, <2>2 DEF InHands
  <2>4. InHalf(a)' <=> InHalf(a) BY <1>1, <1>4, <2>1, <2>2 DEF InHalf
  <2>5. Granting(a)' <=> Granting(a) BY <1>1, <1>5, <2>1, <2>2 DEF Granting
  <2> QED BY <2>3, <2>4, <2>5
<1>7. ASSUME NEW a \in Parties(r)
      PROVE  (InHands(a) <=> UnderWay(r)) /\ (InHalf(a) <=> Halved(r)) /\ (Granting(a) <=> request[r].at = "grants")
  <2>1. InHands(a) <=> UnderWay(r) BY <1>3, <1>7 DEF InHands
  <2>2. a \in Accounts BY <1>2, <1>7
  <2>3. CASE UnderWay(r) BY <1>7, <2>1, <2>3, HandsAre DEF HandsFit
  <2>4. CASE ~UnderWay(r)
    <3>1. ~InHands(a) /\ ~InHalf(a) /\ ~Granting(a) BY <2>1, <2>2, <2>4, HandsAre DEF HandsFit
    <3> QED BY <1>4, <1>5, <2>1, <2>4, <3>1
  <2> QED BY <2>3, <2>4
<1>8. ASSUME NEW a \in Parties(r)
      PROVE  (InHands(a)' <=> UnderWay(r)') /\ (InHalf(a)' <=> Halved(r)') /\ (Granting(a)' <=> request'[r].at = "grants")
  <2>1. InHands(a)' <=> UnderWay(r)' BY <1>1, <1>2, <1>3, <1>8 DEF InHands
  <2>2. a \in Accounts BY <1>2, <1>8
  <2>h. EconomyShape' => HandsFit' BY HandsAre, PTL
  <2>3. CASE UnderWay(r)' BY <1>2, <1>8, <2>1, <2>3, <2>h DEF HandsFit
  <2>4. CASE ~UnderWay(r)'
    <3>1. ~InHands(a)' /\ ~InHalf(a)' /\ ~Granting(a)' BY <2>1, <2>2, <2>4, <2>h DEF HandsFit
    <3> QED BY <1>4, <1>5, <2>1, <2>4, <3>1
  <2> QED BY <2>3, <2>4
<1> QED BY <1>6, <1>7, <1>8

\* The faces of the accounts after such a step
LEMMA FacesMove ==
  ASSUME EconomyShape, EconomyShape', NEW r \in Requests, AtWork(r)
  PROVE  /\ Ahead \in [Accounts -> GoodsFiles] /\ Behind \in [Accounts -> GoodsFiles]
         /\ Ahead' \in [Accounts -> GoodsFiles] /\ Behind' \in [Accounts -> GoodsFiles]
         /\ \A a \in Accounts \ Parties(r) : Ahead'[a] = Ahead[a] /\ Behind'[a] = Behind[a] /\ Pends(a)' = Pends(a)
         /\ \A a \in Parties(r) : /\ Ahead[a] = IF a \in played \/ UnderWay(r) THEN object[a] ELSE filed[a]
                                  /\ Ahead'[a] = IF a \in played \/ UnderWay(r)' THEN object'[a] ELSE filed'[a]
                                  /\ Behind[a] = IF Halved(r) THEN object[a] ELSE filed[a]
                                  /\ Behind'[a] = IF Halved(r)' THEN object'[a] ELSE filed'[a]
                                  /\ Pends(a) = (IF request[r].at = "grants" THEN 1 ELSE 0)
                                  /\ Pends(a)' = (IF request'[r].at = "grants" THEN 1 ELSE 0)
<1>1. FacesFit BY FacesAre
<1>2. EconomyShape' => FacesFit' BY FacesAre, PTL
<1>3. Parties(r) \subseteq Accounts /\ played' = played BY ShapeIs, PartiesAre DEF AtWork
<1>4. \A a \in Accounts \ Parties(r) : Ahead'[a] = Ahead[a] /\ Behind'[a] = Behind[a] /\ Pends(a)' = Pends(a)
  BY <1>1, <1>2, <1>3, WhoseHands DEF AtWork, Pends, FacesFit
<1>5. ASSUME NEW a \in Parties(r)
      PROVE  /\ Ahead[a] = IF a \in played \/ UnderWay(r) THEN object[a] ELSE filed[a]
             /\ Behind[a] = IF Halved(r) THEN object[a] ELSE filed[a]
             /\ Pends(a) = (IF request[r].at = "grants" THEN 1 ELSE 0)
  BY <1>1, <1>3, WhoseHands DEF Pends, FacesFit
<1>6. ASSUME NEW a \in Parties(r)
      PROVE  /\ Ahead'[a] = IF a \in played \/ UnderWay(r)' THEN object'[a] ELSE filed'[a]
             /\ Behind'[a] = IF Halved(r)' THEN object'[a] ELSE filed'[a]
             /\ Pends(a)' = (IF request'[r].at = "grants" THEN 1 ELSE 0)
  BY <1>2, <1>3, WhoseHands DEF Pends, FacesFit
<1> QED BY <1>1, <1>2, <1>4, <1>5, <1>6 DEF FacesFit

\* and what ties the files to the objects
LEMMA LinksMove ==
  ASSUME EconomyShape, EconomyShape', NEW r \in Requests, AtWork(r), Links, LinkFits(r)',
         ~UnderWay(r)' => \A a \in Parties(r) \cap played : Alike(filed'[a], object'[a]) /\ Gifts(filed'[a]) <= Gifts(object'[a])
  PROVE  Links'
<1>1. \A x \in Requests : LinkFits(x)' BY DEF Links, AtWork, RestMoves
<1>2. ASSUME NEW a \in played', ~InHands(a)' PROVE Alike(filed'[a], object'[a]) /\ Gifts(filed'[a]) <= Gifts(object'[a])
  <2>1. a \in played /\ a \in Accounts BY <1>2, ShapeIs DEF AtWork
  <2>2. CASE a \in Parties(r)
    <3>1. ~UnderWay(r)' BY <1>2, <2>2, WhoseHands
    <3> QED BY <2>1, <2>2, <3>1
  <2>3. CASE a \notin Parties(r)
    <3>1. ~InHands(a) BY <1>2, <2>1, <2>3, WhoseHands
    <3> QED BY <2>1, <2>3, <3>1 DEF Links, PlayedAlike, AtWork
  <2> QED BY <2>2, <2>3
<1> QED BY <1>1, <1>2 DEF Links, PlayedAlike

\* Who may be sent one
RationFits(a) ==
  /\ a \notin Ahead'[a].sent
  /\ \/ SendersIn(Ahead', a) = SendersIn(Ahead, a) /\ Gifts(Ahead'[a]) + Pends(a)' <= Gifts(Ahead[a]) + Pends(a)
     \/ \E b \in SendersIn(Ahead, a) : SendersIn(Ahead', a) = SendersIn(Ahead, a) \ {b} /\ Gifts(Ahead'[a]) + Pends(a)' <= (Gifts(Ahead[a]) + Pends(a)) - 1
     \/ \E b \in Accounts \ SendersIn(Ahead, a) :
          SendersIn(Ahead', a) = SendersIn(Ahead, a) \cup {b} /\ Gifts(Ahead'[a]) + Pends(a)' <= Gifts(Ahead[a]) + Pends(a) + 1
LEMMA RationMoves ==
  ASSUME Ahead \in [Accounts -> GoodsFiles], Ahead' \in [Accounts -> GoodsFiles], Rationed, \A a \in Accounts : RationFits(a)
  PROVE  Rationed'
<1>1. ASSUME NEW a \in Accounts PROVE Gifts(Ahead'[a]) + Pends(a)' <= Cardinality(SendersIn(Ahead', a))
  <2>1. PICK f, g : f = Ahead /\ g = Ahead' OBVIOUS
  <2>2. PICK p, q : p = Gifts(Ahead[a]) + Pends(a) /\ q = Gifts(Ahead'[a]) + Pends(a)' OBVIOUS
  <2>3. p \in Int /\ q \in Int BY <2>2, ValueIs DEF Pends
  <2>4. p <= Cardinality(SendersIn(f, a)) BY <2>1, <2>2 DEF Rationed, Pends
  <2>5. \/ SendersIn(g, a) = SendersIn(f, a) /\ q <= p
        \/ \E b \in SendersIn(f, a) : SendersIn(g, a) = SendersIn(f, a) \ {b} /\ q <= p - 1
        \/ \E b \in Accounts \ SendersIn(f, a) : SendersIn(g, a) = SendersIn(f, a) \cup {b} /\ q <= p + 1
    <3>1. CASE SendersIn(Ahead', a) = SendersIn(Ahead, a) /\ Gifts(Ahead'[a]) + Pends(a)' <= Gifts(Ahead[a]) + Pends(a)
      BY <2>1, <2>2, <3>1
    <3>2. ASSUME NEW b \in SendersIn(Ahead, a), SendersIn(Ahead', a) = SendersIn(Ahead, a) \ {b},
                 Gifts(Ahead'[a]) + Pends(a)' <= (Gifts(Ahead[a]) + Pends(a)) - 1
          PROVE  b \in SendersIn(f, a) /\ SendersIn(g, a) = SendersIn(f, a) \ {b} /\ q <= p - 1
      <4>1. q <= p - 1 BY <2>2, <3>2
      <4> QED BY <2>1, <3>2, <4>1
    <3>3. ASSUME NEW b \in Accounts \ SendersIn(Ahead, a), SendersIn(Ahead', a) = SendersIn(Ahead, a) \cup {b},
                 Gifts(Ahead'[a]) + Pends(a)' <= Gifts(Ahead[a]) + Pends(a) + 1
          PROVE  b \in Accounts \ SendersIn(f, a) /\ SendersIn(g, a) = SendersIn(f, a) \cup {b} /\ q <= p + 1
      BY <2>1, <2>2, <3>3
    <3> QED BY <3>1, <3>2, <3>3 DEF RationFits
  <2> QED BY <2>1, <2>2, <2>3, <2>4, <2>5, SendersCount
<1> QED BY <1>1 DEF Rationed, Pends, RationFits

\* Where nobody's log of gifts changes
LEMMA SentStays ==
  ASSUME NEW f, NEW g, \A a \in Accounts : g[a].sent = f[a].sent
  PROVE  \A a \in Accounts : SendersIn(g, a) = SendersIn(f, a)
BY DEF SendersIn

LEMMA AlikeBalanced == ASSUME NEW f, NEW g, NEW m, NEW y, Alike(f[m], g[m]), Alike(f[y], g[y]) PROVE Balanced(f, g, m, y)
<1>1. \A w : Held(f, {m, y}, w) <=> Held(g, {m, y}, w) BY DEF Held, Has, Alike
<1>2. Value(f[m]) = Value(g[m]) /\ Value(f[y]) = Value(g[y]) BY DEF Value, Alike
<1> QED BY <1>1, <1>2 DEF Balanced

\* Balances compose with copies that hold the same
LEMMA SameBalance ==
  ASSUME NEW f, NEW g, NEW h, NEW k, NEW m, NEW y, Balanced(f, g, m, y), Alike(f[m], h[m]), Alike(f[y], h[y]), Alike(g[m], k[m]), Alike(g[y], k[y])
  PROVE  Balanced(h, k, m, y)
<1>1. \A w : (Held(f, {m, y}, w) <=> Held(h, {m, y}, w)) /\ (Held(g, {m, y}, w) <=> Held(k, {m, y}, w))
  BY DEF Held, Has, Alike
<1>2. Value(f[m]) = Value(h[m]) /\ Value(f[y]) = Value(h[y]) /\ Value(g[m]) = Value(k[m]) /\ Value(g[y]) = Value(k[y])
  BY DEF Value, Alike
<1> QED BY <1>1, <1>2 DEF Balanced

LEMMA BackBalances ==
  ASSUME NEW r \in Requests, AskedWell(request[r]), CanGoBack(r)
  PROVE  Balanced(filed, object, request[r].me, request[r].you)
<1>1. CASE request[r].op = "accept"
  <2>1. request[r].me = request[r].you BY <1>1 DEF AskedWell, TwoPartyOps
  <2> QED BY <1>1, <2>1, AlikeBalanced DEF CanGoBack
<1>2. CASE request[r].op # "accept" BY <1>2 DEF CanGoBack
<1> QED BY <1>1, <1>2

-----------------------------------------------------------------------------
(* Step by step.                                                           *)

\* Where Ahead is as it was, and what is pending with it
LEMMA AheadStays ==
  ASSUME EconomyShape, EconomyShape', NEW r \in Requests, AtWork(r), Intact, Links', Sound(Behind'),
         \A a \in Parties(r) : Ahead'[a] = Ahead[a] /\ Pends(a)' = Pends(a)
  PROVE  Intact'
<1>1. Ahead' = Ahead /\ \A a \in Accounts : Pends(a)' = Pends(a) BY FacesMove
<1>2. Rationed'
  <2>1. \A a \in Accounts : SendersIn(Ahead', a) = SendersIn(Ahead, a) BY <1>1
  <2> QED BY <1>1, <2>1 DEF Intact, Rationed, Pends
<1>3. Sound(Ahead') BY <1>1 DEF Intact
<1> QED BY <1>2, <1>3 DEF Intact

\* What was under way is in the files, or on its way there for good
LEMMA BehindMoves ==
  ASSUME EconomyShape, EconomyShape', NEW r \in Requests, AtWork(r), Intact, ~Halved(r), UnderWay(r),
         \A a \in Parties(r) : Behind'[a] = object[a]
  PROVE  Sound(Behind')
<1>1. PICK me \in Accounts, you \in Accounts : me = request[r].me /\ you = request[r].you /\ Parties(r) = {me, you} /\ AskedWell(request[r])
  <2>1. RequestFits(r) /\ request[r].at # "idle" BY ShapeIs DEF UnderWay
  <2> QED BY <2>1, PartiesAre DEF RequestFits, AskedWell
<1>2. /\ Ahead \in [Accounts -> GoodsFiles] /\ Behind \in [Accounts -> GoodsFiles] /\ Behind' \in [Accounts -> GoodsFiles]
      /\ \A a \in Accounts \ {me, you} : Behind'[a] = Behind[a]
      /\ \A a \in {me, you} : Ahead[a] = object[a] /\ Behind[a] = filed[a] /\ Behind'[a] = object[a]
  BY <1>1, FacesMove
<1>3. Balanced(filed, object, me, you)
  <2>1. CanGoBack(r) BY DEF Intact, Links, LinkFits
  <2> QED BY <1>1, <2>1, BackBalances
<1>4. Balanced(Behind, Behind', me, you)
  <2>1. Behind[me] = filed[me] /\ Behind[you] = filed[you] /\ Behind'[me] = object[me] /\ Behind'[you] = object[you]
    BY <1>2
  <2>2. Alike(filed[me], Behind[me]) /\ Alike(filed[you], Behind[you]) /\ Alike(object[me], Behind'[me]) /\ Alike(object[you], Behind'[you])
    BY <2>1 DEF Alike
  <2> QED BY <1>3, <2>2, SameBalance
<1>5. \A w \in Weapons : AtMostOnce(Behind', {me, you}, w)
  <2>1. \A a \in {me, you} : Alike(Ahead[a], Behind'[a]) BY <1>2 DEF Alike
  <2>2. Sound(Ahead) /\ {me, you} \in SUBSET Accounts BY DEF Intact
  <2> QED BY <2>1, <2>2, OnceAmong
<1>6. \A a \in Accounts \ {me, you} : Alike(Behind[a], Behind'[a]) BY <1>2 DEF Alike
<1>7. Priced(Behind) /\ Priced(Behind') /\ Sound(Behind) BY <1>2, AllPriced DEF Intact
<1> QED BY <1>4, <1>5, <1>6, <1>7, GoodsMove

\* A write has begun, and the accounts are still locked
LEMMA Writing ==
  ASSUME EconomyShape, NEW r \in Requests, request[r].at \in {"staged", "half"}
  PROVE  /\ request[r].at # "idle" /\ UnderWay(r) /\ (\A a \in Parties(r) : locked[a] = r /\ request[r].staged[a] = object[a])
         /\ Parties(r) \subseteq Accounts /\ Parties(r) = {request[r].me, request[r].you} /\ FirstOf(r) \in Parties(r) /\ AskedWell(request[r])
         /\ Cardinality(Parties(r)) = 2 <=> request[r].op \in TwoPartyOps
         /\ request[r].op \notin TwoPartyOps => Parties(r) = {FirstOf(r)}
<1>1. RequestFits(r) /\ UnderWay(r) /\ request[r].at # "idle" BY ShapeIs DEF UnderWay
<1>2. /\ Parties(r) \subseteq Accounts /\ Parties(r) = {request[r].me, request[r].you} /\ FirstOf(r) \in Parties(r)
      /\ request[r].op \notin TwoPartyOps => FirstOf(r) = request[r].me
      /\ Cardinality(Parties(r)) = 2 <=> request[r].op \in TwoPartyOps
  BY <1>1, PartiesAre
<1>3. AskedWell(request[r]) BY <1>1 DEF RequestFits
<1>4. \A a \in Parties(r) : locked[a] = r /\ request[r].staged[a] = object[a]
  BY <1>1 DEF RequestFits
<1>5. request[r].op \notin TwoPartyOps => Parties(r) = {FirstOf(r)} BY <1>2, <1>3 DEF AskedWell
<1> QED BY <1>1, <1>2, <1>3, <1>4, <1>5

LEMMA FirstLandsKeeps ==
  ASSUME EconomyShape, NEW r \in Requests, FirstLands(r)
  PROVE  EconomyShape' /\ (Intact => Intact')
<1>a. PICK q, a : q = request[r] /\ a = FirstOf(r) OBVIOUS
<1>1. /\ request[r].at # "idle" /\ UnderWay(r) /\ (\A b \in Parties(r) : locked[b] = r /\ request[r].staged[b] = object[b])
      /\ Parties(r) \subseteq Accounts /\ Parties(r) = {q.me, q.you} /\ a \in Parties(r) /\ AskedWell(q)
      /\ Cardinality(Parties(r)) = 2 <=> q.op \in TwoPartyOps
      /\ q.op \notin TwoPartyOps => Parties(r) = {a}
  BY <1>a, Writing DEF FirstLands
<1>2. /\ UNCHANGED <<object, played>> /\ filed' = [filed EXCEPT ![a] = object[a]] /\ q.at = "staged"
      /\ q.op \in TwoPartyOps => RequestGoes(r, "half", q.shared, q.staged) /\ locked' = locked
      /\ q.op \notin TwoPartyOps => RequestEnds(r)
  <2>1. q.op \in TwoPartyOps => Goes(r, "half") /\ locked' = locked BY <1>a, <1>1 DEF FirstLands
  <2>2. q.op \notin TwoPartyOps => Ends(r) BY <1>a, <1>1 DEF FirstLands
  <2>3. Goes(r, "half") => RequestGoes(r, "half", q.shared, q.staged) BY <1>a, GoesIs DEF Goes
  <2>4. Ends(r) => RequestEnds(r) BY GoesIs
  <2> QED BY <1>a, <1>1, <2>1, <2>2, <2>3, <2>4 DEF FirstLands
<1>3. /\ filed' \in [Accounts -> GoodsFiles] /\ a \in Accounts /\ filed'[a] = object[a]
      /\ \A b \in Accounts \ {a} : filed'[b] = filed[b]
  BY <1>1, <1>2, ShapeIs
<1>4. request' = [x \in Requests |-> request'[x]] /\ \A x \in Requests \ {r} : request'[x] = request[x]
  BY <1>2 DEF RequestGoes, RequestEnds
<1>5. /\ LocksFit' /\ locked' = [b \in Accounts |-> locked'[b]]
      /\ \A x \in Requests \ {r} : UnderWay(x) => \A b \in Parties(x) : locked'[b] = locked[b]
  <2>1. CASE q.op \in TwoPartyOps BY <1>2, <2>1, LocksGo
  <2>2. CASE q.op \notin TwoPartyOps BY <1>2, <2>2, LocksEnd
  <2> QED BY <2>1, <2>2
<1>6. ASSUME q.op \in TwoPartyOps
      PROVE  /\ RequestFits(r)' /\ Parties(r)' = Parties(r) /\ UnderWay(r)' /\ Halved(r)' /\ request'[r].at = "half"
             /\ Halved(r) <=> q.shared
  <2>1. PICK k : /\ k = request'[r] /\ IsRequest(k) /\ k.op = q.op /\ k.me = q.me /\ k.you = q.you /\ k.weapon = q.weapon
                 /\ k.at = "half" /\ k.shared = q.shared /\ k.staged = q.staged
    BY <1>a, <1>2, <1>6 DEF RequestGoes, IsRequest
  <2>2. Parties(r)' = Parties(r) /\ UnderWay(r)' /\ Halved(r)' /\ FirstOf(r)' = a /\ (Halved(r) <=> q.shared)
    BY <1>a, <1>2, <1>6, <2>1 DEF Parties, UnderWay, Halved, FirstOf
  <2>3. AskedWell(k) BY <1>1, <2>1 DEF AskedWell
  <2>4. RequestFits(r)'
    <3>1. RequestFits(r) BY ShapeIs
    <3> QED BY <1>a, <1>1, <1>2, <1>3, <1>6, <2>1, <2>2, <2>3, <3>1 DEF RequestFits
  <2> QED BY <2>1, <2>2, <2>4
<1>7. ASSUME q.op \notin TwoPartyOps PROVE RequestFits(r)' /\ ~UnderWay(r)' /\ ~Halved(r)' /\ ~Halved(r) /\ request'[r].at = "idle"
  <2>1. RequestFits(r)' /\ ~UnderWay(r)' /\ ~Halved(r)' /\ request'[r] = Idle
    BY <1>2, <1>7, LocksEnd DEF RequestEnds
  <2> QED BY <1>a, <1>7, <2>1 DEF Halved, Idle
<1>8. \A x \in Requests \ {r} : Untouched(x)
  <2>1. ASSUME NEW x \in Requests \ {r}, UnderWay(x), NEW b \in Parties(x) PROVE filed'[b] = filed[b]
    <3>1. b \notin Parties(r) BY <1>1, <2>1, Apart
    <3>2. b \in Accounts BY <2>1, ShapeIs, PartiesAre DEF UnderWay
    <3> QED BY <1>1, <1>3, <3>1, <3>2
  <2> QED BY <1>2, <1>4, <1>5, <2>1 DEF Untouched
<1>9. EconomyShape' /\ RestMoves(r)
  BY <1>2, <1>3, <1>4, <1>5, <1>6, <1>7, <1>8, ShapeIs, RestStays
<1>10. AtWork(r) BY <1>1, <1>2, <1>3, <1>6, <1>7, <1>9 DEF AtWork
<1>11. ASSUME Intact PROVE Intact'
  <2>1. \A b \in Parties(r) : /\ Ahead[b] = object[b] /\ Ahead'[b] = object[b] /\ Pends(b)' = Pends(b)
                              /\ Behind[b] = IF Halved(r) THEN object[b] ELSE filed[b]
                              /\ Behind'[b] = object[b]
    <3>f. \A b \in Parties(r) : /\ Ahead[b] = object[b] /\ Behind[b] = IF Halved(r) THEN object[b] ELSE filed[b]
                                /\ Ahead'[b] = IF b \in played \/ UnderWay(r)' THEN object[b] ELSE filed'[b]
                                /\ Behind'[b] = IF Halved(r)' THEN object[b] ELSE filed'[b]
                                /\ Pends(b) = 0 /\ Pends(b)' = (IF request'[r].at = "grants" THEN 1 ELSE 0)
      BY <1>a, <1>1, <1>2, <1>9, <1>10, FacesMove
    <3>1. CASE q.op \in TwoPartyOps BY <1>6, <3>1, <3>f
    <3>2. CASE q.op \notin TwoPartyOps BY <1>1, <1>3, <1>7, <3>2, <3>f
    <3> QED BY <3>1, <3>2
  <2>2. LinkFits(r) BY <1>11 DEF Intact, Links
  <2>3. Links'
    <3>1. CASE q.op \in TwoPartyOps
      <4>1. \A b \in {q.me, q.you} : Gifts(filed[b]) <= Gifts(object[b])
        <5>1. CASE Halved(r) BY <1>1, <2>2, <5>1 DEF LinkFits
        <5>2. CASE ~Halved(r)
          <6>1. CanGoBack(r) BY <1>1, <2>2, <5>2 DEF LinkFits
          <6>2. Gives(q, filed, object) /\ q.me # q.you
            BY <1>a, <1>1, <3>1, <6>1 DEF CanGoBack, TwoPartyOps, AskedWell
          <6>3. Gifts(filed[q.me]) \in Int /\ Gifts(filed[q.you]) \in Int
            BY <1>1, ShapeIs, ValueIs
          <6>4. /\ Gifts(object[q.me]) = Gifts(filed[q.me])
                /\ Gifts(object[q.you]) = Gifts(filed[q.you]) \/ Gifts(object[q.you]) = Gifts(filed[q.you]) + 1
            BY <3>1, <6>2 DEF Gives, TwoPartyOps
          <6> QED BY <6>3, <6>4
        <5> QED BY <5>1, <5>2
      <4>2. \A b \in {q.me, q.you} : Gifts(filed'[b]) <= Gifts(object'[b])
        <5>1. \A b \in {q.me, q.you} : Gifts(object[b]) \in Int BY <1>1, ShapeIs, ValueIs
        <5> QED BY <1>1, <1>2, <1>3, <4>1, <5>1
      <4>3. LinkFits(r)' BY <1>1, <1>6, <3>1, <4>2 DEF LinkFits
      <4> QED BY <1>6, <1>9, <1>10, <1>11, <3>1, <4>3, LinksMove DEF Intact
    <3>2. CASE q.op \notin TwoPartyOps
      <4>1. LinkFits(r)' BY <1>7, <3>2 DEF LinkFits
      <4>2. \A b \in Parties(r) : Alike(filed'[b], object'[b]) /\ Gifts(filed'[b]) <= Gifts(object'[b])
        <5>1. Gifts(object[a]) \in Int BY <1>3, ShapeIs, ValueIs
        <5> QED BY <1>1, <1>2, <1>3, <3>2, <5>1 DEF Alike
      <4> QED BY <1>9, <1>10, <1>11, <4>1, <4>2, LinksMove DEF Intact
    <3> QED BY <3>1, <3>2
  <2>4. Sound(Behind')
    <3>1. CASE Halved(r)
      <4>1. Behind' = Behind BY <1>1, <1>9, <1>10, <2>1, <3>1, FacesMove
      <4> QED BY <1>11, <4>1 DEF Intact
    <3>2. CASE ~Halved(r) BY <1>1, <1>9, <1>10, <1>11, <2>1, <3>2, BehindMoves
    <3> QED BY <3>1, <3>2
  <2> QED BY <1>9, <1>10, <1>11, <2>1, <2>3, <2>4, AheadStays
<1> QED BY <1>9, <1>11

LEMMA SecondLandsKeeps ==
  ASSUME EconomyShape, NEW r \in Requests, SecondLands(r)
  PROVE  EconomyShape' /\ (Intact => Intact')
<1>a. PICK q, a : q = request[r] /\ a = FirstOf(r) OBVIOUS
<1>1. /\ request[r].at # "idle" /\ UnderWay(r) /\ (\A b \in Parties(r) : locked[b] = r /\ request[r].staged[b] = object[b])
      /\ Parties(r) \subseteq Accounts /\ Parties(r) = {q.me, q.you} /\ a \in Parties(r)
  BY <1>a, Writing DEF SecondLands
<1>2. filed[a] = object[a] /\ Halved(r) /\ q.at = "half"
  <2>1. RequestFits(r) /\ q.at = "half" BY <1>a, ShapeIs DEF SecondLands
  <2> QED BY <1>a, <2>1 DEF RequestFits, Halved
<1>3. PICK z \in Parties(r) \ {a} : filed' = [filed EXCEPT ![z] = request[r].staged[z]]
  BY <1>a DEF SecondLands
<1>4. UNCHANGED <<object, played>> /\ RequestEnds(r) BY GoesIs DEF SecondLands
<1>5. /\ filed' \in [Accounts -> GoodsFiles] /\ (\A b \in Parties(r) : filed'[b] = object[b])
      /\ \A b \in Accounts \ Parties(r) : filed'[b] = filed[b]
  <2>1. request[r].staged[z] = object[z] /\ z \in Accounts /\ Parties(r) = {a, z} BY <1>1, <1>3
  <2> QED BY <1>2, <1>3, <2>1, ShapeIs
<1>6. /\ LocksFit' /\ locked' = [b \in Accounts |-> locked'[b]] /\ RequestFits(r)' /\ ~UnderWay(r)' /\ ~Halved(r)'
      /\ \A x \in Requests \ {r} : UnderWay(x) => \A b \in Parties(x) : locked'[b] = locked[b]
  BY <1>4, LocksEnd
<1>7. request' = [x \in Requests |-> request'[x]] /\ (\A x \in Requests \ {r} : request'[x] = request[x]) /\ request'[r].at = "idle"
  BY <1>4 DEF RequestEnds, Idle
<1>8. \A x \in Requests \ {r} : Untouched(x)
  <2>1. ASSUME NEW x \in Requests \ {r}, UnderWay(x), NEW b \in Parties(x) PROVE filed'[b] = filed[b]
    <3>1. b \notin Parties(r) BY <1>1, <2>1, Apart
    <3>2. b \in Accounts BY <2>1, ShapeIs, PartiesAre DEF UnderWay
    <3> QED BY <1>5, <3>1, <3>2
  <2> QED BY <1>4, <1>6, <1>7, <2>1 DEF Untouched
<1>9. EconomyShape' /\ RestMoves(r) BY <1>4, <1>5, <1>6, <1>7, <1>8, ShapeIs, RestStays
<1>10. AtWork(r) BY <1>1, <1>4, <1>5, <1>6, <1>9 DEF AtWork
<1>11. ASSUME Intact PROVE Intact'
  <2>1. \A b \in Parties(r) : /\ Ahead'[b] = Ahead[b] /\ Pends(b)' = Pends(b) /\ Behind'[b] = Behind[b]
    <3>1. \A b \in Parties(r) : /\ Ahead[b] = object[b] /\ Behind[b] = object[b] /\ Pends(b) = 0 /\ Pends(b)' = 0
                                /\ Ahead'[b] = IF b \in played THEN object[b] ELSE filed'[b]
                                /\ Behind'[b] = filed'[b]
      BY <1>a, <1>1, <1>2, <1>4, <1>6, <1>7, <1>9, <1>10, FacesMove
    <3> QED BY <1>5, <3>1
  <2>2. LinkFits(r)' BY <1>6 DEF LinkFits
  <2>3. \A b \in Parties(r) : Alike(filed'[b], object'[b]) /\ Gifts(filed'[b]) <= Gifts(object'[b])
    <3>1. \A b \in Parties(r) : Gifts(object[b]) \in Int BY <1>1, ShapeIs, ValueIs
    <3> QED BY <1>4, <1>5, <3>1 DEF Alike
  <2>4. Links' BY <1>9, <1>10, <1>11, <2>2, <2>3, LinksMove DEF Intact
  <2>5. Behind' = Behind BY <1>9, <1>10, <2>1, FacesMove
  <2>6. Sound(Behind') BY <1>11, <2>5 DEF Intact
  <2> QED BY <1>9, <1>10, <1>11, <2>1, <2>4, <2>6, AheadStays
<1> QED BY <1>9, <1>11

\* What was given is taken back
LEMMA GivenBack ==
  ASSUME NEW q, AskedWell(q), NEW f \in [Accounts -> GoodsFiles], NEW g \in [Accounts -> GoodsFiles], q.op # "accept", Gives(q, g, f),
         \A a \in Accounts \ {q.me, q.you} : g[a] = f[a], \A a \in Accounts : a \notin f[a].sent
  PROVE  \A a \in Accounts :
           /\ a \notin g[a].sent
           /\ \/ SendersIn(g, a) = SendersIn(f, a) /\ Gifts(g[a]) <= Gifts(f[a])
              \/ \E b \in SendersIn(f, a) : SendersIn(g, a) = SendersIn(f, a) \ {b} /\ Gifts(g[a]) <= Gifts(f[a]) - 1
<1>p. PICK me \in Accounts, you \in Accounts : me = q.me /\ you = q.you BY DEF AskedWell
<1>n. \A a \in Accounts : Gifts(f[a]) \in Int /\ Gifts(g[a]) \in Int BY ValueIs
<1>1. CASE q.op = "gift"
  <2>1. /\ me # you /\ f[you].sent = g[you].sent /\ Gifts(f[me]) = Gifts(g[me]) /\ you \notin g[me].sent
        /\ f[me].sent = g[me].sent \cup {you} /\ Gifts(f[you]) = Gifts(g[you]) + 1
    BY <1>1, <1>p DEF Gives, AskedWell, TwoPartyOps
  <2>2. \A a \in Accounts \ {me} : g[a].sent = f[a].sent BY <1>p, <2>1
  <2>3. me \in SendersIn(f, you) /\ SendersIn(g, you) = SendersIn(f, you) \ {me}
    BY <2>1, <2>2 DEF SendersIn
  <2>4. \A a \in Accounts \ {you} : SendersIn(g, a) = SendersIn(f, a)
    BY <2>1, <2>2 DEF SendersIn
  <2>5. \A a \in Accounts : a \notin g[a].sent BY <2>1, <2>2
  <2>6. Gifts(g[you]) <= Gifts(f[you]) - 1 BY <1>n, <2>1
  <2>7. \A a \in Accounts \ {you} : Gifts(g[a]) <= Gifts(f[a]) BY <1>n, <1>p, <2>1
  <2> QED BY <2>3, <2>4, <2>5, <2>6, <2>7
<1>2. CASE q.op # "gift"
  <2>1. f[me].sent = g[me].sent /\ Gifts(f[you]) = Gifts(g[you]) BY <1>2, <1>p DEF Gives
  <2>2. f[you].sent = g[you].sent /\ Gifts(f[me]) = Gifts(g[me]) BY <1>2, <1>p, <2>1 DEF Gives
  <2>3. \A a \in Accounts : g[a].sent = f[a].sent /\ Gifts(g[a]) <= Gifts(f[a])
    BY <1>n, <1>p, <2>1, <2>2
  <2>4. \A a \in Accounts : SendersIn(g, a) = SendersIn(f, a) BY <2>3, SentStays
  <2> QED BY <2>3, <2>4
<1> QED BY <1>1, <1>2

LEMMA WriteFailsKeeps ==
  ASSUME EconomyShape, NEW r \in Requests, WriteFails(r)
  PROVE  EconomyShape' /\ (~Halved(r) /\ Intact => Intact')
<1>a. PICK q, me, you : q = request[r] /\ me = q.me /\ you = q.you OBVIOUS
<1>1. /\ request[r].at # "idle" /\ UnderWay(r) /\ (\A b \in Parties(r) : locked[b] = r)
      /\ Parties(r) \subseteq Accounts /\ Parties(r) = {me, you} /\ AskedWell(q) /\ q.at \in {"staged", "half"}
  BY <1>a, Writing DEF WriteFails
<1>2. UNCHANGED <<filed, object, played>> /\ RequestEnds(r) BY GoesIs DEF WriteFails
<1>3. /\ LocksFit' /\ locked' = [b \in Accounts |-> locked'[b]] /\ RequestFits(r)' /\ ~UnderWay(r)' /\ ~Halved(r)'
      /\ \A x \in Requests \ {r} : UnderWay(x) => \A b \in Parties(x) : locked'[b] = locked[b]
  BY <1>2, LocksEnd
<1>4. request' = [x \in Requests |-> request'[x]] /\ (\A x \in Requests \ {r} : request'[x] = request[x]) /\ request'[r].at = "idle"
  BY <1>2 DEF RequestEnds, Idle
<1>5. \A x \in Requests \ {r} : Untouched(x) BY <1>2, <1>3, <1>4 DEF Untouched
<1>6. EconomyShape' /\ RestMoves(r) BY <1>2, <1>3, <1>4, <1>5, ShapeIs, RestStays
<1>7. AtWork(r) BY <1>1, <1>2, <1>3, <1>6 DEF AtWork
<1>8. ASSUME Intact, ~Halved(r) PROVE Intact'
  <2>1. CanGoBack(r) /\ me \in Accounts /\ you \in Accounts
    BY <1>1, <1>8 DEF Intact, Links, LinkFits
  <2>2. \A b \in {me, you} : /\ Ahead[b] = object[b] /\ Behind[b] = filed[b] /\ Behind'[b] = filed[b] /\ Pends(b) = 0 /\ Pends(b)' = 0
                             /\ Ahead'[b] = IF b \in played THEN object[b] ELSE filed[b]
    BY <1>a, <1>1, <1>2, <1>3, <1>4, <1>6, <1>7, <1>8, FacesMove
  <2>3. /\ Ahead \in [Accounts -> GoodsFiles] /\ Behind \in [Accounts -> GoodsFiles] /\ Ahead' \in [Accounts -> GoodsFiles]
        /\ Behind' \in [Accounts -> GoodsFiles]
        /\ \A b \in Accounts \ {me, you} : Ahead'[b] = Ahead[b] /\ Behind'[b] = Behind[b] /\ Pends(b)' = Pends(b)
    BY <1>1, <1>6, <1>7, FacesMove
  <2>4. q.op # "accept" => me \notin played /\ you \notin played
    <3>1. RequestFits(r) BY ShapeIs
    <3>2. q.op # "accept" => ~q.shared BY <1>a, <1>1, <1>8, <3>1 DEF RequestFits, Halved
    <3> QED BY <1>a, <1>1, <3>1, <3>2 DEF RequestFits
  <2>5. q.op = "accept" => me = you /\ Alike(filed[me], object[me]) /\ Gifts(filed[me]) <= Gifts(object[me])
    <3>1. Gifts(object[me]) \in Int BY <2>1, ShapeIs, ValueIs
    <3>2. q.at # "grants" BY <1>1
    <3> QED BY <1>a, <1>1, <2>1, <3>1, <3>2 DEF CanGoBack, AskedWell, TwoPartyOps
  <2>6. \A b \in {me, you} : Alike(filed[b], Ahead'[b]) /\ Alike(Behind[b], Ahead'[b])
    <3>1. \A b \in {me, you} : Ahead'[b] = filed[b] \/ Alike(filed[b], Ahead'[b])
      BY <2>2, <2>4, <2>5
    <3> QED BY <2>2, <3>1 DEF Alike
  <2>7. Sound(Ahead')
    <3>1. Balanced(filed, object, me, you) BY <1>a, <1>1, <2>1, BackBalances
    <3>2. Balanced(object, filed, me, you) BY <3>1, TakenBack
    <3>3. Alike(object[me], Ahead[me]) /\ Alike(object[you], Ahead[you]) /\ Alike(filed[me], Ahead'[me]) /\ Alike(filed[you], Ahead'[you])
      BY <2>2, <2>6 DEF Alike
    <3>4. Balanced(Ahead, Ahead', me, you) BY <3>2, <3>3, SameBalance
    <3>5. \A w \in Weapons : AtMostOnce(Ahead', {me, you}, w)
      <4>1. Sound(Behind) /\ {me, you} \in SUBSET Accounts BY <1>8, <2>1 DEF Intact
      <4> QED BY <2>6, <4>1, OnceAmong
    <3>6. \A b \in Accounts \ {me, you} : Alike(Ahead[b], Ahead'[b]) BY <2>3 DEF Alike
    <3>7. Priced(Ahead) /\ Priced(Ahead') /\ Sound(Ahead) BY <1>8, <2>3, AllPriced DEF Intact
    <3> QED BY <2>1, <3>4, <3>5, <3>6, <3>7, GoodsMove
  <2>8. Sound(Behind')
    <3>1. Behind' = Behind BY <2>2, <2>3
    <3> QED BY <1>8, <3>1 DEF Intact
  <2>9. Links'
    <3>1. LinkFits(r)' BY <1>3 DEF LinkFits
    <3>2. \A b \in Parties(r) \cap played : Alike(filed'[b], object'[b]) /\ Gifts(filed'[b]) <= Gifts(object'[b])
      BY <1>1, <1>2, <2>4, <2>5
    <3> QED BY <1>6, <1>7, <1>8, <3>1, <3>2, LinksMove DEF Intact
  <2>10. Rationed'
    <3>1. \A b \in Accounts : b \notin Ahead[b].sent BY <1>8 DEF Intact, Rationed
    <3>n. \A b \in Accounts : Gifts(Ahead[b]) \in Int /\ Gifts(Ahead'[b]) \in Int /\ Pends(b) \in Int /\ Pends(b)' = Pends(b)
      BY <2>2, <2>3, ValueIs DEF Pends
    <3>2. CASE q.op = "accept"
      <4>1. \A b \in Accounts : Ahead'[b].sent = Ahead[b].sent /\ Gifts(Ahead'[b]) <= Gifts(Ahead[b])
        <5>1. ASSUME NEW b \in {me, you} PROVE Ahead'[b].sent = Ahead[b].sent /\ Gifts(Ahead'[b]) <= Gifts(Ahead[b])
          <6>1. Alike(filed[b], object[b]) /\ Gifts(filed[b]) <= Gifts(object[b]) /\ Gifts(object[b]) <= Gifts(object[b])
            BY <2>1, <2>2, <2>5, <3>2, <3>n
          <6> QED BY <2>2, <6>1 DEF Alike
        <5> QED BY <2>3, <3>n, <5>1
      <4>2. \A b \in Accounts : SendersIn(Ahead', b) = SendersIn(Ahead, b) BY <4>1, SentStays
      <4>3. \A b \in Accounts : RationFits(b) BY <3>1, <3>n, <4>1, <4>2 DEF RationFits
      <4> QED BY <1>8, <2>3, <4>3, RationMoves DEF Intact
    <3>3. CASE q.op # "accept"
      <4>1. Gives(q, Ahead', Ahead)
        <5>1. Gives(q, filed, object) BY <1>a, <2>1, <3>3 DEF CanGoBack
        <5>2. Ahead[me] = object[me] /\ Ahead[you] = object[you] /\ Ahead'[me] = filed[me] /\ Ahead'[you] = filed[you]
          BY <2>2, <2>4, <3>3
        <5> QED BY <1>a, <3>3, <5>1, <5>2 DEF Gives
      <4>2. \A a \in Accounts :
              /\ a \notin Ahead'[a].sent
              /\ \/ SendersIn(Ahead', a) = SendersIn(Ahead, a) /\ Gifts(Ahead'[a]) <= Gifts(Ahead[a])
                 \/ \E b \in SendersIn(Ahead, a) : SendersIn(Ahead', a) = SendersIn(Ahead, a) \ {b} /\ Gifts(Ahead'[a]) <= Gifts(Ahead[a]) - 1
        BY <1>a, <1>1, <2>3, <3>1, <3>3, <4>1, GivenBack
      <4>3. ASSUME NEW a \in Accounts PROVE RationFits(a)
        <5>1. Gifts(Ahead'[a]) <= Gifts(Ahead[a]) => Gifts(Ahead'[a]) + Pends(a)' <= Gifts(Ahead[a]) + Pends(a)
          BY <3>n
        <5>2. Gifts(Ahead'[a]) <= Gifts(Ahead[a]) - 1 => Gifts(Ahead'[a]) + Pends(a)' <= (Gifts(Ahead[a]) + Pends(a)) - 1
          BY <3>n
        <5> QED BY <4>2, <5>1, <5>2 DEF RationFits
      <4> QED BY <1>8, <2>3, <4>3, RationMoves DEF Intact
    <3> QED BY <3>2, <3>3
  <2> QED BY <2>7, <2>8, <2>9, <2>10 DEF Intact
<1> QED BY <1>6, <1>8

\* One more on the pile, or in stock
OneMore(k, l) == Alike(k, l) /\ Gifts(l) = Gifts(k) + 1 /\ l \in GoodsFiles
LEMMA OneMoreIs == ASSUME NEW k \in GoodsFiles PROVE OneMore(k, [k EXCEPT !.stock = @ + 1]) /\ OneMore(k, [k EXCEPT !.pile = @ + 1])
<1>1. PICK stock \in Int, pile \in Int : stock = k.stock + 1 /\ pile = k.pile + 1
  BY DEF GoodsFiles
<1>2. PICK l, m : l = [k EXCEPT !.stock = stock] /\ m = [k EXCEPT !.pile = pile] OBVIOUS
<1>3. l \in GoodsFiles /\ m \in GoodsFiles BY <1>2 DEF GoodsFiles
<1>4. /\ l.gold = k.gold /\ l.bag = k.bag /\ l.up = k.up /\ l.sold = k.sold /\ l.sales = k.sales /\ l.pile = k.pile /\ l.stock = stock /\ l.sent = k.sent
      /\ m.gold = k.gold /\ m.bag = k.bag /\ m.up = k.up /\ m.sold = k.sold /\ m.sales = k.sales /\ m.pile = pile /\ m.stock = k.stock /\ m.sent = k.sent
  BY <1>2 DEF GoodsFiles
<1>5. Alike(k, l) /\ Alike(k, m) BY <1>4 DEF Alike
<1>6. Gifts(l) = Gifts(k) + 1 /\ Gifts(m) = Gifts(k) + 1
  <2>1. k.pile \in Int /\ k.stock \in Int BY DEF GoodsFiles
  <2> QED BY <1>1, <1>4, <2>1 DEF Gifts
<1>7. l = [k EXCEPT !.stock = @ + 1] /\ m = [k EXCEPT !.pile = @ + 1] BY <1>1, <1>2
<1> QED BY <1>3, <1>5, <1>6, <1>7 DEF OneMore

LEMMA GrantsGiftKeeps ==
  ASSUME EconomyShape, NEW r \in Requests, GrantsGift(r)
  PROVE  EconomyShape' /\ (Intact => Intact')
<1>a. PICK q, me : q = request[r] /\ me = q.me OBVIOUS
<1>1. /\ q.op = "accept" /\ q.you = me /\ me \in Accounts /\ Parties(r) = {me} /\ locked[me] = r /\ UnderWay(r) /\ q.at = "grants"
      /\ AskedWell(q) /\ ~Halved(r) /\ RequestFits(r)
  <2>1. RequestFits(r) /\ q.at = "grants" /\ UnderWay(r)
    BY <1>a, ShapeIs DEF GrantsGift, UnderWay
  <2>2. q.op = "accept" /\ AskedWell(q) BY <1>a, <2>1 DEF RequestFits
  <2>3. Parties(r) = {me} /\ q.you = me /\ me \in Accounts
    BY <1>a, <2>2 DEF Parties, TwoPartyOps, AskedWell
  <2>4. locked[me] = r BY <2>1, <2>3 DEF RequestFits
  <2> QED BY <1>a, <2>1, <2>2, <2>3, <2>4 DEF Halved, TwoPartyOps
<1>2. /\ UNCHANGED <<filed, played>> /\ object' \in [Accounts -> GoodsFiles] /\ OneMore(object[me], object'[me])
      /\ \A b \in Accounts \ {me} : object'[b] = object[b]
      /\ \/ RequestGoes(r, "changed", q.shared, q.staged) /\ locked' = locked
         \/ RequestEnds(r)
  <2>1. object \in [Accounts -> GoodsFiles] BY ShapeIs
  <2>2. CASE object' = [object EXCEPT ![request[r].me].stock = @ + 1] /\ Goes(r, "changed") /\ UNCHANGED locked
    <3>1. RequestGoes(r, "changed", q.shared, q.staged) BY <1>a, <2>2, GoesIs DEF Goes
    <3>k. PICK k \in GoodsFiles : k = object[me] BY <1>1, <2>1
    <3>2. object'[me] = [k EXCEPT !.stock = @ + 1] /\ \A b \in Accounts \ {me} : object'[b] = object[b]
      BY <1>a, <1>1, <2>1, <2>2, <3>k
    <3>l. OneMore(k, [k EXCEPT !.stock = @ + 1]) BY OneMoreIs
    <3>3. OneMore(object[me], object'[me]) BY <3>k, <3>l, <3>2
    <3>4. object' \in [Accounts -> GoodsFiles]
      <4>1. object' = [b \in Accounts |-> object'[b]] BY <2>1, <2>2
      <4>2. \A b \in Accounts : object'[b] \in GoodsFiles BY <2>1, <3>2, <3>3 DEF OneMore
      <4> QED BY <4>1, <4>2
    <3> QED BY <2>2, <3>1, <3>2, <3>3, <3>4 DEF GrantsGift
  <2>3. CASE object' = [object EXCEPT ![request[r].me].pile = @ + 1] /\ Ends(r)
    <3>1. RequestEnds(r) BY <2>3, GoesIs
    <3>k. PICK k \in GoodsFiles : k = object[me] BY <1>1, <2>1
    <3>2. object'[me] = [k EXCEPT !.pile = @ + 1] /\ \A b \in Accounts \ {me} : object'[b] = object[b]
      BY <1>a, <1>1, <2>1, <2>3, <3>k
    <3>l. OneMore(k, [k EXCEPT !.pile = @ + 1]) BY OneMoreIs
    <3>3. OneMore(object[me], object'[me]) BY <3>k, <3>l, <3>2
    <3>4. object' \in [Accounts -> GoodsFiles]
      <4>1. object' = [b \in Accounts |-> object'[b]] BY <2>1, <2>3
      <4>2. \A b \in Accounts : object'[b] \in GoodsFiles BY <2>1, <3>2, <3>3 DEF OneMore
      <4> QED BY <4>1, <4>2
    <3> QED BY <2>3, <3>1, <3>2, <3>3, <3>4 DEF GrantsGift
  <2> QED BY <2>2, <2>3 DEF GrantsGift
<1>3. request' = [x \in Requests |-> request'[x]] /\ \A x \in Requests \ {r} : request'[x] = request[x]
  BY <1>2 DEF RequestGoes, RequestEnds
<1>4. /\ LocksFit' /\ locked' = [b \in Accounts |-> locked'[b]] /\ RequestFits(r)' /\ ~Halved(r)' /\ request'[r].at # "grants"
      /\ \A x \in Requests \ {r} : UnderWay(x) => \A b \in Parties(x) : locked'[b] = locked[b]
      /\ \/ UnderWay(r)' /\ Parties(r)' = {me} /\ request'[r].op = "accept" /\ request'[r].me = me
         \/ ~UnderWay(r)'
  <2>1. CASE RequestGoes(r, "changed", q.shared, q.staged) /\ locked' = locked
    <3>1. PICK k : /\ k = request'[r] /\ IsRequest(k) /\ k.op = q.op /\ k.me = q.me /\ k.you = q.you /\ k.weapon = q.weapon
                   /\ k.at = "changed" /\ k.shared = q.shared /\ k.staged = q.staged
      BY <1>a, <2>1 DEF RequestGoes, IsRequest
    <3>2. AskedWell(k) BY <1>1, <3>1 DEF AskedWell
    <3>3. Parties(r)' = {me} /\ UnderWay(r)' /\ ~Halved(r)'
      BY <1>a, <1>1, <3>1 DEF Parties, UnderWay, Halved, TwoPartyOps
    <3>4. RequestFits(r)' BY <1>a, <1>1, <1>2, <2>1, <3>1, <3>2, <3>3 DEF RequestFits
    <3>5. LocksFit' /\ locked' = [b \in Accounts |-> locked'[b]] BY <2>1, LocksGo
    <3> QED BY <1>a, <1>1, <2>1, <3>1, <3>3, <3>4, <3>5
  <2>2. CASE RequestEnds(r)
    <3>1. request'[r].at = "idle" BY <2>2 DEF RequestEnds, Idle
    <3> QED BY <2>2, <3>1, LocksEnd
  <2> QED BY <1>2, <2>1, <2>2
<1>5. \A x \in Requests \ {r} : Untouched(x)
  <2>1. ASSUME NEW x \in Requests \ {r}, UnderWay(x), NEW b \in Parties(x) PROVE object'[b] = object[b]
    <3>1. b \notin Parties(r) BY <1>1, <2>1, Apart
    <3>2. b \in Accounts BY <2>1, ShapeIs, PartiesAre DEF UnderWay
    <3> QED BY <1>1, <1>2, <3>1, <3>2
  <2> QED BY <1>2, <1>3, <1>4, <2>1 DEF Untouched
<1>6. EconomyShape' /\ RestMoves(r) BY <1>2, <1>3, <1>4, <1>5, ShapeIs, RestStays
<1>7. AtWork(r) BY <1>a, <1>1, <1>2, <1>4, <1>6 DEF AtWork
<1>8. ASSUME Intact PROVE Intact'
  <2>1. Alike(filed[me], object[me]) /\ Gifts(filed[me]) <= Gifts(object[me]) + 1
    <3>1. CanGoBack(r) BY <1>1, <1>8 DEF Intact, Links, LinkFits
    <3> QED BY <1>a, <1>1, <3>1 DEF CanGoBack
  <2>2. Alike(object[me], object'[me]) /\ Alike(filed[me], object'[me]) /\ Gifts(object'[me]) = Gifts(object[me]) + 1 /\ Gifts(object[me]) \in Int /\ Gifts(filed[me]) \in Int
    <3>1. Alike(object[me], object'[me]) /\ Gifts(object'[me]) = Gifts(object[me]) + 1
      BY <1>2 DEF OneMore
    <3>2. Gifts(object[me]) \in Int /\ Gifts(filed[me]) \in Int BY <1>1, ShapeIs, ValueIs
    <3> QED BY <2>1, <3>1, <3>2 DEF Alike
  <2>3. /\ Ahead[me] = object[me] /\ Behind[me] = filed[me] /\ Behind'[me] = filed[me] /\ Pends(me) = 1 /\ Pends(me)' = 0
        /\ Ahead'[me] = object'[me] \/ Ahead'[me] = filed[me]
    BY <1>a, <1>1, <1>2, <1>4, <1>6, <1>7, FacesMove
  <2>4. /\ Ahead \in [Accounts -> GoodsFiles] /\ Behind \in [Accounts -> GoodsFiles] /\ Ahead' \in [Accounts -> GoodsFiles]
        /\ Behind' \in [Accounts -> GoodsFiles]
        /\ \A b \in Accounts \ {me} : Ahead'[b] = Ahead[b] /\ Behind'[b] = Behind[b] /\ Pends(b)' = Pends(b)
    BY <1>1, <1>6, <1>7, FacesMove
  <2>5. Alike(Ahead[me], Ahead'[me]) /\ Gifts(Ahead'[me]) + Pends(me)' <= Gifts(Ahead[me]) + Pends(me)
    <3>1. CASE Ahead'[me] = object'[me] BY <2>2, <2>3, <3>1
    <3>2. CASE Ahead'[me] = filed[me] BY <2>1, <2>2, <2>3, <3>2 DEF Alike
    <3> QED BY <2>3, <3>1, <3>2
  <2>6. Sound(Ahead')
    <3>1. \A b \in Accounts : Alike(Ahead[b], Ahead'[b]) BY <2>4, <2>5 DEF Alike
    <3>2. Priced(Ahead) /\ Priced(Ahead') /\ Sound(Ahead) BY <1>8, <2>4, AllPriced DEF Intact
    <3> QED BY <3>1, <3>2, AlikeSound
  <2>7. Sound(Behind')
    <3>1. Behind' = Behind BY <2>3, <2>4
    <3> QED BY <1>8, <3>1 DEF Intact
  <2>8. Links'
    <3>1. Gifts(filed[me]) <= Gifts(object'[me]) /\ Gifts(filed[me]) <= Gifts(object'[me]) + 0
      BY <2>1, <2>2
    <3>2. LinkFits(r)' BY <1>2, <1>4, <2>2, <3>1 DEF LinkFits, CanGoBack
    <3>3. \A b \in Parties(r) \cap played : Alike(filed'[b], object'[b]) /\ Gifts(filed'[b]) <= Gifts(object'[b])
      BY <1>1, <1>2, <2>2, <3>1
    <3> QED BY <1>6, <1>7, <1>8, <3>2, <3>3, LinksMove DEF Intact
  <2>9. Rationed'
    <3>1. \A b \in Accounts : b \notin Ahead[b].sent /\ Ahead'[b].sent = Ahead[b].sent
      BY <1>8, <2>4, <2>5 DEF Intact, Rationed, Alike
    <3>2. \A b \in Accounts : SendersIn(Ahead', b) = SendersIn(Ahead, b) BY <3>1, SentStays
    <3>3. \A b \in Accounts : Gifts(Ahead'[b]) + Pends(b)' <= Gifts(Ahead[b]) + Pends(b)
      <4>1. \A b \in Accounts : Gifts(Ahead[b]) + Pends(b) \in Int BY <2>4, ValueIs DEF Pends
      <4> QED BY <2>4, <2>5, <4>1
    <3>4. \A b \in Accounts : RationFits(b) BY <3>1, <3>2, <3>3 DEF RationFits
    <3> QED BY <1>8, <2>4, <3>4, RationMoves DEF Intact
  <2> QED BY <2>6, <2>7, <2>8, <2>9 DEF Intact
<1> QED BY <1>6, <1>8

\* Locked by a request that has changed nothing, an account is in nobody's hands
LEMMA FreeHands ==
  ASSUME EconomyShape, NEW r \in Requests, request[r].at = "asks", NEW a \in Accounts, locked[a] = r
  PROVE  ~InHands(a) /\ ~InHalf(a) /\ ~Granting(a) /\ Ahead[a] = Loaded(a) /\ Behind[a] = filed[a]
<1>1. ASSUME NEW x \in Requests, UnderWay(x), a \in Parties(x) PROVE FALSE
  <2>1. locked[a] = x /\ x # r BY <1>1, ShapeIs DEF RequestFits, UnderWay
  <2> QED BY <2>1
<1>2. ~InHands(a) BY <1>1 DEF InHands
<1>3. ~InHalf(a) /\ ~Granting(a) BY <1>2, HandsAre DEF HandsFit
<1> QED BY <1>2, <1>3, FacesAre DEF FacesFit, Loaded

LEMMA ChangesKeeps ==
  ASSUME EconomyShape, NEW r \in Requests, Changes(r)
  PROVE  EconomyShape' /\ (Intact => Intact')
<1>a. PICK q, me, you : q = request[r] /\ me = q.me /\ you = q.you OBVIOUS
<1>1. /\ q.at = "asks" /\ (\A a \in Parties(r) : locked[a] = r) /\ me \in Accounts /\ you \in Accounts /\ Parties(r) = {me, you}
      /\ AskedWell(q) /\ ~UnderWay(r) /\ ~Halved(r) /\ RequestFits(r)
  <2>1. q.at = "asks" /\ (\A a \in Parties(r) : locked[a] = r) /\ RequestFits(r)
    BY <1>a, ShapeIs DEF Changes, HasLocks
  <2>2. AskedWell(q) BY <1>a, <2>1 DEF RequestFits
  <2>3. Parties(r) = {me, you} BY <1>a, <2>1, PartiesAre
  <2> QED BY <1>a, <2>1, <2>2, <2>3 DEF AskedWell, UnderWay, Halved
<1>c. PICK c : c = Changed(r, Loaded(me), Loaded(you)) OBVIOUS
<1>2. /\ UNCHANGED <<filed, played, locked>> /\ Agreed(r, Loaded(me), Loaded(you))
      /\ object' = [object EXCEPT ![you] = c.you, ![me] = c.me]
      /\ RequestGoes(r, IF q.op = "accept" THEN "grants" ELSE "changed", Parties(r) \cap played # {}, q.staged)
  BY <1>a, <1>c, GoesIs DEF Changes
<1>3. object'[me] = c.me /\ object'[you] = c.you /\ \A b \in Accounts \ {me, you} : object'[b] = object[b]
  <2>1. object \in [Accounts -> GoodsFiles] BY ShapeIs
  <2>2. me = you => c.me = c.you
    <3>1. me = you => q.op \in {"list", "cancel", "claim", "accept"}
      BY <1>a, <1>1 DEF AskedWell, TwoPartyOps
    <3> QED BY <1>a, <1>c, <3>1 DEF Changed
  <2> QED BY <1>1, <1>2, <2>1, <2>2
<1>4. PICK now \in [Accounts -> GoodsFiles] : now = [a \in Accounts |-> Loaded(a)]
  BY ShapeIs DEF Loaded
<1>5. /\ Ahead \in [Accounts -> GoodsFiles] /\ Behind \in [Accounts -> GoodsFiles]
      /\ \A b \in {me, you} : Ahead[b] = now[b] /\ Behind[b] = filed[b] /\ Pends(b) = 0
  BY <1>a, <1>1, <1>4, FreeHands, FacesAre DEF Pends, FacesFit
<1>6. ChangedAs(r, now, object')
  <2>1. now[me] = Loaded(me) /\ now[you] = Loaded(you) BY <1>1, <1>4
  <2> QED BY <1>a, <1>c, <1>2, <1>3, <2>1 DEF ChangedAs
<1>k. PICK k : /\ k = request'[r] /\ IsRequest(k) /\ k.op = q.op /\ k.me = me /\ k.you = you /\ k.weapon = q.weapon
               /\ k.at = (IF q.op = "accept" THEN "grants" ELSE "changed") /\ k.shared = (Parties(r) \cap played # {})
  BY <1>a, <1>2 DEF RequestGoes, IsRequest
<1>7. /\ Parties(r)' = Parties(r) /\ UnderWay(r)' /\ (Halved(r)' <=> q.op \in TwoPartyOps /\ k.shared)
  BY <1>a, <1>1, <1>k DEF Parties, UnderWay, Halved, TwoPartyOps
<1>8. q.op \notin TwoPartyOps /\ q.op # "accept" => ~k.shared
  <2>1. q.op \notin TwoPartyOps /\ q.op # "accept" => q.op \in {"list", "cancel", "claim"} /\ me = you
    BY <1>a, <1>1 DEF AskedWell, TwoPartyOps
  <2>2. q.op \in {"list", "cancel", "claim"} => me \notin played BY <1>a, <1>2 DEF Agreed
  <2> QED BY <1>1, <1>k, <2>1, <2>2
<1>9. RequestFits(r)'
  <2>1. AskedWell(k) BY <1>a, <1>1, <1>k DEF AskedWell
  <2> QED BY <1>1, <1>2, <1>k, <1>7, <1>8, <2>1 DEF RequestFits
<1>10. request' = [x \in Requests |-> request'[x]] /\ \A x \in Requests \ {r} : request'[x] = request[x]
  BY <1>2 DEF RequestGoes
<1>11. LocksFit' /\ locked' = [b \in Accounts |-> locked'[b]]
  <2>1. PICK at : RequestGoes(r, at, Parties(r) \cap played # {}, q.staged) /\ at # "idle"
    BY <1>2
  <2> QED BY <1>2, <2>1, LocksGo
<1>12. \A x \in Requests \ {r} : Untouched(x)
  <2>1. ASSUME NEW x \in Requests \ {r}, UnderWay(x), NEW b \in Parties(x) PROVE object'[b] = object[b]
    <3>1. b \notin Parties(r) BY <1>1, <2>1, Apart
    <3>2. b \in Accounts BY <2>1, ShapeIs, PartiesAre DEF UnderWay
    <3> QED BY <1>1, <1>3, <3>1, <3>2
  <2> QED BY <1>2, <1>10, <2>1 DEF Untouched
<1>13. /\ object'[me] \in GoodsFiles /\ object'[you] \in GoodsFiles /\ Gives(q, now, object')
       /\ (\A w \in Weapons : AtMostOnce(now, {me, you}, w))
            => Balanced(now, object', me, you) /\ \A w \in Weapons : AtMostOnce(object', {me, you}, w)
  BY <1>a, <1>1, <1>6, WhatChanges
<1>14. object' \in [Accounts -> GoodsFiles]
  <2>1. object \in [Accounts -> GoodsFiles] BY ShapeIs
  <2>2. \A b \in Accounts : object'[b] \in GoodsFiles BY <1>3, <1>13, <2>1
  <2>3. object' = [b \in Accounts |-> object'[b]] BY <1>2, <2>1
  <2> QED BY <2>2, <2>3
<1>15. EconomyShape' /\ RestMoves(r)
  BY <1>2, <1>9, <1>10, <1>11, <1>12, <1>14, ShapeIs, RestStays
<1>16. AtWork(r) BY <1>a, <1>1, <1>2, <1>3, <1>7, <1>15 DEF AtWork
<1>17. ASSUME Intact PROVE Intact'
  <2>1. /\ Ahead' \in [Accounts -> GoodsFiles] /\ Behind' \in [Accounts -> GoodsFiles]
        /\ \A b \in Accounts \ {me, you} : Ahead'[b] = Ahead[b] /\ Behind'[b] = Behind[b] /\ Pends(b)' = Pends(b)
        /\ \A b \in {me, you} : /\ Ahead'[b] = object'[b] /\ Behind'[b] = (IF Halved(r)' THEN object'[b] ELSE filed[b])
                                /\ Pends(b)' = (IF k.at = "grants" THEN 1 ELSE 0)
    <3>1. /\ Ahead' \in [Accounts -> GoodsFiles] /\ Behind' \in [Accounts -> GoodsFiles]
          /\ \A b \in Accounts \ Parties(r) : Ahead'[b] = Ahead[b] /\ Behind'[b] = Behind[b] /\ Pends(b)' = Pends(b)
          /\ \A b \in Parties(r) : /\ Ahead'[b] = IF b \in played \/ UnderWay(r)' THEN object'[b] ELSE filed'[b]
                                   /\ Behind'[b] = IF Halved(r)' THEN object'[b] ELSE filed'[b]
                                   /\ Pends(b)' = (IF request'[r].at = "grants" THEN 1 ELSE 0)
      BY <1>15, <1>16, FacesMove
    <3>2. Parties(r) = {me, you} /\ UnderWay(r)' /\ filed' = filed /\ k = request'[r]
      BY <1>1, <1>2, <1>k, <1>7
    <3> QED BY <3>1, <3>2
  <2>2. /\ Balanced(now, object', me, you) /\ Gives(q, now, object') /\ \A w \in Weapons : AtMostOnce(object', {me, you}, w)
    <3>1. \A b \in {me, you} : Alike(Ahead[b], now[b]) BY <1>5 DEF Alike
    <3>2. Sound(Ahead) /\ {me, you} \in SUBSET Accounts BY <1>1, <1>17 DEF Intact
    <3>3. \A w \in Weapons : AtMostOnce(now, {me, you}, w) BY <3>1, <3>2, OnceAmong
    <3> QED BY <1>13, <3>3
  <2>3. \A b \in {me, you} : Alike(filed[b], now[b]) /\ Gifts(filed[b]) <= Gifts(now[b]) /\ Gifts(filed[b]) \in Int /\ Gifts(now[b]) \in Int
                             /\ (b \notin played => filed[b] = now[b])
    <3> SUFFICES ASSUME NEW b \in {me, you}
                 PROVE  Alike(filed[b], now[b]) /\ Gifts(filed[b]) <= Gifts(now[b]) /\ Gifts(filed[b]) \in Int /\ Gifts(now[b]) \in Int
                        /\ (b \notin played => filed[b] = now[b])
      OBVIOUS
    <3>1. b \in Accounts /\ now[b] = Loaded(b) /\ Gifts(filed[b]) \in Int /\ Gifts(now[b]) \in Int
      BY <1>1, <1>4, ShapeIs, ValueIs
    <3>2. CASE b \in played
      <4>1. ~InHands(b) BY <1>a, <1>1, <3>1, FreeHands
      <4>2. Alike(filed[b], object[b]) /\ Gifts(filed[b]) <= Gifts(object[b])
        BY <1>17, <3>2, <4>1 DEF Intact, Links, PlayedAlike
      <4> QED BY <3>1, <3>2, <4>2 DEF Loaded
    <3>3. CASE b \notin played BY <3>1, <3>3 DEF Loaded, Alike
    <3> QED BY <3>2, <3>3
  <2>4. Sound(Ahead')
    <3>1. Balanced(Ahead, Ahead', me, you)
      <4>1. Alike(now[me], Ahead[me]) /\ Alike(now[you], Ahead[you]) /\ Alike(object'[me], Ahead'[me]) /\ Alike(object'[you], Ahead'[you])
        BY <1>5, <2>1 DEF Alike
      <4> QED BY <2>2, <4>1, SameBalance
    <3>2. \A w \in Weapons : AtMostOnce(Ahead', {me, you}, w) BY <2>1, <2>2 DEF AtMostOnce, Has
    <3>3. \A b \in Accounts \ {me, you} : Alike(Ahead[b], Ahead'[b]) BY <2>1 DEF Alike
    <3>4. Priced(Ahead) /\ Priced(Ahead') /\ Sound(Ahead)
      BY <1>5, <1>17, <2>1, AllPriced DEF Intact
    <3> QED BY <1>1, <3>1, <3>2, <3>3, <3>4, GoodsMove
  <2>5. Sound(Behind')
    <3>1. CASE Halved(r)'
      <4>1. \A b \in {me, you} : Behind'[b] = object'[b] /\ Behind[b] = filed[b]
        BY <1>5, <2>1, <3>1
      <4>2. Balanced(Behind, Behind', me, you)
        <5>1. Alike(now[me], Behind[me]) /\ Alike(now[you], Behind[you]) /\ Alike(object'[me], Behind'[me]) /\ Alike(object'[you], Behind'[you])
          BY <2>3, <4>1 DEF Alike
        <5> QED BY <2>2, <5>1, SameBalance
      <4>3. \A w \in Weapons : AtMostOnce(Behind', {me, you}, w)
        BY <2>2, <4>1 DEF AtMostOnce, Has
      <4>4. \A b \in Accounts \ {me, you} : Alike(Behind[b], Behind'[b]) BY <2>1 DEF Alike
      <4>5. Priced(Behind) /\ Priced(Behind') /\ Sound(Behind)
        BY <1>5, <1>17, <2>1, AllPriced DEF Intact
      <4> QED BY <1>1, <4>2, <4>3, <4>4, <4>5, GoodsMove
    <3>2. CASE ~Halved(r)'
      <4>1. Behind' = Behind BY <1>5, <2>1, <3>2
      <4> QED BY <1>17, <4>1 DEF Intact
    <3> QED BY <3>1, <3>2
  <2>6. Links'
    <3>1. CASE q.op = "accept"
      <4>1. Alike(now[me], object'[me]) /\ Gifts(object'[me]) = Gifts(now[me]) - 1 /\ k.at = "grants" /\ k.op = "accept"
        BY <1>a, <1>k, <2>2, <3>1 DEF Gives
      <4>2. Alike(filed[me], object'[me]) /\ Gifts(filed[me]) <= Gifts(object'[me]) + 1
        BY <2>3, <4>1 DEF Alike
      <4>3. CanGoBack(r)' /\ ~Halved(r)'
        BY <1>2, <1>k, <1>7, <3>1, <4>1, <4>2 DEF CanGoBack, TwoPartyOps
      <4>4. LinkFits(r)' BY <4>3 DEF LinkFits
      <4> QED BY <1>7, <1>15, <1>16, <1>17, <4>4, LinksMove DEF Intact
    <3>2. CASE q.op # "accept" /\ ~Halved(r)'
      <4>1. filed[me] = now[me] /\ filed[you] = now[you] BY <1>1, <1>k, <1>7, <1>8, <2>3, <3>2
      <4>2. Balanced(filed, object', me, you)
        <5>1. Alike(now[me], filed[me]) /\ Alike(now[you], filed[you]) /\ Alike(object'[me], object'[me]) /\ Alike(object'[you], object'[you])
          BY <4>1 DEF Alike
        <5> QED BY <2>2, <5>1, SameBalance
      <4>3. Gives(k, filed, object') BY <1>a, <1>k, <2>2, <3>2, <4>1 DEF Gives
      <4>4. CanGoBack(r)' BY <1>2, <1>k, <3>2, <4>2, <4>3 DEF CanGoBack
      <4>5. LinkFits(r)' BY <3>2, <4>4 DEF LinkFits
      <4> QED BY <1>7, <1>15, <1>16, <1>17, <4>5, LinksMove DEF Intact
    <3>3. CASE q.op # "accept" /\ Halved(r)'
      <4>1. q.op \in TwoPartyOps /\ me # you BY <1>a, <1>1, <1>7, <3>3 DEF AskedWell
      <4>2. /\ Gifts(object'[me]) = Gifts(now[me])
            /\ Gifts(object'[you]) = Gifts(now[you]) \/ Gifts(object'[you]) = Gifts(now[you]) + 1
        BY <1>a, <2>2, <3>3, <4>1 DEF Gives
      <4>3. \A b \in {me, you} : Gifts(filed[b]) <= Gifts(object'[b]) BY <2>3, <4>2
      <4>4. LinkFits(r)' BY <1>1, <1>2, <1>7, <3>3, <4>3 DEF LinkFits
      <4> QED BY <1>7, <1>15, <1>16, <1>17, <4>4, LinksMove DEF Intact
    <3> QED BY <3>1, <3>2, <3>3
  <2>7. Rationed'
    <3>1. \A b \in Accounts : b \notin Ahead[b].sent BY <1>17 DEF Intact, Rationed
    <3>n. /\ \A b \in Accounts : Gifts(Ahead[b]) \in Int /\ Gifts(Ahead'[b]) \in Int /\ Pends(b) \in Int
          /\ Ahead[me] = now[me] /\ Ahead[you] = now[you] /\ Ahead'[me] = object'[me] /\ Ahead'[you] = object'[you]
          /\ Pends(me) = 0 /\ Pends(you) = 0
      BY <1>5, <2>1, ValueIs DEF Pends
    <3>2. CASE q.op = "accept"
      <4>1. Alike(now[me], object'[me]) /\ Gifts(object'[me]) = Gifts(now[me]) - 1 /\ me = you /\ Pends(me)' = 1
        BY <1>a, <1>1, <1>k, <2>1, <2>2, <3>2 DEF Gives, AskedWell, TwoPartyOps
      <4>2. \A b \in Accounts : Ahead'[b].sent = Ahead[b].sent BY <2>1, <3>n, <4>1 DEF Alike
      <4>3. \A b \in Accounts : SendersIn(Ahead', b) = SendersIn(Ahead, b) BY <4>2, SentStays
      <4>4. \A b \in Accounts : Gifts(Ahead'[b]) + Pends(b)' <= Gifts(Ahead[b]) + Pends(b)
        BY <2>1, <3>n, <4>1
      <4>5. \A b \in Accounts : RationFits(b) BY <3>1, <4>2, <4>3, <4>4 DEF RationFits
      <4> QED BY <1>5, <1>17, <2>1, <4>5, RationMoves DEF Intact
    <3>3. CASE q.op = "gift"
      <4>1. /\ me # you /\ object'[you].sent = now[you].sent /\ Gifts(object'[me]) = Gifts(now[me]) /\ you \notin now[me].sent
            /\ object'[me].sent = now[me].sent \cup {you} /\ Gifts(object'[you]) = Gifts(now[you]) + 1 /\ k.at # "grants"
        BY <1>a, <1>1, <1>k, <2>2, <3>3 DEF Gives, AskedWell, TwoPartyOps
      <4>2. /\ \A b \in Accounts \ {me} : Ahead'[b].sent = Ahead[b].sent
            /\ Ahead'[me].sent = Ahead[me].sent \cup {you} /\ you \notin Ahead[me].sent
        BY <2>1, <3>n, <4>1
      <4>3. me \in Accounts \ SendersIn(Ahead, you) /\ SendersIn(Ahead', you) = SendersIn(Ahead, you) \cup {me}
        BY <1>1, <4>1, <4>2 DEF SendersIn
      <4>4. \A b \in Accounts \ {you} : SendersIn(Ahead', b) = SendersIn(Ahead, b)
        BY <4>1, <4>2 DEF SendersIn
      <4>5. \A b \in Accounts : b \notin Ahead'[b].sent BY <3>1, <4>1, <4>2
      <4>p. \A b \in {me, you} : Pends(b)' = 0 BY <2>1, <4>1
      <4>6. \A b \in Accounts \ {you} : Gifts(Ahead'[b]) + Pends(b)' <= Gifts(Ahead[b]) + Pends(b)
        BY <2>1, <3>n, <4>1, <4>p
      <4>7. Gifts(Ahead'[you]) + Pends(you)' <= Gifts(Ahead[you]) + Pends(you) + 1
        BY <1>1, <3>n, <4>1, <4>p
      <4>8. \A b \in Accounts : RationFits(b) BY <4>3, <4>4, <4>5, <4>6, <4>7 DEF RationFits
      <4> QED BY <1>5, <1>17, <2>1, <4>8, RationMoves DEF Intact
    <3>4. CASE q.op \notin {"gift", "accept"}
      <4>1. /\ object'[me].sent = now[me].sent /\ object'[you].sent = now[you].sent
            /\ Gifts(object'[me]) = Gifts(now[me]) /\ Gifts(object'[you]) = Gifts(now[you]) /\ k.at # "grants"
        BY <1>a, <1>k, <2>2, <3>4 DEF Gives
      <4>2. \A b \in Accounts : Ahead'[b].sent = Ahead[b].sent BY <2>1, <3>n, <4>1
      <4>3. \A b \in Accounts : SendersIn(Ahead', b) = SendersIn(Ahead, b) BY <4>2, SentStays
      <4>4. \A b \in Accounts : Gifts(Ahead'[b]) + Pends(b)' <= Gifts(Ahead[b]) + Pends(b)
        BY <2>1, <3>n, <4>1
      <4>5. \A b \in Accounts : RationFits(b) BY <3>1, <4>2, <4>3, <4>4 DEF RationFits
      <4> QED BY <1>5, <1>17, <2>1, <4>5, RationMoves DEF Intact
    <3> QED BY <3>2, <3>3, <3>4
  <2> QED BY <2>4, <2>5, <2>6, <2>7 DEF Intact
<1> QED BY <1>15, <1>17

\* The runs ask for nothing and hold no lock
LEMMA HandsStay ==
  ASSUME request' = request
  PROVE  /\ \A x : (UnderWay(x)' <=> UnderWay(x)) /\ Parties(x)' = Parties(x) /\ (Halved(x)' <=> Halved(x)) /\ FirstOf(x)' = FirstOf(x)
         /\ \A a : (InHands(a)' <=> InHands(a)) /\ (InHalf(a)' <=> InHalf(a)) /\ (Granting(a)' <=> Granting(a)) /\ Pends(a)' = Pends(a)
<1>1. \A x : (UnderWay(x)' <=> UnderWay(x)) /\ Parties(x)' = Parties(x) /\ (Halved(x)' <=> Halved(x)) /\ FirstOf(x)' = FirstOf(x)
  BY DEF UnderWay, Parties, Halved, FirstOf
<1>2. \A a : (InHands(a)' <=> InHands(a)) /\ (InHalf(a)' <=> InHalf(a)) /\ (Granting(a)' <=> Granting(a))
  BY <1>1 DEF InHands, InHalf, Granting
<1> QED BY <1>1, <1>2 DEF Pends

\* Where Ahead is as it was and no request moves
LEMMA RationStays ==
  ASSUME request' = request, Ahead' = Ahead, Rationed PROVE Rationed'
<1>1. \A a : Granting(a)' <=> Granting(a) BY HandsStay
<1>2. \A a \in Accounts : SendersIn(Ahead', a) = SendersIn(Ahead, a) OBVIOUS
<1> QED BY <1>1, <1>2 DEF Rationed

LEMMA LocksStay == ASSUME EconomyShape, request' = request, locked' = locked PROVE LocksFit'
<1>1. LocksFit BY ShapeIs
<1>2. ASSUME NEW a \in Accounts, NEW z, z = locked'[a] PROVE z = Nobody \/ (z \in Requests /\ request'[z].at # "idle" /\ a \in Parties(z)')
  BY <1>1, <1>2, HandsStay DEF LocksFit
<1> QED BY <1>2 DEF LocksFit

LEMMA EntersRunKeeps ==
  ASSUME EconomyShape, NEW a \in Accounts, EntersRun(a)
  PROVE  EconomyShape' /\ (Intact => Intact')
<1>1. /\ UNCHANGED <<filed, locked, request>> /\ a \notin played /\ locked[a] = Nobody /\ played' = played \cup {a}
      /\ object' \in [Accounts -> GoodsFiles] /\ object'[a] = filed[a] /\ \A b \in Accounts \ {a} : object'[b] = object[b]
  <2>1. filed \in [Accounts -> GoodsFiles] /\ object \in [Accounts -> GoodsFiles] BY ShapeIs
  <2> QED BY <2>1 DEF EntersRun
<1>2. ASSUME NEW x \in Requests, UnderWay(x) PROVE a \notin Parties(x) /\ Parties(x) \subseteq Accounts
  <2>1. RequestFits(x) /\ request[x].at # "idle" /\ x # Nobody
    BY <1>2, ShapeIs, EconomyAssumption DEF UnderWay
  <2> QED BY <1>1, <1>2, <2>1, PartiesAre DEF RequestFits
<1>3. ASSUME NEW x \in Requests PROVE RequestFits(x)' /\ (LinkFits(x) => LinkFits(x)')
  <2>1. Untouched(x)
    <3>1. ASSUME UnderWay(x), NEW b \in Parties(x)
          PROVE  locked'[b] = locked[b] /\ filed'[b] = filed[b] /\ object'[b] = object[b] /\ (b \in played' <=> b \in played)
      BY <1>1, <1>2, <3>1
    <3> QED BY <1>1, <3>1 DEF Untouched
  <2> QED BY <2>1, ShapeIs, Untroubled
<1>4. EconomyShape' BY <1>1, <1>3, ShapeIs, LocksStay DEF EconomyShape
<1>5. ~InHands(a) /\ ~InHalf(a)
  <2>1. ~InHands(a) BY <1>2 DEF InHands
  <2> QED BY <2>1, HandsAre DEF HandsFit
<1>6. Ahead' = Ahead /\ Behind' = Behind
  <2>1. ASSUME NEW b \in Accounts
        PROVE  /\ (IF b \in played' \/ InHands(b)' THEN object'[b] ELSE filed'[b]) = (IF b \in played \/ InHands(b) THEN object[b] ELSE filed[b])
               /\ (IF InHalf(b)' THEN object'[b] ELSE filed'[b]) = (IF InHalf(b) THEN object[b] ELSE filed[b])
    <3>1. (InHands(b)' <=> InHands(b)) /\ (InHalf(b)' <=> InHalf(b)) BY <1>1, HandsStay
    <3>2. CASE b = a BY <1>1, <1>5, <3>1, <3>2
    <3>3. CASE b # a BY <1>1, <3>1, <3>3
    <3> QED BY <3>2, <3>3
  <2> QED BY <2>1 DEF Ahead, Behind
<1>7. ASSUME Intact PROVE Intact'
  <2>1. PlayedAlike'
    <3>1. ASSUME NEW b \in played', ~InHands(b)' PROVE Alike(filed'[b], object'[b]) /\ Gifts(filed'[b]) <= Gifts(object'[b])
      <4>1. CASE b = a
        <5>1. filed'[b] = object'[b] /\ filed'[b] \in GoodsFiles BY <1>1, <4>1, ShapeIs
        <5> QED BY <5>1, ValueIs DEF Alike
      <4>2. CASE b # a
        <5>1. b \in played /\ b \in Accounts /\ ~InHands(b)
          BY <1>1, <3>1, <4>2, ShapeIs, HandsStay
        <5> QED BY <1>1, <1>7, <4>2, <5>1 DEF Intact, Links, PlayedAlike
      <4> QED BY <4>1, <4>2
    <3> QED BY <3>1 DEF PlayedAlike
  <2>2. Links' BY <1>3, <1>7, <2>1 DEF Intact, Links
  <2>3. Rationed' BY <1>1, <1>6, <1>7, RationStays DEF Intact
  <2> QED BY <1>6, <1>7, <2>2, <2>3 DEF Intact
<1> QED BY <1>4, <1>7

\* The object of a run is written where it is not in anybody's write
LEMMA RunLands ==
  ASSUME EconomyShape, NEW a \in played, UNCHANGED <<object, locked, request>>, filed' = [filed EXCEPT ![a] = object[a]],
         played' \subseteq played, played \ {a} \subseteq played'
  PROVE  EconomyShape' /\ (Intact => Intact')
<1>1. /\ a \in Accounts /\ filed \in [Accounts -> GoodsFiles] /\ object \in [Accounts -> GoodsFiles] /\ filed' \in [Accounts -> GoodsFiles]
      /\ filed'[a] = object[a] /\ \A b \in Accounts \ {a} : filed'[b] = filed[b]
  <2>1. a \in Accounts /\ filed \in [Accounts -> GoodsFiles] /\ object \in [Accounts -> GoodsFiles]
    BY ShapeIs
  <2> QED BY <2>1
<1>2. /\ \A x : (UnderWay(x)' <=> UnderWay(x)) /\ Parties(x)' = Parties(x) /\ (Halved(x)' <=> Halved(x)) /\ FirstOf(x)' = FirstOf(x)
      /\ \A b : (InHands(b)' <=> InHands(b)) /\ (InHalf(b)' <=> InHalf(b))
  BY HandsStay
<1>3. ASSUME NEW x \in Requests PROVE RequestFits(x)'
  <2>1. RequestFits(x) /\ request'[x] = request[x] BY ShapeIs
  <2>2. request[x].at = "half" => filed'[FirstOf(x)] = object[FirstOf(x)]
    <3>1. ASSUME request[x].at = "half" PROVE filed[FirstOf(x)] = object[FirstOf(x)] /\ FirstOf(x) \in Accounts
      BY <2>1, <3>1, PartiesAre DEF RequestFits
    <3> QED BY <1>1, <3>1
  <2>3. UnderWay(x) /\ ~request[x].shared => Parties(x) \cap played' = {}
    BY <2>1 DEF RequestFits
  <2> QED BY <1>2, <2>1, <2>2, <2>3 DEF RequestFits
<1>4. EconomyShape' BY <1>1, <1>3, ShapeIs, LocksStay DEF EconomyShape
<1>5. ASSUME NEW x \in Requests, UnderWay(x), a \in Parties(x), ~Halved(x)
      PROVE  request[x].op = "accept" /\ request[x].me = a
  <2>1. RequestFits(x) /\ request[x].shared BY <1>5, ShapeIs DEF RequestFits
  <2>2. request[x].op \notin TwoPartyOps
    BY <1>5, <2>1 DEF RequestFits, UnderWay, Halved, TwoPartyOps
  <2> QED BY <1>5, <2>1, <2>2 DEF RequestFits, Parties
<1>6. Ahead' = Ahead
  <2>1. ASSUME NEW b \in Accounts
        PROVE  (IF b \in played' \/ InHands(b)' THEN object'[b] ELSE filed'[b]) = (IF b \in played \/ InHands(b) THEN object[b] ELSE filed[b])
    <3>1. CASE b = a BY <1>1, <1>2, <3>1
    <3>2. CASE b # a BY <1>1, <1>2, <3>2
    <3> QED BY <3>1, <3>2
  <2> QED BY <2>1 DEF Ahead
<1>7. ASSUME Intact PROVE Intact'
  <2>1. PlayedAlike'
    <3>1. ASSUME NEW b \in played', ~InHands(b)' PROVE Alike(filed'[b], object'[b]) /\ Gifts(filed'[b]) <= Gifts(object'[b])
      <4>1. CASE b = a
        <5>1. filed'[b] = object'[b] /\ filed'[b] \in GoodsFiles BY <1>1, <4>1
        <5> QED BY <5>1, ValueIs DEF Alike
      <4>2. CASE b # a
        <5>1. b \in played /\ b \in Accounts /\ ~InHands(b) BY <1>2, <3>1, ShapeIs
        <5> QED BY <1>1, <1>7, <4>2, <5>1 DEF Intact, Links, PlayedAlike
      <4> QED BY <4>1, <4>2
    <3> QED BY <3>1 DEF PlayedAlike
  <2>2. ASSUME NEW x \in Requests PROVE LinkFits(x)'
    <3>1. CASE ~UnderWay(x) BY <1>2, <3>1 DEF LinkFits
    <3>2. CASE UnderWay(x) /\ a \notin Parties(x)
      <4>1. Parties(x) \subseteq Accounts /\ RequestFits(x)
        BY <3>2, ShapeIs, PartiesAre DEF UnderWay
      <4>2. ASSUME NEW b \in Parties(x)
            PROVE  locked'[b] = locked[b] /\ filed'[b] = filed[b] /\ object'[b] = object[b] /\ (b \in played' <=> b \in played)
        BY <1>1, <3>2, <4>1
      <4>3. Untouched(x) BY <4>2 DEF Untouched
      <4> QED BY <1>7, <4>1, <4>3, Untroubled DEF Intact, Links
    <3>3. CASE UnderWay(x) /\ a \in Parties(x) /\ Halved(x)
      <4>1. Parties(x) \subseteq Accounts BY <3>3, ShapeIs, PartiesAre DEF UnderWay
      <4>2. \A b \in Parties(x) : Gifts(filed[b]) <= Gifts(object[b])
        BY <1>7, <3>3 DEF Intact, Links, LinkFits
      <4>3. Gifts(object[a]) <= Gifts(object[a]) BY <1>1, ValueIs
      <4>4. \A b \in Parties(x) : Gifts(filed'[b]) <= Gifts(object'[b])
        BY <1>1, <4>1, <4>2, <4>3
      <4> QED BY <1>2, <3>3, <4>4 DEF LinkFits
    <3>4. CASE UnderWay(x) /\ a \in Parties(x) /\ ~Halved(x)
      <4>1. request[x].op = "accept" /\ request[x].me = a BY <1>5, <3>4
      <4>2. filed'[a] = object'[a] /\ Gifts(filed'[a]) \in Int BY <1>1, ValueIs
      <4>3. CanGoBack(x)' BY <4>1, <4>2 DEF CanGoBack, Alike
      <4> QED BY <1>2, <3>4, <4>3 DEF LinkFits
    <3> QED BY <3>1, <3>2, <3>3, <3>4
  <2>3. Links' BY <2>1, <2>2 DEF Links
  <2>4. Rationed' BY <1>6, <1>7, RationStays DEF Intact
  <2>5. FacesFit /\ FacesFit'
    <3>1. EconomyShape' => FacesFit' BY FacesAre, PTL
    <3> QED BY <1>4, <3>1, FacesAre
  <2>6. ~InHalf(a) => Alike(filed[a], object[a])
    <3>1. CASE ~InHands(a) BY <1>7, <3>1 DEF Intact, Links, PlayedAlike
    <3>2. ASSUME InHands(a), ~InHalf(a) PROVE Alike(filed[a], object[a])
      <4>1. PICK x \in Requests : UnderWay(x) /\ a \in Parties(x) BY <3>2 DEF InHands
      <4>2. ~Halved(x) BY <3>2, <4>1 DEF InHalf
      <4>3. CanGoBack(x) BY <1>7, <4>1, <4>2 DEF Intact, Links, LinkFits
      <4> QED BY <1>5, <4>1, <4>2, <4>3 DEF CanGoBack
    <3> QED BY <3>1, <3>2
  <2>7. Sound(Behind')
    <3>1. \A b \in Accounts : Alike(Behind[b], Behind'[b])
      <4>1. ASSUME NEW b \in Accounts PROVE Alike(Behind[b], Behind'[b])
        <5>1. Behind[b] = (IF InHalf(b) THEN object[b] ELSE filed[b]) /\ Behind'[b] = (IF InHalf(b) THEN object[b] ELSE filed'[b])
          BY <1>2, <2>5 DEF FacesFit
        <5>2. CASE b = a /\ ~InHalf(a) BY <1>1, <2>6, <5>1, <5>2
        <5>3. CASE ~(b = a /\ ~InHalf(a))
          <6>1. Behind'[b] = Behind[b] BY <1>1, <5>1, <5>3
          <6> QED BY <6>1 DEF Alike
        <5> QED BY <5>2, <5>3
      <4> QED BY <4>1
    <3>2. Priced(Behind) /\ Priced(Behind') /\ Sound(Behind)
      BY <1>7, <2>5, AllPriced DEF FacesFit, Intact
    <3> QED BY <3>1, <3>2, AlikeSound
  <2> QED BY <1>6, <1>7, <2>3, <2>4, <2>7 DEF Intact
<1> QED BY <1>4, <1>7

LEMMA RunIsSavedKeeps ==
  ASSUME EconomyShape, NEW a \in Accounts, RunIsSaved(a) \/ ComesBack(a)
  PROVE  EconomyShape' /\ (Intact => Intact')
<1>1. /\ a \in played /\ UNCHANGED <<object, locked, request>> /\ filed' = [filed EXCEPT ![a] = object[a]]
      /\ played' \subseteq played /\ played \ {a} \subseteq played'
  BY DEF RunIsSaved, ComesBack
<1> QED BY <1>1, RunLands

-----------------------------------------------------------------------------
(* The end of the process, and what the files hold then.                   *)

\* What is on file of an account, next to what is ahead of it
LEMMA FiledBehind ==
  ASSUME EconomyShape, Links, NEW b \in Accounts
  PROVE  \/ Alike(filed[b], Ahead[b]) /\ Gifts(filed[b]) <= Gifts(Ahead[b])
         \/ \E x \in Requests : UnderWay(x) /\ b \in Parties(x) /\ Ahead[b] = object[b]
<1>1. FacesFit /\ filed[b] \in GoodsFiles BY FacesAre, ShapeIs
<1>2. CASE InHands(b) BY <1>1, <1>2 DEF InHands, FacesFit
<1>3. CASE ~InHands(b) /\ b \in played BY <1>1, <1>3 DEF Links, PlayedAlike, FacesFit
<1>4. CASE ~InHands(b) /\ b \notin played
  <2>1. filed[b] = Ahead[b] BY <1>1, <1>4 DEF FacesFit
  <2> QED BY <1>1, <2>1, ValueIs DEF Alike
<1> QED BY <1>2, <1>3, <1>4

\* Of two parties, by what their request changed
LEMMA HandsBehind ==
  ASSUME EconomyShape, Links, NEW x \in Requests, UnderWay(x), ~Halved(x), NEW b \in Parties(x)
  PROVE  /\ b \notin object[b].sent => b \notin filed[b].sent
         /\ IF request[x].op = "gift"
            THEN /\ request[x].me # request[x].you /\ Gifts(filed[b]) <= Gifts(object[b]) - (IF b = request[x].you THEN 1 ELSE 0)
                 /\ request[x].you \notin filed[request[x].me].sent
                 /\ object[b].sent = IF b = request[x].me THEN filed[b].sent \cup {request[x].you} ELSE filed[b].sent
            ELSE Gifts(filed[b]) <= Gifts(object[b]) + Pends(b) /\ object[b].sent = filed[b].sent
<1>q. PICK q, me, you : q = request[x] /\ me = q.me /\ you = q.you OBVIOUS
<1>1. /\ RequestFits(x) /\ AskedWell(q) /\ Parties(x) = {me, you} /\ me \in Accounts /\ you \in Accounts
      /\ q.op \in TwoPartyOps <=> me # you
  <2>1. RequestFits(x) /\ q.at # "idle" BY <1>q, ShapeIs DEF UnderWay
  <2>2. AskedWell(q) /\ Parties(x) = {me, you} BY <1>q, <2>1, PartiesAre DEF RequestFits
  <2> QED BY <1>q, <2>1, <2>2 DEF AskedWell
<1>2. CanGoBack(x) BY DEF Links, LinkFits
<1>3. b \in {me, you} /\ Gifts(filed[me]) \in Int /\ Gifts(object[me]) \in Int /\ Gifts(filed[you]) \in Int /\ Gifts(object[you]) \in Int
  BY <1>1, ShapeIs, ValueIs
<1>4. Pends(b) = (IF q.at = "grants" THEN 1 ELSE 0) BY <1>q, HandsAre DEF HandsFit, Pends
<1>5. CASE q.op = "accept"
  <2>1. Alike(filed[me], object[me]) /\ Gifts(filed[me]) <= Gifts(object[me]) + (IF q.at = "grants" THEN 1 ELSE 0) /\ b = me
    BY <1>q, <1>1, <1>2, <1>3, <1>5 DEF CanGoBack, TwoPartyOps
  <2> QED BY <1>q, <1>4, <1>5, <2>1 DEF Alike
<1>6. CASE q.op # "accept"
  <2>1. Gives(q, filed, object) BY <1>q, <1>2, <1>6 DEF CanGoBack
  <2>2. /\ me # you => object[you].sent = filed[you].sent /\ Gifts(object[me]) = Gifts(filed[me])
        /\ IF q.op = "gift" THEN you \notin filed[me].sent /\ object[me].sent = filed[me].sent \cup {you} /\ Gifts(object[you]) = Gifts(filed[you]) + 1
           ELSE object[me].sent = filed[me].sent /\ Gifts(object[you]) = Gifts(filed[you])
    BY <1>q, <1>6, <2>1 DEF Gives
  <2>3. q.op = "gift" => me # you BY <1>1 DEF TwoPartyOps
  <2>4. Pends(b) \in {0, 1} BY DEF Pends
  <2>5. CASE q.op = "gift"
    <3>1. /\ me # you /\ object[you].sent = filed[you].sent /\ Gifts(filed[me]) <= Gifts(object[me]) /\ you \notin filed[me].sent
          /\ object[me].sent = filed[me].sent \cup {you} /\ Gifts(filed[you]) <= Gifts(object[you]) - 1
      BY <1>3, <2>2, <2>3, <2>5
    <3>2. b = me \/ (b = you /\ b # me) BY <1>3, <3>1
    <3>3. b # you => Gifts(filed[b]) <= Gifts(object[b]) - 0 BY <1>3, <3>1, <3>2
    <3>4. /\ Gifts(filed[b]) <= Gifts(object[b]) - (IF b = you THEN 1 ELSE 0)
          /\ object[b].sent = IF b = me THEN filed[b].sent \cup {you} ELSE filed[b].sent
      BY <3>1, <3>2, <3>3
    <3>5. b \notin object[b].sent => b \notin filed[b].sent BY <3>1, <3>2
    <3> QED BY <1>q, <2>5, <3>1, <3>4, <3>5
  <2>6. CASE q.op # "gift" BY <1>q, <1>3, <2>2, <2>4, <2>6
  <2> QED BY <2>5, <2>6
<1> QED BY <1>5, <1>6

\* No file has more gifts than what is ahead of it, and what a call still has to grant
LEMMA GiftsOnFile ==
  ASSUME EconomyShape, Links, NEW b \in Accounts
  PROVE  Gifts(filed[b]) <= Gifts(Ahead[b]) + Pends(b)
<1>1. Gifts(filed[b]) \in Int /\ Gifts(Ahead[b]) \in Int /\ Gifts(object[b]) \in Int /\ Pends(b) \in {0, 1}
  BY ShapeIs, FacesAre, ValueIs DEF FacesFit, Pends
<1>2. ASSUME NEW x \in Requests, UnderWay(x), b \in Parties(x), Ahead[b] = object[b] PROVE Gifts(filed[b]) <= Gifts(Ahead[b]) + Pends(b)
  <2>1. CASE Halved(x) BY <1>1, <1>2, <2>1 DEF Links, LinkFits
  <2>2. CASE ~Halved(x)
    <3>1. \/ Gifts(filed[b]) <= Gifts(object[b]) - (IF b = request[x].you THEN 1 ELSE 0)
          \/ Gifts(filed[b]) <= Gifts(object[b]) + Pends(b)
      BY <1>2, <2>2, HandsBehind
    <3> QED BY <1>1, <1>2, <3>1
  <2> QED BY <2>1, <2>2
<1>3. CASE Alike(filed[b], Ahead[b]) /\ Gifts(filed[b]) <= Gifts(Ahead[b]) BY <1>1, <1>3
<1> QED BY <1>2, <1>3, FiledBehind

LEMMA CrashesKeeps ==
  ASSUME EconomyShape, Crashes
  PROVE  EconomyShape' /\ ((\A r \in Requests : ~Halved(r)) /\ Intact => Intact')
<1>1. /\ filed' = filed /\ object' = filed /\ played' = {} /\ locked' = [a \in Accounts |-> Nobody] /\ request' = [r \in Requests |-> Idle]
      /\ filed \in [Accounts -> GoodsFiles]
  BY ShapeIs DEF Crashes
<1>2. \A x \in Requests : RequestFits(x)' /\ ~UnderWay(x)' /\ ~Halved(x)' /\ request'[x].at # "grants"
  <2>1. \A x \in Requests : request'[x] = Idle BY <1>1
  <2>2. IsRequest(Idle) /\ Idle.at = "idle" BY DEF Idle, IsRequest
  <2> QED BY <2>1, <2>2 DEF RequestFits, UnderWay, Halved
<1>3. LocksFit' BY <1>1 DEF LocksFit
<1>4. EconomyShape'
  <2>1. locked' = [a \in Accounts |-> locked'[a]] /\ request' = [r \in Requests |-> request'[r]]
    BY <1>1
  <2> QED BY <1>1, <1>2, <1>3, <2>1 DEF EconomyShape
<1>5. Ahead' = filed /\ Behind' = filed /\ \A a : Pends(a)' = 0
  <2>1. \A a : ~InHands(a)' /\ ~InHalf(a)' /\ ~Granting(a)'
    BY <1>2 DEF InHands, InHalf, Granting
  <2>2. filed = [a \in Accounts |-> filed[a]] BY <1>1
  <2> QED BY <1>1, <2>1, <2>2 DEF Ahead, Behind, Pends
<1>6. ASSUME \A r \in Requests : ~Halved(r), Intact PROVE Intact'
  <2>1. Behind = filed
    <3>1. \A a : ~InHalf(a) BY <1>6 DEF InHalf
    <3>2. filed = [a \in Accounts |-> filed[a]] BY <1>1
    <3> QED BY <3>1, <3>2 DEF Behind
  <2>2. Sound(Ahead') /\ Sound(Behind') BY <1>5, <1>6, <2>1 DEF Intact
  <2>3. Links' BY <1>1, <1>2 DEF Links, PlayedAlike, LinkFits
  <2>4. Links /\ Rationed /\ Ahead \in [Accounts -> GoodsFiles]
    BY <1>6, FacesAre DEF Intact, FacesFit
  <2>5. ASSUME NEW a \in Accounts PROVE RationFits(a)
    <3>1. a \notin filed[a].sent
      <4>1. a \notin Ahead[a].sent BY <2>4 DEF Rationed
      <4>2. ASSUME NEW x \in Requests, UnderWay(x), a \in Parties(x), Ahead[a] = object[a] PROVE a \notin filed[a].sent
        BY <1>6, <2>4, <4>1, <4>2, HandsBehind
      <4>3. CASE Alike(filed[a], Ahead[a]) BY <4>1, <4>3 DEF Alike
      <4> QED BY <2>4, <4>2, <4>3, FiledBehind
    <3>2. ASSUME NEW b \in Accounts, \A x \in Requests : UnderWay(x) /\ b \in Parties(x) => ~(request[x].op = "gift" /\ request[x].me = b /\ request[x].you = a)
          PROVE  a \in filed[b].sent <=> a \in Ahead[b].sent
      <4>1. ASSUME NEW x \in Requests, UnderWay(x), b \in Parties(x), Ahead[b] = object[b] PROVE a \in filed[b].sent <=> a \in Ahead[b].sent
        BY <1>6, <2>4, <3>2, <4>1, HandsBehind
      <4>2. CASE Alike(filed[b], Ahead[b]) BY <4>2 DEF Alike
      <4> QED BY <2>4, <4>1, <4>2, FiledBehind
    <3>3. ASSUME NEW x \in Requests, UnderWay(x), request[x].op = "gift", request[x].you = a PROVE RationFits(a)
      <4>m. PICK me : me = request[x].me OBVIOUS
      <4>1. me \in Accounts /\ me # a /\ Parties(x) = {me, a} /\ locked[a] = x
        <5>1. RequestFits(x) /\ request[x].at # "idle" BY <3>3, ShapeIs DEF UnderWay
        <5>2. AskedWell(request[x]) /\ Parties(x) = {me, a}
          BY <3>3, <4>m, <5>1, PartiesAre DEF RequestFits
        <5> QED BY <3>3, <4>m, <5>1, <5>2 DEF RequestFits, AskedWell, TwoPartyOps
      <4>2. Ahead[me] = object[me] /\ Ahead[a] = object[a] /\ Pends(a) = 0
        <5>1. InHands(me) /\ InHands(a) /\ (Granting(a) <=> request[x].at = "grants")
          BY <3>3, <4>1, HandsAre DEF HandsFit
        <5>2. request[x].at # "grants" BY <3>3, ShapeIs DEF RequestFits
        <5> QED BY <4>1, <5>1, <5>2, FacesAre DEF FacesFit, Pends
      <4>3. a \notin filed[me].sent /\ a \in Ahead[me].sent /\ Gifts(filed[a]) <= Gifts(Ahead[a]) - 1
        BY <1>6, <2>4, <3>3, <4>m, <4>1, <4>2, HandsBehind
      <4>4. ASSUME NEW b \in Accounts \ {me} PROVE a \in filed[b].sent <=> a \in Ahead[b].sent
        <5>1. ASSUME NEW z \in Requests, UnderWay(z), request[z].op = "gift", request[z].you = a, request[z].me = b PROVE FALSE
          <6>1. RequestFits(z) /\ a \in Parties(z) BY <5>1, ShapeIs DEF Parties, TwoPartyOps
          <6>2. z = x BY <4>1, <5>1, <6>1 DEF RequestFits
          <6> QED BY <4>m, <5>1, <6>2
        <5> QED BY <3>2, <5>1
      <4>5. me \in SendersIn(Ahead, a) /\ SendersIn(Ahead', a) = SendersIn(Ahead, a) \ {me}
        BY <1>5, <4>1, <4>3, <4>4 DEF SendersIn
      <4>6. Gifts(Ahead'[a]) + Pends(a)' <= (Gifts(Ahead[a]) + Pends(a)) - 1
        <5>1. Gifts(filed[a]) \in Int /\ Gifts(Ahead[a]) \in Int BY <1>1, <2>4, ValueIs
        <5> QED BY <1>5, <4>2, <4>3, <5>1
      <4> QED BY <1>5, <3>1, <4>5, <4>6 DEF RationFits
    <3>4. ASSUME \A x \in Requests : ~(UnderWay(x) /\ request[x].op = "gift" /\ request[x].you = a) PROVE RationFits(a)
      <4>1. SendersIn(Ahead', a) = SendersIn(Ahead, a) BY <1>5, <3>2, <3>4 DEF SendersIn
      <4>2. Gifts(filed[a]) <= Gifts(Ahead[a]) + Pends(a) /\ Gifts(filed[a]) \in Int
        BY <1>1, <2>4, GiftsOnFile, ValueIs
      <4>3. Gifts(Ahead'[a]) + Pends(a)' <= Gifts(Ahead[a]) + Pends(a) BY <1>5, <4>2
      <4> QED BY <1>5, <3>1, <4>1, <4>3 DEF RationFits
    <3> QED BY <3>3, <3>4
  <2>6. Rationed'
    <3>1. Ahead' \in [Accounts -> GoodsFiles] BY <1>1, <1>5
    <3> QED BY <2>4, <2>5, <3>1, RationMoves
  <2> QED BY <2>2, <2>3, <2>6 DEF Intact
<1> QED BY <1>4, <1>6

-----------------------------------------------------------------------------
(* From the start, at every step.                                          *)

LEMMA EconomyBegins == EconomyInit => EconomyInv
<1> SUFFICES ASSUME EconomyInit PROVE EconomyShape /\ Intact BY DEF EconomyInv
<1> DEFINE First(a) == \A b \in Accounts : a <= b
           Start(a) == [gold |-> Purse, bag |-> IF First(a) THEN Weapons ELSE {}, up |-> {}, sold |-> 0, sales |-> 0, pile |-> 0, stock |-> 0, sent |-> {}]
<1>1. /\ filed = [a \in Accounts |-> Start(a)] /\ object = filed /\ played = {} /\ locked = [a \in Accounts |-> Nobody]
      /\ request = [r \in Requests |-> Idle]
  BY DEF EconomyInit
<1>2. /\ filed \in [Accounts -> GoodsFiles]
      /\ \A a \in Accounts : /\ filed[a].gold = Purse /\ filed[a].bag = (IF First(a) THEN Weapons ELSE {}) /\ filed[a].up = {} /\ filed[a].sold = 0
                             /\ filed[a].sales = 0 /\ filed[a].pile = 0 /\ filed[a].stock = 0 /\ filed[a].sent = {}
  <2>1. \A a \in Accounts : Start(a) \in GoodsFiles
    <3>1. Purse \in Int BY PricesAre
    <3>2. ASSUME NEW a \in Accounts, NEW bag \in SUBSET Weapons
          PROVE  [gold |-> Purse, bag |-> bag, up |-> {}, sold |-> 0, sales |-> 0, pile |-> 0, stock |-> 0, sent |-> {}] \in GoodsFiles
      BY <3>1 DEF GoodsFiles
    <3> HIDE DEF First
    <3> QED BY <3>2
  <2> HIDE DEF First
  <2> QED BY <1>1, <2>1
<1> HIDE DEF Start
<1>3. \A x \in Requests : RequestFits(x) /\ ~UnderWay(x) /\ ~Halved(x) /\ request[x].at # "grants"
  <2>1. \A x \in Requests : request[x] = Idle BY <1>1
  <2>2. IsRequest(Idle) /\ Idle.at = "idle" BY DEF Idle, IsRequest
  <2> QED BY <2>1, <2>2 DEF RequestFits, UnderWay, Halved
<1>4. EconomyShape
  <2>1. locked = [a \in Accounts |-> locked[a]] /\ request = [r \in Requests |-> request[r]] /\ LocksFit
    BY <1>1 DEF LocksFit
  <2> QED BY <1>1, <1>2, <1>3, <2>1 DEF EconomyShape
<1>5. Ahead = filed /\ Behind = filed /\ \A a : ~Granting(a)
  <2>1. \A a : ~InHands(a) /\ ~InHalf(a) /\ ~Granting(a) BY <1>3 DEF InHands, InHalf, Granting
  <2>2. filed = [a \in Accounts |-> filed[a]] BY <1>2
  <2> QED BY <1>1, <2>1, <2>2 DEF Ahead, Behind
<1>6. Links BY <1>1, <1>3 DEF Links, PlayedAlike, LinkFits
<1>7. Rationed
  <2>1. ASSUME NEW a \in Accounts PROVE Gifts(filed[a]) = 0 /\ Cardinality(SendersIn(filed, a)) \in Nat /\ a \notin filed[a].sent
    <3>1. SendersIn(filed, a) \in SUBSET Accounts BY DEF SendersIn
    <3> QED BY <1>2, <3>1, SizeOf DEF Gifts
  <2> QED BY <1>5, <2>1 DEF Rationed
<1>8. Sound(filed)
  <2>1. PICK a \in Accounts : First(a) BY LeastIs, EconomyAssumption
  <2>2. \A b \in Accounts : First(b) => b = a
    <3>1. \A b \in Accounts : b \in Nat BY EconomyAssumption
    <3> QED BY <2>1, <3>1
  <2>3. \A b \in Accounts, s \in BOOLEAN, w \in Weapons : Has(filed, b, s, w) <=> b = a /\ s
    <3> HIDE DEF First
    <3> QED BY <1>2, <2>1, <2>2 DEF Has
  <2>4. ASSUME NEW w \in Weapons PROVE Held(filed, Accounts, w) /\ AtMostOnce(filed, Accounts, w)
    BY <2>3 DEF Held, AtMostOnce
  <2>5. Worth(filed) = Purse * Cardinality(Accounts)
    <3>1. PICK v : v = [b \in Accounts |-> Value(filed[b])] OBVIOUS
    <3>2. \A b \in Accounts : v[b] = Purse
      <4>1. (Price - Tax) * 0 = 0 /\ Tax * 0 = 0 /\ Purse \in Nat BY PricesAre
      <4> QED BY <1>2, <3>1, <4>1 DEF Value
    <3>3. PICK g : AddsUp(g, v) /\ Worth(filed) = g[Accounts] BY <3>1, WorthIs
    <3> QED BY <3>2, <3>3, AllAlike, PricesAre
  <2> QED BY <2>4, <2>5 DEF Sound
<1> QED BY <1>4, <1>5, <1>6, <1>7, <1>8 DEF Intact

LEMMA EconomyQuiet == EconomyInv /\ UNCHANGED economyVars => EconomyInv'
<1> SUFFICES ASSUME EconomyInv, UNCHANGED economyVars PROVE EconomyInv' OBVIOUS
<1>1. filed' = filed /\ object' = object /\ played' = played /\ locked' = locked /\ request' = request /\ torn' = torn
  BY DEF economyVars
<1>2. EconomyShape /\ (~torn => Intact) BY DEF EconomyInv
<1>3. ASSUME NEW x \in Requests PROVE RequestFits(x)' /\ (LinkFits(x) => LinkFits(x)')
  <2>1. Untouched(x) BY <1>1 DEF Untouched
  <2> QED BY <1>2, <2>1, ShapeIs, Untroubled
<1>4. EconomyShape' BY <1>1, <1>2, <1>3, ShapeIs, LocksStay DEF EconomyShape
<1>5. Intact => Intact' BY <1>1, <1>3, HandsStay, NothingMoves
<1> QED BY <1>1, <1>2, <1>4, <1>5 DEF EconomyInv

LEMMA EconomyStays == EconomyInv /\ [EconomyNext]_economyVars => EconomyInv'
<1>s. SUFFICES ASSUME EconomyInv, EconomyNext PROVE EconomyInv' BY EconomyQuiet
<1>0. EconomyShape /\ (~torn => Intact) BY <1>s DEF EconomyInv
<1>1. ASSUME NEW r \in Requests, Asks(r) \/ RequestStep(r) PROVE EconomyInv'
  <2>1. torn' = torn
    BY <1>1 DEF RequestStep, Asks, Locks, Changes, Refused, GrantsGift, Stages, FirstLands, SecondLands
  <2>2. EconomyShape' /\ (Intact => Intact')
    BY <1>0, <1>1, AsksKeeps, LocksKeeps, ChangesKeeps, RefusedKeeps, GrantsGiftKeeps, StagesKeeps, FirstLandsKeeps, SecondLandsKeeps DEF RequestStep
  <2> QED BY <1>0, <2>1, <2>2 DEF EconomyInv
<1>2. ASSUME NEW r \in Requests, WriteFails(r) PROVE EconomyInv'
  <2>1. torn' = (torn \/ Halved(r)) BY <1>2 DEF WriteFails
  <2> QED BY <1>0, <1>2, <2>1, WriteFailsKeeps DEF EconomyInv
<1>3. ASSUME NEW a \in Accounts, EntersRun(a) \/ RunIsSaved(a) \/ ComesBack(a) PROVE EconomyInv'
  <2>1. torn' = torn BY <1>3 DEF EntersRun, RunIsSaved, ComesBack
  <2> QED BY <1>0, <1>3, <2>1, EntersRunKeeps, RunIsSavedKeeps DEF EconomyInv
<1>4. ASSUME Crashes PROVE EconomyInv'
  <2>1. torn' = (torn \/ \E r \in Requests : Halved(r)) BY <1>4 DEF Crashes
  <2> QED BY <1>0, <1>4, <2>1, CrashesKeeps DEF EconomyInv
<1> QED BY <1>s, <1>1, <1>2, <1>3, <1>4 DEF EconomyNext

\* At rest both faces are what is on file and what is at hand
LEMMA NothingIsLost == EconomyInv => OnlyTornPairsLose
<1> SUFFICES ASSUME EconomyInv, ~torn, ~Moving PROVE Whole(filed) /\ Whole(Current)
  BY DEF OnlyTornPairsLose
<1>1. EconomyShape /\ Intact BY DEF EconomyInv
<1>2. \A a : ~InHands(a) /\ ~InHalf(a) BY DEF Moving, InHands, InHalf, UnderWay, Halved
<1>3. Ahead = Current /\ Behind = filed
  <2>1. filed = [a \in Accounts |-> filed[a]] BY <1>1, ShapeIs
  <2> QED BY <1>2, <2>1 DEF Ahead, Behind, Current, Loaded
<1> QED BY <1>1, <1>3, SoundIsWhole DEF Intact

LEMMA RationsAreKept == EconomyInv => GiftsAreRationed
<1> SUFFICES ASSUME EconomyInv, ~torn, NEW a \in Accounts PROVE Gifts(filed[a]) < Cardinality(Accounts) /\ Gifts(Current[a]) < Cardinality(Accounts)
  BY DEF GiftsAreRationed, Gifts
<1>1. EconomyShape /\ Intact BY DEF EconomyInv
<1>2. Gifts(filed[a]) \in Int /\ Gifts(object[a]) \in Int /\ Gifts(Ahead[a]) \in Int
  BY <1>1, ShapeIs, FacesAre, ValueIs DEF FacesFit
<1>3. Gifts(Ahead[a]) + Pends(a) < Cardinality(Accounts) /\ Pends(a) \in {0, 1} /\ Cardinality(Accounts) \in Nat
  <2>1. a \notin Ahead[a].sent /\ Gifts(Ahead[a]) + Pends(a) <= Cardinality(SendersIn(Ahead, a)) /\ Pends(a) \in {0, 1}
    BY <1>1 DEF Intact, Rationed, Pends
  <2>2. Cardinality(SendersIn(Ahead, a)) < Cardinality(Accounts) /\ Cardinality(SendersIn(Ahead, a)) \in Nat /\ Cardinality(Accounts) \in Nat
    BY <2>1, SendersAreOthers, SizeOf
  <2> QED BY <1>2, <2>1, <2>2
<1>4. Gifts(filed[a]) <= Gifts(Ahead[a]) + Pends(a) BY <1>1, GiftsOnFile DEF Intact
<1>5. Current[a] = Ahead[a] \/ Current[a] = filed[a]
  BY <1>1, FacesAre DEF FacesFit, Current, Loaded
<1> QED BY <1>2, <1>3, <1>4, <1>5

LEMMA EconomyHolds == EconomySpec => []EconomyInv
BY EconomyBegins, EconomyStays, PTL DEF EconomySpec

\* Unless a fault cuts a write of two accounts in half, every weapon is in one bag or on one listing,
\* and all accounts together are worth what they were at the start, on file and at hand (trade.js hand,
\* market.js, gifts.js, accounts.js withTwoAccountLocks and saveAccounts): for any number of accounts,
\* weapons and calls at once, with any price and tax.
THEOREM ValueIsKept == EconomySpec => []OnlyTornPairsLose
BY NothingIsLost, EconomyHolds, PTL

\* However many calls send or accept at once, nobody is given more than one gift by each of the others,
\* and none is granted twice (gifts.js sendGift, takeGift; rpc-handlers.js).
THEOREM GiftsHold == EconomySpec => []GiftsAreRationed
BY RationsAreKept, EconomyHolds, PTL
=============================================================================
