----------------------------- MODULE RouteCaches -----------------------------
(***************************************************************************)
(* How an NPC finds its way (routing.js), and what is remembered of it:    *)
(* the index of what stands in the way (collider-index.js), what every     *)
(* cell and every step between two cells turned out to be for a body of a  *)
(* radius (pathfind.js, route-cache.js), the routes that were found        *)
(* (route-memo.js), and the one it follows.  Gates turn and crates come    *)
(* and break under all of them (navigation.js).                            *)
(*                                                                         *)
(* The floor is a corridor: a box of the code is an interval.              *)
(***************************************************************************)
EXTENDS Integers, FiniteSets, Sequences, SequencesExt

CONSTANTS GridCell, Columns,  \* cellSize, and how many of them there are
          Margin,         \* ANCHOR_MARGIN
          Bucket,         \* INDEX_CELL
          Girth,          \* what a collider reaches to either side
          Radii, Body,    \* of the bodies that ask, and of the NPC
          Walls,          \* static colliders
          Gates, Crates,  \* wired objects, and those that are set down and broken
          Shapes,         \* by object: where its colliders are while it is on, and while it is not
          Strides,        \* what it may walk in a turn
          Aims,           \* where its targets stand
          MaxFloorChanges, MaxTurns, MaxSearches \* bounds

Objects == Gates \cup Crates
ASSUME RouteCachesAssumption ==
  /\ GridCell \in Nat \ {0} /\ GridCell % 10 = 0 /\ Columns \in Nat \ {0} /\ Margin \in Nat /\ Bucket \in Nat \ {0}
  /\ Radii \subseteq Nat /\ Body \in Radii /\ Girth \in Nat \ {0} /\ Strides \subseteq Nat \ {0} /\ Gates \cap Crates = {}

Length == GridCell * Columns
Cells == 0..(Columns - 1)

VARIABLES
  record,    \* navigation.objects: the state of each, or that it is not there
  colliderIndex,     \* by bucket, the colliders in it
  revision,
  caches,    \* pathfinding.byRadius
  memo,      \* routeMemo: from where, to where, and by collider set what was found
  named,     \* setKeys: the collider set as it was named, and at which revision
  walker,       \* where it is, its routing and its escape
  worse,     \* whether a move of it went into what it was not in, or deeper
  floorChanges, turns, searches

routeVars == <<record, colliderIndex, revision, caches, memo, named, walker, worse, floorChanges, turns, searches>>
groundVars == <<record, colliderIndex, revision>>

-----------------------------------------------------------------------------
(* What is in the way.                                                     *)

\* activeCollidersOf
ActiveOf(o, state) == CASE state = "on" -> {<<o, "on", p>> : p \in Shapes[o].on}
                        [] state \in {"off", "broken"} -> {<<o, "off", p>> : p \in Shapes[o].off}
                        [] OTHER -> {}
Static == {<<"wall", "on", p>> : p \in Walls}
Colliders == Static \cup UNION {ActiveOf(o, record[o]) : o \in Objects}
From(c) == c[3] - Girth
To(c) == c[3] + Girth

Distance(p, c) == IF p > c[3] THEN p - c[3] ELSE c[3] - p
Collides(p, r, c) == Distance(p, c) < r + Girth
WithinFloor(p, r) == p - r >= 0 /\ p + r <= Length

\* The buckets an interval lies in
BucketsOf(from, to) == (from \div Bucket)..(to \div Bucket)
AllBuckets == BucketsOf(0 - Length, 2 * Length)
\* collidersNear, anyColliderAt: whatever is in the buckets around, and does overlap
Near(p, r) == {c \in UNION {colliderIndex[b] : b \in BucketsOf(p - r, p + r)} : ~(p + r < From(c) \/ p - r > To(c))}
\* blockedAt
Blocked(p, r) == ~WithinFloor(p, r) \/ \E c \in Near(p, r) : Collides(p, r, c)
\* Where a body of a radius has no room; where it has none that is to keep its margin; and what hides a place
Floor(r) == [body |-> {p \in 0..Length : Blocked(p, r)}, probe |-> {p \in 0..Length : Blocked(p, r + Margin)},
             sight |-> {p \in 0..Length : Blocked(p, 0)}]
\* lineIsClear: every place on the way but the first
OnTheWay(a, b) == IF a = b THEN {a} ELSE IF a < b THEN (a + 1)..b ELSE b..(a - 1)
Clear(a, b, blocked) == OnTheWay(a, b) \cap blocked = {}

-----------------------------------------------------------------------------
(* A floor that changes.                                                   *)

\* replaceIndexedColliders: out of every bucket it lies in, and into them
\* Mutant of Reindexed: it leaves the bucket its middle is in
OnlyMiddles(gone, come) ==
  [b \in AllBuckets |-> {c \in colliderIndex[b] : c \notin gone \/ c[3] \div Bucket # b} \cup {c \in come : b \in BucketsOf(From(c), To(c))}]
Reindexed(gone, come) ==
  [b \in AllBuckets |-> (colliderIndex[b] \ gone) \cup {c \in come : b \in BucketsOf(From(c), To(c))}]

\* invalidatePathfinding: what was remembered is to be forgotten around them, before it is asked again
Invalidated(changed) == [r \in DOMAIN caches |-> [caches[r] EXCEPT !.pending = @ \cup changed]]

\* changeObject
Becomes(o, state) ==
  LET gone == ActiveOf(o, record[o])  come == ActiveOf(o, state) IN
  /\ floorChanges < MaxFloorChanges /\ floorChanges' = floorChanges + 1
  /\ record' = [record EXCEPT ![o] = state]
  /\ colliderIndex' = Reindexed(gone, come) /\ revision' = revision + 1
  /\ caches' = Invalidated(gone \cup come)
  /\ UNCHANGED <<memo, named, walker, worse, turns, searches>>

\* setNavigationTriggerState
GateTurns(g) ==
  \/ record[g] = "on" /\ Becomes(g, "off")
  \/ record[g] = "off" /\ Becomes(g, "on")
\* addNavigationObstacle, by spawnNpc
CrateIsSetDown(c) == record[c] = "absent" /\ Becomes(c, "on")
\* retireNavigationObject, as what it belongs to dies: a corpse may lie there for good
ObjectGoes(o) ==
  \/ record[o] \notin {"absent", "gone", "broken"} /\ Becomes(o, "broken")
  \/ record[o] \notin {"absent", "gone", "broken"} /\ Becomes(o, "gone")

-----------------------------------------------------------------------------
(* What is remembered of cells.                                            *)

Unknown == 0 - 1
Shut == 0 - 2
Tenth == GridCell \div 10
\* ANCHOR_OFFSETS, the nearest to the middle first
Offsets == <<0, 0 - 2 * Tenth, 2 * Tenth, 0 - 4 * Tenth, 4 * Tenth>>
Steps == Cells \X {0 - 1, 1}
Lattice == Cells \X (1..Len(Offsets))
NoCache == [state |-> [c \in Cells |-> Unknown], links |-> [l \in Steps |-> "unknown"],
            lattice |-> [p \in Lattice |-> "unknown"], pending |-> {}]
\* anchorBetween: those between them
Between == SelectSeq(FlattenSeq([i \in 1..Len(Offsets) |-> <<Offsets[i] - Tenth, Offsets[i] + Tenth>>]),
                     LAMBDA d : d \in (0 - 4 * Tenth)..(4 * Tenth))
Middle(c) == c * GridCell + GridCell \div 2
CellOf(p) == IF p < 0 THEN 0 ELSE IF p >= Length THEN Columns - 1 ELSE p \div GridCell
PlacesOf(c) == [i \in 1..(Len(Offsets) + Len(Between)) |->
                  Middle(c) + (IF i <= Len(Offsets) THEN Offsets[i] ELSE Between[i - Len(Offsets)])]
\* cellStateOf: the first place in it where the body has room, if there is one
FreshState(c, w) ==
  LET places == PlacesOf(c)
      free == {i \in 1..Len(places) : places[i] \notin w.probe}
  IN IF free = {} THEN Shut ELSE places[CHOOSE i \in free : \A k \in free : i <= k]
\* walkBetween, walkFrom
FreshLink(from, to, w) == IF Clear(from, to, w.body) THEN "direct" ELSE "none"
\* latticeBlockedAt
Place(p) == Middle(p[1]) + Offsets[p[2]]
FreshPlace(p, w) == IF Place(p) \in w.probe THEN "blocked" ELSE "clear"

\* forgetAround
AnchorReach(r) == 4 * Tenth + r + Margin
\* Mutant of CellsAround: only the cells it lies in
CellsIn(c, margin) == {x \in Cells : From(c) \div GridCell <= x /\ x <= To(c) \div GridCell}
CellsAround(c, margin) ==
  {x \in Cells : Middle(x) + 2 * GridCell > From(c) - margin /\ Middle(x) - 2 * GridCell < To(c) + margin}
\* routeCacheFor: what is pending is forgotten first
CacheFor(r) ==
  IF r \notin DOMAIN caches THEN NoCache
  ELSE LET k == caches[r]
           around(margin) == UNION {CellsAround(c, margin) : c \in k.pending}
       IN [state |-> [x \in Cells |-> IF x \in around(AnchorReach(r)) THEN Unknown ELSE k.state[x]],
           lattice |-> [p \in Lattice |-> IF p[1] \in around(AnchorReach(r)) THEN "unknown" ELSE k.lattice[p]],
           links |-> [l \in Steps |-> IF l[1] \in around(AnchorReach(r) + GridCell) THEN "unknown" ELSE k.links[l]],
           pending |-> {}]
\* A cache with whatever it does not know looked up
Asked(k, w) ==
  LET state == [c \in Cells |-> IF k.state[c] # Unknown THEN k.state[c] ELSE FreshState(c, w)]
      open(l) == l[1] + l[2] \in Cells /\ state[l[1]] # Shut /\ state[l[1] + l[2]] # Shut
  IN [state |-> state,
      links |-> [l \in Steps |-> IF k.links[l] # "unknown" THEN k.links[l]
                                 ELSE IF open(l) THEN FreshLink(state[l[1]], state[l[1] + l[2]], w) ELSE "unknown"],
      lattice |-> [p \in Lattice |-> IF k.lattice[p] # "unknown" THEN k.lattice[p] ELSE FreshPlace(p, w)],
      pending |-> {}]

-----------------------------------------------------------------------------
(* A search: findPath.                                                     *)

\* START: the cells around it whose anchor can be walked to
Entered(k, start, w) == {c \in Cells : /\ c \in (CellOf(start) - 1)..(CellOf(start) + 1)
                                       /\ k.state[c] # Shut /\ Clear(start, k.state[c], w.body)}
Joined(k, a, d) == a + d \in Cells /\ k.state[a + d] # Shut /\ k.links[<<a, d>>] = "direct"
\* Cells it closes; one that leads there may leave the rest of them unread, for another to read
Reached(k, start, w) ==
  LET entered == Entered(k, start, w) IN
  {c \in Cells : \E e \in entered : \/ e <= c /\ \A a \in e..(c - 1) : Joined(k, a, 1)
                                    \/ e >= c /\ \A a \in (c + 1)..e : Joined(k, a, 0 - 1)}

\* Whether its last leg is to the goal: by the goal's own cell, or by one beside it
GetsThere(k, reached, goal, w) ==
  LET own == k.state[CellOf(goal)] IN
  /\ goal \notin w.body
  /\ IF own # Shut /\ Clear(own, goal, w.body) THEN CellOf(goal) \in reached
     ELSE \E c \in reached \ {CellOf(goal)} :
            c \in (CellOf(goal) - 1)..(CellOf(goal) + 1) /\ Clear(k.state[c], goal, w.body)
\* placeReached: the places reached from where the goal can be seen; the nearest of them is taken
Landings(k, reached, goal, w) ==
  {Place(p) : p \in {q \in Lattice : /\ q[1] \in reached /\ k.lattice[q] = "clear"
                                    /\ Clear(Place(q), goal, w.sight) /\ Clear(k.state[q[1]], Place(q), w.body)}}
Apart(p, q) == IF p > q THEN p - q ELSE q - p
Route(kind, end) == [kind |-> kind, end |-> end]
Search(cache, start, goal, w) ==
  LET k == Asked(cache, w)
      reached == Reached(k, start, w) IN
  IF Clear(start, goal, w.body) \/ GetsThere(k, reached, goal, w) THEN Route("there", goal)
  ELSE LET ends == Landings(k, reached, goal, w) IN
       IF ends = {} THEN Route("none", 0)
       ELSE Route("short", CHOOSE p \in ends : \A q \in ends : Apart(p, goal) < Apart(q, goal)
                                                              \/ (Apart(p, goal) = Apart(q, goal) /\ p <= q))
\* and what it leaves known
Read(cache, start, goal, w) ==
  LET k == Asked(cache, w)
      reached == Reached(k, start, w)
      looked == {c \in Cells : \E e \in reached \cup {CellOf(start)} : c \in (e - 1)..(e + 1)} \cup {CellOf(goal)}
      short == ~GetsThere(k, reached, goal, w)
  IN [state |-> [c \in Cells |-> IF c \in looked THEN k.state[c] ELSE cache.state[c]],
      links |-> [l \in Steps |-> IF l[1] \in reached THEN k.links[l] ELSE cache.links[l]],
      lattice |-> [p \in Lattice |-> IF p[1] \in reached /\ short THEN k.lattice[p] ELSE cache.lattice[p]],
      pending |-> {}]
CachesAfter(start, goal, r, w) ==
  IF Clear(start, goal, w.body) THEN caches
  ELSE [x \in DOMAIN caches \cup {r} |-> IF x = r THEN Read(CacheFor(r), start, goal, w) ELSE caches[x]]

\* Another body looks for its way, from where it stands clear
SomebodyElseSearches(start, goal, r) ==
  /\ searches < MaxSearches /\ searches' = searches + 1
  /\ LET w == Floor(r) IN
     /\ start \notin w.body /\ ~Clear(start, goal, w.body) /\ caches' = CachesAfter(start, goal, r, w)
  /\ UNCHANGED <<groundVars, memo, named, walker, worse, floorChanges, turns>>

-----------------------------------------------------------------------------
(* Routes that are remembered.                                             *)

\* nameColliderSet: a gate is named by whether it is on, a crate by its state and its colliders
Letter(state) == IF state \in {"on", "off"} THEN "o" ELSE "b"
Named == [o \in {x \in Objects : record[x] \notin {"absent", "gone"}} |->
            IF o \in Gates THEN IF record[o] = "on" THEN "1" ELSE "0"
            ELSE Letter(record[o])]
\* Mutant of SetKey: a name is never made again
SetKeyOnce == IF named # {} THEN CHOOSE n \in named : TRUE ELSE [revision |-> revision, key |-> Named]
\* colliderSetKey: named once at each revision
SetKey == IF \E n \in named : n.revision = revision THEN CHOOSE n \in named : TRUE
          ELSE [revision |-> revision, key |-> Named]

\* searchRoute: kept for one pair of places, by the collider set
NoMemo == [from |-> Unknown, to |-> Unknown, routes |-> <<>>]
MemoFor(from, to) == IF memo.from = from /\ memo.to = to THEN memo ELSE [from |-> from, to |-> to, routes |-> <<>>]
Remembered(m, key) == {i \in 1..Len(m.routes) : m.routes[i].key = key}
SearchRoute(from, to, w) ==
  LET m == MemoFor(from, to)
      known == Remembered(m, SetKey.key)
  IN IF known # {} THEN m.routes[CHOOSE i \in known : TRUE].route ELSE Search(CacheFor(Body), from, to, w)
SearchLeaves(from, to, w) ==
  LET m == MemoFor(from, to) IN
  /\ named' = {SetKey}
  /\ IF Remembered(m, SetKey.key) # {} THEN memo' = m /\ UNCHANGED caches
     ELSE /\ caches' = CachesAfter(from, to, Body, w)
          /\ memo' = [m EXCEPT !.routes = Append(@, [key |-> SetKey.key, route |-> SearchRoute(from, to, w)])]

-----------------------------------------------------------------------------
(* The NPC.                                                                *)

NoRouting == [has |-> FALSE, from |-> Unknown, to |-> Unknown, route |-> Route("none", 0), revision |-> 0]
CountsTurn == turns < MaxTurns /\ turns' = turns + 1

\* moveWithNavigation, in steps of one: what stands in something may only go out of it
Depth(p, c) == Body + Girth - Distance(p, c)
Buried(p) == IF WithinFloor(p, Body) THEN {c \in Colliders : Depth(p, c) > 0} ELSE {}
\* Mutant of CanStand: out of any of them will do
OutOfOne(at, to) == \E c \in Buried(at) : Depth(to, c) < Depth(at, c)
CanStand(at, to) ==
  /\ Buried(at) # {} /\ WithinFloor(to, Body)
  /\ \A c \in Colliders : Depth(to, c) > 0 => c \in Buried(at) /\ Depth(to, c) <= Depth(at, c)
  /\ \E c \in Buried(at) : Depth(to, c) < Depth(at, c)
Walk(at, place, length) ==
  LET step(from) ==
        LET to == IF place > from THEN from + 1 ELSE IF place < from THEN from - 1 ELSE from
        IN IF ~Blocked(to, Body) \/ CanStand(from, to) THEN to ELSE from
      walk[i \in 0..length] == IF i = 0 THEN at ELSE step(walk[i - 1])
  IN walk
GoesTowards(place, n) ==
  \E length \in Strides :
    LET walk == Walk(n.at, place, length) IN
    /\ walker' = [n EXCEPT !.at = walk[length]]
    /\ worse' = (worse \/ \E i \in 1..length, c \in Colliders :
                            Depth(walk[i], c) > 0 /\ Depth(walk[i], c) > Depth(walk[i - 1], c))

\* wayOut: a clear spot it can set out for, the nearest first; kept until it is none
Escapes == {p \in 0..Length : ~Blocked(p, Body) /\ Walk(walker.at, p, 1)[1] # walker.at}
WayOut ==
  IF walker.escape \in Escapes THEN {walker.escape}
  ELSE {p \in Escapes : \A q \in Escapes : Apart(walker.at, p) <= Apart(walker.at, q)}
Escaping ==
  /\ Blocked(walker.at, Body) /\ CountsTurn
  /\ IF WayOut = {} THEN walker' = [walker EXCEPT !.escape = Unknown] /\ UNCHANGED worse
     ELSE \E p \in WayOut : GoesTowards(p, [walker EXCEPT !.escape = p])
  /\ UNCHANGED <<groundVars, caches, memo, named, floorChanges, searches>>
\* routeToTarget, when nothing is in the way
GoesStraight(aim) ==
  /\ ~Blocked(walker.at, Body) /\ Clear(walker.at, aim, Floor(Body).body) /\ CountsTurn
  /\ GoesTowards(aim, [walker EXCEPT !.escape = Unknown, !.routing = NoRouting])
  /\ UNCHANGED <<groundVars, caches, memo, named, floorChanges, searches>>
\* currentRouting: it is asked for again as the floor has changed or the target has moved a cell, and now and then
Due(aim) ==
  \/ ~walker.routing.has \/ walker.routing.revision # revision \/ Apart(walker.routing.to, aim) >= GridCell
Followed(r, aim) == IF r.route.kind = "none" THEN aim ELSE r.route.end
GoesRound(aim, again) ==
  LET w == Floor(Body) IN
  /\ walker.at \notin w.body /\ ~Clear(walker.at, aim, w.body) /\ CountsTurn
  /\ IF Due(aim) \/ again
     THEN LET r == [has |-> TRUE, from |-> walker.at, to |-> aim, route |-> SearchRoute(walker.at, aim, w), revision |-> revision]
          IN SearchLeaves(walker.at, aim, w) /\ GoesTowards(Followed(r, aim), [walker EXCEPT !.escape = Unknown, !.routing = r])
     ELSE /\ GoesTowards(Followed(walker.routing, aim), [walker EXCEPT !.escape = Unknown])
          /\ UNCHANGED <<caches, memo, named>>
  /\ UNCHANGED <<groundVars, floorChanges, searches>>

RouteInit ==
  /\ record = [o \in Objects |-> IF o \in Gates THEN "on" ELSE "absent"]
  /\ colliderIndex = [b \in AllBuckets |-> {c \in Static \cup UNION {ActiveOf(o, "on") : o \in Gates} : b \in BucketsOf(From(c), To(c))}]
  /\ revision = 0 /\ caches = <<>> /\ memo = NoMemo /\ named = {}
  /\ walker = [at |-> CHOOSE a \in Aims : \A b \in Aims : a <= b, routing |-> NoRouting, escape |-> Unknown]
  /\ worse = FALSE /\ floorChanges = 0 /\ turns = 0 /\ searches = 0
RouteNext ==
  \/ \E g \in Gates : GateTurns(g)
  \/ \E c \in Crates : CrateIsSetDown(c)
  \/ \E o \in Objects : ObjectGoes(o)
  \/ \E start, goal \in Aims, r \in Radii : SomebodyElseSearches(start, goal, r)
  \/ Escaping
  \/ \E aim \in Aims : GoesStraight(aim) \/ \E again \in BOOLEAN : GoesRound(aim, again)
RouteSpec == RouteInit /\ [][RouteNext]_routeVars

-----------------------------------------------------------------------------

RouteTypeOK ==
  /\ record \in [Objects -> {"absent", "on", "off", "broken", "gone"}]
  /\ colliderIndex \in [AllBuckets -> SUBSET (Static \cup UNION {ActiveOf(o, s) : o \in Objects, s \in {"on", "off"}})]
  /\ revision \in 0..MaxFloorChanges /\ DOMAIN caches \subseteq Radii
  /\ \A r \in DOMAIN caches : /\ caches[r].state \in [Cells -> {Unknown, Shut} \cup 0..Length]
                              /\ caches[r].links \in [Steps -> {"unknown", "none", "direct"}]
                              /\ caches[r].lattice \in [Lattice -> {"unknown", "blocked", "clear"}]
  /\ walker.at \in 0..Length /\ walker.escape \in {Unknown} \cup 0..Length /\ worse \in BOOLEAN

\* The index is the floor: what is found by its buckets around any place is what is there, and a collider
\* that was taken away is in none of them (collider-index.js).
IndexIsTheFloor ==
  /\ \A p \in 0..Length, r \in Radii : {c \in Near(p, r) : Collides(p, r, c)} = {c \in Colliders : Collides(p, r, c)}
  /\ UNION {colliderIndex[b] : b \in AllBuckets} = Colliders

\* "A cell knows what the floor was": whatever a cache still knows once what is pending is forgotten is
\* what a look at the floor would say, so that no crate that broke still shuts a cell and no gate that
\* closed is still walked through (route-cache.js forgetAround).
CachesTellTheTruth ==
  \A r \in DOMAIN caches :
    LET k == CacheFor(r)
        true == Asked(NoCache, Floor(r)) IN
    /\ \A c \in Cells : k.state[c] \in {Unknown, true.state[c]}
    /\ \A l \in Steps : k.links[l] \in {"unknown", true.links[l]}
    /\ \A p \in Lattice : k.lattice[p] \in {"unknown", true.lattice[p]}

\* A route that would be taken from the memo, or followed without another search, is the one a search
\* on the floor as it is would find (route-memo.js, routing.js currentRouting).
RoutesAreOfThisFloor ==
  /\ \A i \in Remembered(memo, SetKey.key) : memo.routes[i].route = Search(NoCache, memo.from, memo.to, Floor(Body))
  /\ walker.routing.has /\ walker.routing.revision = revision
       => walker.routing.route = Search(NoCache, walker.routing.from, walker.routing.to, Floor(Body))

\* However the floor changes around it, an NPC walks into nothing, and out of what it stands in only
\* outwards (movement.js moveWithNavigation).
NothingIsWalkedInto == ~worse
=============================================================================
