---------------------------- MODULE FloorLayouts ----------------------------
(***************************************************************************)
(* How a floor is laid out of the tiles of a library (socket/tilegen.js)   *)
(* and read (floors.js, secrets.js): it grows from a start, its openings   *)
(* are closed, an exit is put in, and the best of some attempts is kept.   *)
(* Which tile is drawn is the random generator's, here any that fits.      *)
(*                                                                         *)
(* A secret room stands behind the north doorway of a tile with a wall in  *)
(* it, and is withheld from the floor until the wall is broken.            *)
(***************************************************************************)
EXTENDS Integers, FiniteSets, FiniteSetsExt

CONSTANTS Libraries,   \* what a theme offers at a tier: sets of tiles
          TileCount,   \* NumTiles of the tier
          WorldTiles,  \* how far the world of a client reaches
          MostPasses,      \* how many openings are closed at most
          Attempts,    \* how often a floor is laid out before the least bad one is taken
          GivenUp        \* a place that was given up

\* The four sides: north, east, south, west
Sides == 1..4
Opposite(d) == ((d + 1) % 4) + 1
Roles == {"start", "body", "secret", "exit"}

ASSUME LayoutAssumption ==
  /\ {TileCount, WorldTiles, MostPasses, Attempts} \subseteq Nat \ {0}
  /\ \A library \in Libraries : \A t \in library :
       t.role \in Roles /\ t.exits \in [Sides -> Nat] /\ {t.walled, t.shuts} \subseteq BOOLEAN
  \* A secret room has one opening, to the south
  /\ \A library \in Libraries : \A t \in library : t.role = "secret" => t.exits[1] = 0 /\ t.exits[2] = 0 /\ t.exits[4] = 0

VARIABLES library, building,
          placed,     \* what stands where
          sealed,     \* nothing was given up that had to be closed
          passes,
          attempt, best,   \* generateFloor: how many were laid out, and the one to keep
          good,       \* sizes of the layouts that would do
          broken      \* secret rooms that were revealed

layoutVars == <<library, building, placed, sealed, passes, attempt, best, good, broken>>

Origin == <<0, 0>>
Step(p, d) == CASE d = 1 -> <<p[1], p[2] - 1>> [] d = 2 -> <<p[1] + 1, p[2]>> [] d = 3 -> <<p[1], p[2] + 1>> [] d = 4 -> <<p[1] - 1, p[2]>>
Afar(p) == (IF p[1] < 0 THEN -p[1] ELSE p[1]) + (IF p[2] < 0 THEN -p[2] ELSE p[2])
PartOf(role) == {t \in library : t.role = role}
NoTile == [role |-> "none", exits |-> [d \in Sides |-> 0], walled |-> FALSE, shuts |-> FALSE]
Put(pl, p, t) == [q \in DOMAIN pl \cup {p} |-> IF q = p THEN t ELSE pl[q]]
Less(pl, p) == [q \in DOMAIN pl \ {p} |-> pl[q]]
\* Where nothing stands, and where a place was given up
TileAt(pl, p) == IF p \in DOMAIN pl /\ pl[p] # GivenUp THEN pl[p] ELSE NoTile
NoLayout == [tiles |-> << >>, sealed |-> FALSE, inside |-> FALSE, exit |-> FALSE]

LayoutInit ==
  /\ library \in Libraries /\ building = "grow" /\ placed \in {Put(<< >>, Origin, t) : t \in PartOf("start")}
  /\ sealed = TRUE /\ passes = 0 /\ attempt = 1 /\ best = NoLayout /\ good = {} /\ broken = {}

-----------------------------------------------------------------------------
(* What fits where.                                                        *)

\* exitsOf is compared with every neighbour there is, and a place that was given up has none
SeamFits(t, p, pl) == \A d \in Sides : Step(p, d) \in DOMAIN pl => t.exits[d] = TileAt(pl, Step(p, d)).exits[Opposite(d)]
Around(p) == {<<p[1] + x, p[2] + y>> : x \in -1..1, y \in -1..1} \ {p}
TouchesAnotherRoom(p, pl) == \E q \in Around(p) : TileAt(pl, q).role = "secret"
RoomCanGoAbove(t, p, pl) ==
  LET above == Step(p, 1) IN
  IF above \in DOMAIN pl THEN TileAt(pl, above).role = "secret"
  ELSE \E room \in PartOf("secret") : room.exits[3] = t.exits[1] /\ SeamFits(room, above, pl) /\ ~TouchesAnotherRoom(above, pl)
\* shutsTheRoomAbove
Walled(t) == t.walled /\ t.exits[1] > 0
\* Mutant of Fits: a room may stand behind any doorway
FitsAnywhere(t, p, pl) == SeamFits(t, p, pl) /\ (t.role = "secret" => ~TouchesAnotherRoom(p, pl))
Fits(t, p, pl) ==
  LET wallBelow == Walled(TileAt(pl, Step(p, 3))) IN
  /\ SeamFits(t, p, pl)
  /\ wallBelow => t.role = "secret"
  /\ Walled(t) => RoomCanGoAbove(t, p, pl)
  /\ t.role = "secret" => ~TouchesAnotherRoom(p, pl) /\ (t.shuts \/ wallBelow)
OpenSides(pl, p) == {Step(p, d) : d \in {e \in Sides : TileAt(pl, p).exits[e] > 0 /\ Step(p, e) \notin DOMAIN pl}}
Openings(pl) == UNION {OpenSides(pl, p) : p \in DOMAIN pl}
UsableTiles(role, p, pl) == {t \in PartOf(role) : Fits(t, p, pl)}
Body(p, pl) == UsableTiles("body", p, pl) \cup UsableTiles("secret", p, pl)

-----------------------------------------------------------------------------
(* growFloor.                                                              *)

GrowTo == LET most == (6 * TileCount + 5) \div 10 IN IF most < 3 THEN 3 ELSE most
Lays == UNCHANGED <<library, attempt, best, good, broken>>
Grows ==
  /\ building = "grow" /\ Cardinality(DOMAIN placed) < GrowTo
  /\ \E p \in Openings(placed) :
       \/ \E t \in Body(p, placed) : placed' = Put(placed, p, t) /\ UNCHANGED sealed
       \* Nothing fits: a wall for the player, unless a secret wall stands in it
       \/ /\ Body(p, placed) = {} /\ placed' = Put(placed, p, GivenUp)
          /\ sealed' = (sealed /\ ~Walled(TileAt(placed, Step(p, 3))))
  /\ UNCHANGED <<building, passes>> /\ Lays
IsGrown ==
  /\ building = "grow" /\ (Cardinality(DOMAIN placed) >= GrowTo \/ Openings(placed) = {}) /\ building' = "close"
  /\ UNCHANGED <<placed, sealed, passes>> /\ Lays
NewOpenings(t, p, pl) == Cardinality({d \in Sides : t.exits[d] > 0 /\ Step(p, d) \notin DOMAIN pl})
\* An opening is closed by what brings the fewest new ones; which is closed first, the order of the tiles says
ClosesSeam ==
  /\ building = "close" /\ passes < MostPasses /\ passes' = passes + 1
  /\ \E p \in Openings(placed) :
       \/ \E t \in Body(p, placed) :
            /\ \A o \in Body(p, placed) : NewOpenings(t, p, placed) <= NewOpenings(o, p, placed)
            /\ placed' = Put(placed, p, t) /\ UNCHANGED <<sealed, building>>
       \/ Body(p, placed) = {} /\ sealed' = FALSE /\ building' = "exit" /\ UNCHANGED placed
  /\ Lays
IsClosed ==
  /\ building = "close" /\ (Openings(placed) = {} \/ passes = MostPasses) /\ building' = "exit"
  /\ UNCHANGED <<placed, sealed, passes>> /\ Lays

\* Mutant of Exits: an exit is not asked whether it fits
AnyExits(p) == PartOf("exit")
Exits(p) == UsableTiles("exit", p, Less(placed, p))
\* At the opening that is farthest and can take one, or instead of the farthest room that can
ExitSeams == {p \in Openings(placed) : Exits(p) # {}}
ExitRooms == {p \in DOMAIN placed \ {Origin} : placed[p] # GivenUp /\ Exits(p) # {}}
ExitPlaces ==
  LET ps == IF ExitSeams # {} THEN ExitSeams ELSE ExitRooms IN {p \in ps : \A q \in ps : Afar(q) <= Afar(p)}
GetsExit ==
  /\ building = "exit" /\ \E p \in ExitPlaces : \E t \in Exits(p) : placed' = Put(placed, p, t)
  /\ building' = "laid" /\ UNCHANGED <<sealed, passes>> /\ Lays
HasNoExit == building = "exit" /\ ExitPlaces = {} /\ building' = "laid" /\ UNCHANGED <<placed, sealed, passes>> /\ Lays

\* The layout, without what was given up; Floor.buildWalls is a world of so many tiles
Reach(ps, i) == Max({p[i] : p \in ps}) - Min({p[i] : p \in ps})
Layout ==
  LET rooms == {p \in DOMAIN placed : placed[p] # GivenUp} IN
  [tiles |-> [p \in rooms |-> placed[p]], sealed |-> sealed, exit |-> \E p \in rooms : placed[p].role = "exit",
   inside |-> Reach(rooms, 1) < WorldTiles /\ Reach(rooms, 2) < WorldTiles]

-----------------------------------------------------------------------------
(* generateFloor: another one, until one will do.                          *)

WillDo(l) == l.sealed /\ l.inside /\ l.exit
Miss(l) == LET n == Cardinality(DOMAIN l.tiles) IN IF n < TileCount THEN TileCount - n ELSE n - TileCount
\* Mutant of Better: the last one that would do
LastOne(l, than) == WillDo(l) \/ than = NoLayout
\* What would do and is nearer the size that was asked for; or the first, if none would
Better(l, than) == than = NoLayout \/ (WillDo(l) /\ (~WillDo(than) \/ Miss(l) < Miss(than)))
Judged ==
  /\ building = "laid" /\ best' = IF Better(Layout, best) THEN Layout ELSE best
  /\ good' = IF WillDo(Layout) THEN good \cup {Miss(Layout)} ELSE good
  /\ IF attempt = Attempts \/ (WillDo(Layout) /\ Miss(Layout) <= 1)
     THEN building' = "kept" /\ placed' = << >> /\ UNCHANGED <<attempt, sealed>>
     ELSE /\ building' = "grow" /\ attempt' = attempt + 1 /\ sealed' = TRUE
          /\ \E t \in PartOf("start") : placed' = Put(<< >>, Origin, t)
  /\ passes' = 0 /\ UNCHANGED <<library, broken>>

-----------------------------------------------------------------------------
(* The floor: what stands behind a wall is withheld.                       *)

\* Mutant of SealedRooms: every secret room is withheld, what shuts itself too
EveryRoom(tiles) == {p \in DOMAIN tiles : tiles[p].role = "secret"}
SealedRooms(tiles) == {p \in DOMAIN tiles : tiles[p].role = "secret" /\ TileAt(tiles, Step(p, 3)).walled}
VisibleTiles == DOMAIN best.tiles \ (SealedRooms(best.tiles) \ broken)
\* revealSecretRoom: the wall in a tile that is seen is broken
RoomIsRevealed ==
  /\ building = "kept"
  /\ \E p \in VisibleTiles : Walled(best.tiles[p]) /\ Step(p, 1) \in SealedRooms(best.tiles) \ broken /\ broken' = broken \cup {Step(p, 1)}
  /\ UNCHANGED <<library, building, placed, sealed, passes, attempt, best, good>>

LayoutNext == Grows \/ IsGrown \/ ClosesSeam \/ IsClosed \/ GetsExit \/ HasNoExit \/ Judged \/ RoomIsRevealed
LayoutSpec == LayoutInit /\ [][LayoutNext]_layoutVars

-----------------------------------------------------------------------------

LayoutTypeOK ==
  /\ library \in Libraries /\ building \in {"grow", "close", "exit", "laid", "kept"} /\ attempt \in 1..Attempts /\ sealed \in BOOLEAN /\ passes \in 0..MostPasses
  /\ \A p \in DOMAIN placed : placed[p] \in library \cup {GivenUp}
  /\ good \subseteq Nat /\ broken \subseteq DOMAIN best.tiles

Agree(tiles) == \A p \in DOMAIN tiles : SeamFits(tiles[p], p, tiles)
\* Where one can walk to from a set of tiles, within some: as often as there are tiles
Walked(tiles, within) ==
  LET Next(ps) == ps \cup {q \in within : \E p \in ps, d \in Sides : q = Step(p, d) /\ tiles[p].exits[d] > 0}
      from[n \in Nat] == IF n = 0 THEN {Origin} \cap within ELSE Next(from[n - 1])
  IN from[Cardinality(within)]

\* Whatever is kept, its seams agree, and a hero walks to everything on it: to what is not a secret room,
\* the exit, without going through one (tilegen.js isConnected; tests tilegen, secret-room).
FloorsAreWhole ==
  building = "kept" =>
    /\ Agree(best.tiles)
    /\ Walked(best.tiles, DOMAIN best.tiles) = DOMAIN best.tiles
    /\ \A p \in DOMAIN best.tiles : best.tiles[p].role # "secret" => p \in Walked(best.tiles, {q \in DOMAIN best.tiles : best.tiles[q].role # "secret"})

\* In a layout that would do, a wall in a doorway has a secret room behind it, and there is one at most
\* around any place (tilegen.js, unless its passes did not suffice; test "a secret wall always has a treasure room behind it").
WallsHideRooms ==
  building = "laid" =>
    LET l == Layout IN
    /\ l.sealed /\ passes < MostPasses => \A p \in DOMAIN l.tiles : Walled(l.tiles[p]) => TileAt(l.tiles, Step(p, 1)).role = "secret"
    /\ \A p \in DOMAIN l.tiles : l.tiles[p].role = "secret" => ~TouchesAnotherRoom(p, l.tiles)

\* What is kept would do if any of the attempts would have, and is as near the size asked for as any.
BestIsKept == building = "kept" /\ good # {} => WillDo(best) /\ \A miss \in good : Miss(best) <= miss

\* What is seen at first is walked to without breaking a wall, and what is withheld stands behind a wall
\* that is seen (secrets.js sealedRooms, floors.js visibleTiles).
SeenIsReached ==
  building = "kept" /\ broken = {} =>
    /\ VisibleTiles \subseteq Walked(best.tiles, VisibleTiles)
    /\ \A p \in DOMAIN best.tiles \ VisibleTiles : Step(p, 3) \in VisibleTiles /\ Walled(best.tiles[Step(p, 3)])

\* Does not hold: a secret room that shuts nothing of itself has a wall before it (test tilegen, "a secret
\* room nothing shuts").  An exit put in the place of the room with the wall opens it.
RoomsAreShut ==
  building = "laid" => \A p \in DOMAIN placed : TileAt(placed, p).role = "secret" => placed[p].shuts \/ Walled(TileAt(placed, Step(p, 3)))

\* Does not hold: in a sealed layout every doorway leads somewhere.  What growing gave up is left open, an
\* exit may bring doorways of its own, and closing ends after so many passes (tilegen.js 339).
SealedIsClosed == building = "laid" /\ sealed => \A p \in DOMAIN Layout.tiles : OpenSides(Layout.tiles, p) = {}
=============================================================================
