SPECIFICATION AllSpec
CONSTANTS
  h1 = h1
  h2 = h2
  Heroes = {h1, h2}
  Boards <- AllBoards
  Threads = {t1, t2}
  Holders = {a1, a2}
  Weapons = {w}
  SaveIds = {k1}
  NoOne = NoOne
  MaxEvents = 3
  MaxVersion = 3
  Delvers = {p, q}
  MaxRuns = 1
  MaxDepth = 2
  MaxCommands = 1
  MaxEntries = 3
  Nodes = {1, 2, 3}
  Hard = {2, 3}
  Ultimate = {3}
  NoNode = 0
  MaxMoves = 3
  Racers = {p, q}
  NoRacer = NoRacer
  MaxRaces = 2
  MaxArrivals = 2
  MaxRefusals = 1
  Caster = h1
  Mate = h2
  Window = 1
  HitBudget = 1
  TargetBudget = 2
  LiveCasts = 2
  Wait = 2
  FullCharge = 1
  FullMana = 1
  FullBuster = 1
  FullHealth = 2
  MaxCasts = 3
  MaxHits = 2
  MaxNow = 3
  MaxFloors = 2
  MaxRounds = 1
  Stacks = {red, blue}
  NoStack = NoStack
  CarryLimit = 2
  Stock = 2
  MaxRequests = 3
  MaxPowerRuns = 1
  RunScope = run
  FloorScopes = {f1, f2}
  Handles = {a, b}
  NoScope = NoScope
  a1 = a1
  a2 = a2
  m1 = m1
  m2 = m2
  wolf = wolf
  imp = imp
  ghost = ghost
  bat = bat
  keg = keg
  statue = statue
  nozzle = nozzle
  mace = mace
  n1 = n1
  n2 = n2
  pot1 = pot1
  pot2 = pot2
  Ids = {1, 2}
  PlayerNames = {x, y, z}
  NoName = NoName
  MaxDeeds = 3
  MaxLives = 2
  MaxCrashes = 1
  Players = {pa, pb, pc}
  Racing = {pa, pb}
  Most = 1
  Grace = 0
  ShowFor = 0
  Rooms = {"hall"}
  MaxCopyFloors = 2
  MaxMoment = 1
  People = {a1, a2}
  Beginnings <- AllBeginnings
  Labels = {"x", "y"}
  NoLabel = NoLabel
  Requests = {c1, c2}
  Ladder <- Rungs
  DecayTime = 1
  ListTime = 1
  Strikes = 2
  TopLevel = 2
  MaxTime = 2
  MaxAsked = 2
  MaxVisits = 1
  MaxReads = 1
  Libraries <- Themes
  TileCount = 3
  WorldTiles = 4
  Attempts = 2
  MostPasses = 5
  GivenUp = GivenUp
  PartyMembers = {m1, m2, h1}
  Inhabitants = {n1, n2}
  None = None
  Marks <- Bosses
  Seeds = 4
  Quota = 2
  MaxTreasure = 1
  Pots = {pot1, pot2}
  Brood = 1
  Awaited = {n2}
  Scenes <- Plays
  Row <- TrapRows
  Muzzle <- Muzzles
  Ahead <- Aheads
  FrameReach <- Reaches
  Roll <- RollOf
  BodyKind <- KindOfBody
  Team <- TeamOf
  Place <- PlaceOfBody
  Spots = {0, 2, 4, 8}
  Rock = {1, 5}
  ShotRadius = 1
  Speed = 2
  ThrowRange = 3
  BurstReach = 2
  Elapsed = {1, 2}
  Health = 1
  NoTarget = NoTarget
  MaxShots = 2
  MaxThrows = 1
  MaxChanges = 1
  Looters = {m1, m2}
  Gifted = {m2}
  Npcs = {wolf, imp, ghost, bat}
  NpcKind <- KindOfNpc
  Weight <- Weights
  Points <- Weights
  Falls <- Fall
  Total = 5
  Thirst = 1
  Evenings <- AllEvenings
INVARIANT RulesTypeOK
INVARIANT AccountsAreInOrder
INVARIANT EntriesAreEarned
INVARIANT FloorsPlayFair
INVARIANT StandingsAreFair
INVARIANT HeroesGetTheirDue
CHECK_DEADLOCK FALSE
