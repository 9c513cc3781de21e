SPECIFICATION AllSpec
CONSTANTS
  r1 = r1
  r2 = r2
  w1 = w1
  Requests = {r1, r2}
  Weapons = {w1}
  Accounts = {1, 2}
  Nobody = Nobody
  Price = 2
  Tax = 1
  Purse = 2
  StorageSlots = 1
  MaxFaults = 1
  MaxAsks = 3
  MaxStays = 1
  Slots = {0, 1}
  FirstDoid = 1
  LocalFirst = 5
  LocalLast = 6
  DoidFloor = 12
  MaxFailures = 2
  MaxDeaths = 3
  MaxRevocations = 3
  SessionTtl = 2
  KeptTtl = 3
  PassTtl = 2
  RenewWithin = 1
  CodeTtl = 1
  MaxNow = 5
  MaxEvents = 4
  Players = {pa, pb}
  Connections = {1, 2, 3}
  Unnamed = Unnamed
  MaxWatched = 1
  MaxFriendEvents = 2
  MaxTears = 1
  s1 = s1
  s2 = s2
  Sockets = {s1, s2}
  Talkers = {s1}
  Homes = {home}
  Proxy = proxy
  MaxSockets = 2
  MaxPerAddress = 1
  ResumeAt = 0
  MaxQueued = 1
  HighWater = 1
  MaxOut = 1
  MaxPackets = 2
  MaxSends = 1
INVARIANT TownTypeOK
INVARIANT TwoAccountsAgree
INVARIANT ClientsAreServedInOrder
INVARIANT NobodyOutstaysHisLeave
PROPERTY TownMovesOn
CHECK_DEADLOCK FALSE
