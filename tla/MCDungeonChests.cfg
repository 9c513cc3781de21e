SPECIFICATION AllSpec
CONSTANTS
  first = first
  next = next
  Members <- TwoMembers
  Retry = Retry
  MaxChanges = 3
  Lying = {t1}
  BossChest = boss
  Bought = bought
  Room = 2
  MaxCalls = 1
  MaxRefused = 1
  MaxMade = 2
  m1 = m1
  m2 = m2
  Joiners <- Pair
  Nobody = Nobody
  MaxEntries = 2
  Floors = 2
  MaxMoves = 1
INVARIANT KeptChestsAreHeld
CHECK_DEADLOCK FALSE
