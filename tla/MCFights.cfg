SPECIFICATION AllSpec
CONSTANTS
  h1 = h1
  h2 = h2
  bomb = bomb
  zone = zone
  Fighters = {h1, h2}
  Life = 2
  Stacks = 1
  PoisonBites = 1
  CastBudget = 1
  FullBuster = 1
  MaxBuffs = 2
  MaxCasts = 1
  MaxSteals = 1
  Victims = {h1, h2}
  NoVictim = NoVictim
  MaxSwings = 2
  MaxEvents = 1
  Rich = {TRUE, FALSE}
  PlacedKinds = {"tower", "bomb", "charge", "summon"}
  MaxThrows = 1
  MaxLandings = 2
  MaxHits = 2
  Bombs = {bomb}
  Zones = {zone}
  Wired = {bomb, zone}
  Bodies = {h1}
  Spots <- FloorLine
  TrapSpot <- PlaceOf
  TrapReach <- ReachOf
  Width = 1
  Cell = 3
  MaxChanges = 3
  gate = gate
  crate = crate
  Gates = {gate}
  Crates = {crate}
  Shapes <- Shape
  GridCell = 10
  Columns = 4
  Margin = 1
  Bucket = 7
  Girth = 1
  Strides = {14, 16}
  Radii = {1, 2}
  Body = 1
  Walls = {}
  Aims = {5, 28, 35}
  MaxFloorChanges = 2
  MaxTurns = 2
  MaxSearches = 1
  Party = {h1, h2}
  LastFloor = 2
  MaxFoes = 1
  MaxBombs = 1
INVARIANT FightTypeOK
INVARIANT StrikesAreCounted
INVARIANT WhatIsThereIsNoticed
INVARIANT ReportIsAsTold
PROPERTY FightsGoOn
CHECK_DEADLOCK FALSE
