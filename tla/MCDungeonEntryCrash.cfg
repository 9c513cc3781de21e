SPECIFICATION Spec
CONSTANTS
  c1 = c1
  c2 = c2
  ann = ann
  bob = bob
  w1 = w1
  w2 = w2
  Conns <- TwoConns
  Accounts <- TwoAccounts
  AccountOf <- OneEach
  Workers <- TwoWorkers
  MatchIds = {1, 2}
  Capacity = 2
  Callers <- NoConns
  Droppers <- OneConn
  Offenders <- NoConns
  NoWorker = NoWorker
  NoMatch = NoMatch
  MaxEntries <- OnceEach
  MaxCrashes = 1
SYMMETRY WorkerSymmetry
INVARIANT PlacesAreHeld
INVARIANT OneWorkerPerMatch
CHECK_DEADLOCK FALSE
