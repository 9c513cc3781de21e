SPECIFICATION FairSpec
CONSTANTS
  c1 = c1
  c2 = c2
  ann = ann
  bob = bob
  w1 = w1
  w2 = w2
  Conns <- TwoConns
  Accounts <- TwoAccounts
  AccountOf <- BothOfAnn
  Workers <- OneWorker
  MatchIds = {1, 2}
  Capacity = 2
  Callers <- OneConn
  Droppers <- NoConns
  Offenders <- OtherConn
  NoWorker = NoWorker
  NoMatch = NoMatch
  MaxEntries <- FirstTwice
  MaxCrashes = 0
INVARIANT TypeOK
INVARIANT RegistryAgrees
INVARIANT NoGhosts
PROPERTY ConnsFollowPhases
PROPERTY TransitionsEnd
CHECK_DEADLOCK FALSE
