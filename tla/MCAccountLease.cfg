SPECIFICATION Spec
CONSTANTS
  w1 = w1
  w2 = w2
  rpc = rpc
  friend1 = friend1
  visit1 = visit1
  visit2 = visit2
  Workers <- TwoWorkers
  Txns <- RpcAndFriend
  Social <- OneFriend
  Second <- OneFriend
  Visits <- TwoVisits
  Main = Main
  NoWorker = NoWorker
  MaxCrashes = 1
SYMMETRY Symmetry
VIEW Seen
INVARIANT TypeOK
INVARIANT LeaseInv
INVARIANT OnlyStaleObjectsLose
INVARIANT OnlyReadsWaitForever
CHECK_DEADLOCK FALSE
