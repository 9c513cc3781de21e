SPECIFICATION AllSpec
CONSTANTS
  server1 = server1
  replacement = replacement
  container = container
  host = host
  elsewhere = elsewhere
  Processes <- ThreeProcesses
  Views <- TwoViews
  View <- ViewOfThree
  ClockAhead <- SameClocks
  Nobody = Nobody
  Servers = {s1, s2}
  NoServer = NoServer
  MaxStarts = 2
  MaxDrops = 1
  MaxJobs = 1
  MaxStalls = 1
INVARIANT OneBelieverUnlessOutrun
INVARIANT LockInv
INVARIANT ServersKeepApart
PROPERTY SecondBelieverLearns
PROPERTY ServersSettle
CHECK_DEADLOCK FALSE
