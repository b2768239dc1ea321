\* The seeded container: the wrapper is pid 1, and anyone may signal it thrice.
SPECIFICATION WrapperSpec
CONSTANTS
  InitProcess = TRUE
  MaxSignals = 3
  Depth = 1
  Enough = 2
  t1 = t1
  t2 = t2
  p = p
  q = q
  k = k
  Nobody = Nobody
  Threads <- MCThreads
  Channel <- MCChannel
  Configs <- MCConfigs
  Torn = Torn
  Home = "/"
  NoDir = NoDir
  Reach <- MCReach
  Scenarios <- MCScenarios
INVARIANTS GateHolds SearchComplete ReportWhole RaisesOnlyShared CountsBounded ConfigFresh
PROPERTY WokenStarts
\* An ended process and an exhausted signal budget leave nothing to do.
CHECK_DEADLOCK FALSE
