CONSTANTS
  L = 2
  Requests = {r1}
  Upgrades = {}
SPECIFICATION FairSpec
INVARIANTS TypeOK StoppedBeforeCheckers FinalFlushTakesAll
PROPERTIES ShutdownEnds EventuallyReported
\* The process ends: exited is a final state.
CHECK_DEADLOCK FALSE
