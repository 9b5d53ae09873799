CONSTANTS
  L = 2
  Requests = {r1}
  Upgrades = {r1}
SPECIFICATION Spec
INVARIANTS CleanDrainLosesNothing
PROPERTIES KeepsLedger
\* The process ends: exited is a final state.
CHECK_DEADLOCK FALSE
