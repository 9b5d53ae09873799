CONSTANTS
  r1 = r1
  r2 = r2
  Requests <- MCRequests
  Outcomes <- MCOutcomes
  Accepted <- MCAccepted
  Audited = {"target", "requestCount"}
SPECIFICATION Spec
INVARIANTS TypeOK Conservation TargetNeverAhead CountCatchesUp
PROPERTIES CellsKeepLedger
