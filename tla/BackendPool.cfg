CONSTANTS
  N = 2
  Handlers = {h1, h2}
  Flusher = fl
  MaxPicks = 3
SPECIFICATION Spec
INVARIANTS TypeOK QuietScanIsExact GaugesAddUp EvenSpread
PROPERTIES OneLateRecovery
SYMMETRY MCSymmetry
