CONSTANTS
  Trades = {t1, t2, t3}
  Symbols = {s1}
  Window = 1
  Missing = missing
  MaxResets = 1
SPECIFICATION TraderSpec
SYMMETRY MCSymmetry
INVARIANTS TraderTypeOK AverageExact
PROPERTIES MarketFailsInRacesOnly KeepsRequest
\* Every request may have been answered.
CHECK_DEADLOCK FALSE
