CONSTANTS
  Region = na
  Customers = {c1, c2}
  Strangers = {x1}
  Symbols = {s1}
  Nobody = none
  Handlers = {h1}
  MaxCalls = 2
SPECIFICATION FairSpec
INVARIANTS TypeOK RequestsAreCurrent
PROPERTIES DeathHasReason NormalTrafficReturns
\* The generator may have died, and the calls are bounded.
CHECK_DEADLOCK FALSE
