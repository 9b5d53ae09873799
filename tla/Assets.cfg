CONSTANTS
  w1 = w1  setup = setup  k1 = k1  ai = ai  rca = rca  s1 = s1  s2 = s2  v1 = v1  r1 = r1
  d1 = d1  d2 = d2  o1 = o1  o2 = o2  na = na  a = a  b = b  none = none
  Programs <- MCPrograms
  Present = {ai}
  Page = 2
  MaxLoads = 2
  MaxFaults = 3
SPECIFICATION Spec
INVARIANTS TypeOK OnePerName CompleteLoad
\* The loads are bounded.
CHECK_DEADLOCK FALSE
