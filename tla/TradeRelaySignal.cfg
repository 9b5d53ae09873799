CONSTANTS
  Consumers = {c1, c2}
  Nobody = nobody
  MaxRecords = 2
  MaxUpsets = 1
SPECIFICATION FairSpec
PROPERTIES SignalEnds
\* Every loop may have ended on an exception, with the topic full and no upset left.
CHECK_DEADLOCK FALSE
