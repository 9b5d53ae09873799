CONSTANTS
  Trades = {t1, t2}
  Canary = {t2}
  Consumers = {p1}
  Nobody = nobody
  MaxUpsets = 1
SPECIFICATION PathSpec
INVARIANTS PathTypeOK AnswersAreExplained RowsAreExplained NoticesAreExplained
CONSTRAINT SettledBefore
\* Every trade may have been answered, and processor-in may be gone.
CHECK_DEADLOCK FALSE
