SPECIFICATION Spec
CONSTANTS
  Task = {t1, t2}
  Canceler = {k1, k2}
  Setter = {s1}
  MaxTasks = 1
  Bridged = TRUE
  MaxRevivals = 1
  None = None
SYMMETRY Symmetric
INVARIANTS TypeOK CountExact LimitButForStreams FinishedIsFinal
CHECK_DEADLOCK FALSE
