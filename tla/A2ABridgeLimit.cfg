SPECIFICATION Spec
CONSTANTS
  Task = {t1, t2}
  Canceler = {}
  Setter = {}
  MaxTasks = 1
  Bridged = TRUE
  MaxRevivals = 1
  None = None
INVARIANTS InFlightLimit
CHECK_DEADLOCK FALSE
