SPECIFICATION FairSpec
CONSTANTS
  Task = {t1, t2}
  Canceler = {k1}
  Setter = {}
  MaxTasks = 2
  Bridged = FALSE
  MaxRevivals = 9
  None = None
PROPERTIES ExpiredIsRemoved
CHECK_DEADLOCK FALSE
