SPECIFICATION LimSpec
CONSTANTS
  Agent = {}
  User = {}
  Handler = {}
  None = None
  MaxFaults = 0
  ClientKey = {k1}
  k1 = k1
  Burst = 3
  Period = 6
  IdleTicks = 5
  Hour = 60
  Horizon = 60
INVARIANT HourlyLimit
CHECK_DEADLOCK FALSE
