SPECIFICATION Spec
CONSTANTS
  Agent = {a1, a2}
  Conn = {c1, c2, c3}
  Pusher = {}
  MaxConns = 2
  FrameType = {"answer"}
  Burst = 1
  AuthRequired = FALSE
  None = None
SYMMETRY ConnSymmetry
INVARIANTS TypeOK RegisteredIsServed OpenIsReachable OnlyListedSignals
PROPERTIES ImplementsSlots
CHECK_DEADLOCK FALSE
