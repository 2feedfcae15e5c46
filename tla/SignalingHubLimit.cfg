SPECIFICATION Spec
CONSTANTS
  Agent = {a1, a2}
  Conn = {c1, c2}
  Pusher = {}
  MaxConns = 1
  FrameType = {"answer"}
  Burst = 1
  AuthRequired = FALSE
  None = None
INVARIANTS WithinConnectionLimit
CHECK_DEADLOCK FALSE
