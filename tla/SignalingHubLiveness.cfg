SPECIFICATION FairSpec
CONSTANTS
  Agent = {a1, a2}
  Conn = {c1, c2}
  Pusher = {p1}
  MaxConns = 2
  FrameType = {"other"}
  Burst = 1
  AuthRequired = TRUE
  None = None
INVARIANTS AddressedWrites
 
CHECK_DEADLOCK FALSE
