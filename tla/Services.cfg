SPECIFICATION ServicesSpec
CONSTANTS
  Part = {"claim", "req", "inv", "acc", "code", "session", "rep", "acp", "mcp", "out", "rev", "note", "lim", "life"}
  Agent = {a1}
  User = {u1}
  Handler = {h1, h2}
  None = None
  MaxFaults = 1
  Newcomer = {a1, a2}
  Party = {b1, b2}
  Account = {j1, j2}
  Token = {i1, j1, j2}
  Code = {j1, j2}
  Session = {i1, j1, j2}
  McpSession = {i1, j1, j2}
  Socket = {i1, j1, j2}
  Request = {j1, j2}
  Grant = {j1, j2}
  Event = {j1, j2}
  Note = {j1, j2}
  Run = {j1, j2}
  Envelope = {j1, j2}
  Slug = {k1}
  Category = {j1, j2}
  Key = {k1}
  Peer = {b1}
  Call = {c1}
  Challenge = {n1}
  Url = {x1, x2}
  Remote = {x1}
  Report = {p1}
  ClientKey = {k1}
  Email = {e1, e2}
  AdminEmail = {e1}
  SendsEmail = TRUE
  MaxPending = 1
  MaxPerHour = 1
  MaxFailed = 1
  MaxRuns = 1
  MaxRevived = 1
  MaxSessions = 1
  Enabled = {"a2a", "acp", "mcp"}
  Served = {"a2a", "mcp"}
  InboxSize = 1
  Burst = 2
  Period = 2
  IdleTicks = 3
  Hour = 8
  Horizon = 9
SYMMETRY ServicesSymmetry
CHECK_DEADLOCK FALSE
INVARIANTS
  ServicesTypeOK
  TokenSpent
  LimitsOvershootByConcurrency
  
  
  CodeUsedOnce
  
  RotatedIsDead
  ScoreFollowsLog
  VerifiedWasChallenged
  RunsCounted
  TrackedIsCounted
  StandingReviewsCount
  OpenSocketIsRegistered
  CleanupIsTransparent
  LifecycleInOrder
PROPERTIES
  ChangedOnPurpose
  
