-------------------------------- MODULE MCPBridge -------------------------------
(***************************************************************************)
(* The inbound MCP bridge.  An initialize request opens a session in a     *)
(* sync.Map with a counter beside it; nothing looks a session up again, it *)
(* only stays until the hourly sweep.  A tools/call sends the call through *)
(* the bridge manager, collects the chunks, writes the row of the          *)
(* invocation log, answers, and raises a reputation event.                 *)
(***************************************************************************)
EXTENDS Platform, Integers

CONSTANTS
  McpSession,  \* session ids
  MaxSessions  \* maxMCPSessions, 10000 in the code

ASSUME MaxSessionsIsPositive == MaxSessions \in Nat \ {0}
ASSUME NoneIsNoMcpSession == None \notin McpSession

VARIABLES
  mcpSessions,   \* mcpSessions.sessions
  sessionCount,  \* mcpSessions.sessionCount
  mcpOld,        \* sessions opened more than maxAge ago
  mcpHandler,    \* the request a goroutine serves: [at, session, failed]
  mcpSweep       \* the clean-up: a session removed and not yet counted out, or None

mcpVars == <<mcpSessions, sessionCount, mcpOld, mcpHandler, mcpSweep>>

McpStage == {"idle", "store", "count", "send", "reply", "record", "answer", "event"}
McpIdle == [at |-> "idle", session |-> None, failed |-> FALSE]

MCPInit ==
  /\ mcpSessions = {}
  /\ sessionCount = 0
  /\ mcpOld = {}
  /\ mcpHandler = [h \in Handler |-> McpIdle]
  /\ mcpSweep = None

McpGoto(h, stage) == mcpHandler' = [mcpHandler EXCEPT ![h].at = stage]
Unused(s) ==
  /\ s \notin mcpSessions \cup mcpOld
  /\ s # mcpSweep
  /\ \A h \in Handler : mcpHandler[h].session # s

(* Variant: the limit itself still passes.                                  *)
BelowOrAtLimit == sessionCount <= MaxSessions

BelowLimit == sessionCount < MaxSessions

(* handleMCPBridgeInitialize: the limit is checked, then the session is     *)
(* stored, then it is counted.                                              *)
Initialize(h, s) ==
  /\ mcpHandler[h].at = "idle"
  /\ Unused(s)
  /\ BelowLimit
  /\ mcpHandler' = [mcpHandler EXCEPT ![h] = [McpIdle EXCEPT !.at = "store", !.session = s]]
  /\ UNCHANGED <<mcpSessions, sessionCount, mcpOld, mcpSweep>>

StoreSession(h) ==
  /\ mcpHandler[h].at = "store"
  /\ mcpSessions' = mcpSessions \cup {mcpHandler[h].session}
  /\ McpGoto(h, "count")
  /\ UNCHANGED <<sessionCount, mcpOld, mcpSweep>>

CountSession(h) ==
  /\ mcpHandler[h].at = "count"
  /\ sessionCount' = sessionCount + 1
  /\ mcpHandler' = [mcpHandler EXCEPT ![h] = McpIdle]
  /\ UNCHANGED <<mcpSessions, mcpOld, mcpSweep>>

(* handleMCPBridgeToolsCall, after the checks of access and rate.           *)
ToolsCall(h) ==
  /\ mcpHandler[h].at = "idle"
  /\ mcpHandler' = [mcpHandler EXCEPT ![h] = [McpIdle EXCEPT !.at = "send"]]
  /\ UNCHANGED <<mcpSessions, sessionCount, mcpOld, mcpSweep>>

(* SendStream refuses (the call is recorded, answered, and over) or opens a *)
(* stream that ends well or in an error.                                    *)
Refused(h) ==
  /\ mcpHandler[h].at = "send"
  /\ mcpHandler' = [mcpHandler EXCEPT ![h].at = "record", ![h].failed = TRUE]
  /\ UNCHANGED <<mcpSessions, sessionCount, mcpOld, mcpSweep>>

Opened(h) ==
  /\ mcpHandler[h].at = "send"
  /\ McpGoto(h, "reply")
  /\ UNCHANGED <<mcpSessions, sessionCount, mcpOld, mcpSweep>>

ReplyEnds(h) ==
  /\ mcpHandler[h].at = "reply"
  /\ \E failed \in BOOLEAN :
        mcpHandler' = [mcpHandler EXCEPT ![h].at = "record", ![h].failed = failed]
  /\ UNCHANGED <<mcpSessions, sessionCount, mcpOld, mcpSweep>>

(* The row of the invocation log, which no step of the bridge reads.        *)
RecordCall(h) ==
  /\ mcpHandler[h].at = "record"
  /\ McpGoto(h, "answer")
  /\ UNCHANGED <<mcpSessions, sessionCount, mcpOld, mcpSweep>>

Answer(h) ==
  /\ mcpHandler[h].at = "answer"
  /\ McpGoto(h, "event")
  /\ UNCHANGED <<mcpSessions, sessionCount, mcpOld, mcpSweep>>

CallEvent(h) ==
  /\ mcpHandler[h].at = "event"
  /\ mcpHandler' = [mcpHandler EXCEPT ![h] = McpIdle]
  /\ UNCHANGED <<mcpSessions, sessionCount, mcpOld, mcpSweep>>

SessionAges(s) ==
  /\ s \in mcpSessions \ mcpOld
  /\ \A h \in Handler : mcpHandler[h].session # s
  /\ mcpOld' = mcpOld \cup {s}
  /\ UNCHANGED <<mcpSessions, sessionCount, mcpHandler, mcpSweep>>

(* mcpBridgeCleanup removes a session and counts it out.                    *)
SweepSession(s) ==
  /\ mcpSweep = None
  /\ s \in mcpSessions \cap mcpOld
  /\ mcpSessions' = mcpSessions \ {s}
  /\ mcpOld' = mcpOld \ {s}
  /\ mcpSweep' = s
  /\ UNCHANGED <<sessionCount, mcpHandler>>

SweepSessionCount ==
  /\ mcpSweep # None
  /\ sessionCount' = sessionCount - 1
  /\ mcpSweep' = None
  /\ UNCHANGED <<mcpSessions, mcpOld, mcpHandler>>

handleMCPBridgeInitialize(h) ==
  (\E s \in McpSession : Initialize(h, s)) \/ StoreSession(h) \/ CountSession(h)

handleMCPBridgeToolsCall(h) ==
  \/ ToolsCall(h) \/ Refused(h) \/ Opened(h) \/ ReplyEnds(h)
  \/ RecordCall(h) \/ Answer(h) \/ CallEvent(h)

mcpBridgeCleanup == (\E s \in McpSession : SweepSession(s)) \/ SweepSessionCount

MCPNext ==
  /\ UNCHANGED faults
  /\ \/ \E h \in Handler :
           \/ handleMCPBridgeInitialize(h) \/ handleMCPBridgeToolsCall(h)
     \/ \E s \in McpSession : SessionAges(s)
     \/ mcpBridgeCleanup

MCPSpec == MCPInit /\ faults = 0 /\ [][MCPNext]_<<mcpVars, faults>>

-----------------------------------------------------------------------------
(* Types.                                                                   *)
MCPTypeOK ==
  /\ mcpSessions \subseteq McpSession /\ mcpOld \subseteq McpSession
  /\ sessionCount \in Int
  /\ mcpHandler \in [Handler -> [at : McpStage, session : McpSession \cup {None},
                                 failed : BOOLEAN]]
  /\ mcpSweep \in McpSession \cup {None}

Admitted == {h \in Handler : mcpHandler[h].at = "store"}

(* The check of the limit and the counting are apart, so requests that are  *)
(* between the two overshoot the limit; but with the requests that will     *)
(* still store, never by more than the number of concurrent requests less   *)
(* the one the limit lets in (mcp_bridge.go:100, 112-113, 337-338).         *)
SessionsBounded ==
  Cardinality(mcpSessions) + Cardinality(Admitted) <= MaxSessions + Cardinality(Handler) - 1

=============================================================================
