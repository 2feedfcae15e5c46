----------------------------- MODULE OutboundBridges ----------------------------
(***************************************************************************)
(* The bridge manager and the outbound A2A, ACP and MCP adapters behind    *)
(* it.  An envelope comes from POST /bridge/send (the only caller that     *)
(* looks the endpoint up in the routing table), from an invocation (which  *)
(* copies the client's metadata) or from an inbound bridge; the adapter    *)
(* takes the endpoint from the envelope's metadata, calls the remote       *)
(* agent, remembers the task, run or session in a sync.Map with a counter  *)
(* beside it, and offers the response to an inbox of a fixed capacity that *)
(* nothing in the server reads.                                            *)
(***************************************************************************)
EXTENDS Platform, Integers

CONSTANTS
  Envelope,   \* envelopes sent
  Remote,     \* ids of remote tasks and runs, endpoints of MCP servers
  Enabled,    \* protocols whose bridge is registered
  Served,     \* protocols for which the routing table has the destination's endpoint
  InboxSize   \* capacity of an adapter's inbox, 100 in the code

Proto == {"a2a", "acp", "mcp"}

ASSUME ProtocolSets == Enabled \subseteq Proto /\ Served \subseteq Proto
ASSUME InboxCapacity == InboxSize \in Nat \ {0}

VARIABLES
  sending,    \* an envelope: [proto, endpoint, stream, at, key]
  tracked,    \* tasks, runs or sessions of an adapter
  trackCount, \* taskCount, runCount, sessionCount
  arrived,    \* those of them that came in by the adapter's own HTTP routes
  named,      \* MCP sessions that have the id the server gave them
  inbox,      \* envelopes in an adapter's inbox
  closed      \* adapters closed at shutdown

outVars == <<sending, tracked, trackCount, arrived, named, inbox, closed>>

Sending ==
  [proto : Proto, endpoint : BOOLEAN, stream : BOOLEAN, key : Remote \cup {None},
   at : {"none", "dispatch", "open", "post", "init", "session", "call", "track",
         "replace", "count", "push", "sent", "failed", "unaddressed", "panic"}]
Unsent ==
  [proto |-> "a2a", endpoint |-> FALSE, stream |-> FALSE, key |-> None,
   at |-> "none"]

OutInit ==
  /\ sending = [e \in Envelope |-> Unsent]
  /\ tracked = [p \in Proto |-> {}]
  /\ trackCount = [p \in Proto |-> 0]
  /\ arrived = [p \in Proto |-> {}]
  /\ named = {}
  /\ inbox = [p \in Proto |-> 0]
  /\ closed = {}

OutGoto(e, stage) == sending' = [sending EXCEPT ![e].at = stage]
At(e, stage) == sending[e].at = stage
OutEnd(e, result) == sending' = [sending EXCEPT ![e] = [Unsent EXCEPT !.at = result]]

(* handleBridgeSend: the endpoint of the client's metadata, or the route's. *)
HandleBridgeSend(e, p, supplied) ==
  /\ At(e, "none")
  /\ sending' = [sending EXCEPT ![e] =
       [Unsent EXCEPT !.proto = p, !.at = "dispatch", !.endpoint = supplied \/ p \in Served]]
  /\ UNCHANGED <<tracked, trackCount, arrived, named, inbox, closed>>

(* handleInvoke: only the client's metadata.                           *)
HandleInvoke(e, p, supplied, stream) ==
  /\ At(e, "none")
  /\ sending' = [sending EXCEPT ![e] =
       [Unsent EXCEPT !.proto = p, !.at = "dispatch", !.endpoint = supplied,
                      !.stream = stream]]
  /\ UNCHANGED <<tracked, trackCount, arrived, named, inbox, closed>>

(* The inbound bridges: the first protocol of the card, ids of their own in *)
(* the metadata, and SendStream.                                            *)
HandleInbound(e, p) ==
  /\ At(e, "none")
  /\ p \in Served
  /\ sending' = [sending EXCEPT ![e] =
       [Unsent EXCEPT !.proto = p, !.at = "dispatch", !.stream = TRUE]]
  /\ UNCHANGED <<tracked, trackCount, arrived, named, inbox, closed>>

(* Manager: only the A2A adapter is a StreamSender, SendStream falls back   *)
(* to Send for the others.                                                  *)
Dispatch(e) ==
  /\ At(e, "dispatch")
  /\ IF sending[e].proto \notin Enabled THEN OutEnd(e, "failed")
     ELSE OutGoto(e, IF sending[e].stream /\ sending[e].proto = "a2a" THEN "open" ELSE "post")
  /\ UNCHANGED <<tracked, trackCount, arrived, named, inbox, closed>>

(* An envelope without "<protocol>.endpoint" is refused by the adapter.     *)
Unaddressed(e) ==
  /\ sending[e].at \in {"open", "post"}
  /\ ~sending[e].endpoint
  /\ OutEnd(e, "unaddressed")
  /\ UNCHANGED <<tracked, trackCount, arrived, named, inbox, closed>>

(* A2A SendStream: the chunks are relayed, nothing is remembered.           *)
StreamA2A(e) ==
  /\ At(e, "open") /\ sending[e].endpoint
  /\ \E result \in {"sent", "failed"} : OutEnd(e, result)
  /\ UNCHANGED <<tracked, trackCount, arrived, named, inbox, closed>>

(* Send of A2A and ACP; the reply names the task or run.  getOrInitSession  *)
(* of MCP: a session of the endpoint is used, or one is initialized.        *)
Post(e) ==
  /\ At(e, "post") /\ sending[e].endpoint
  /\ \E k \in Remote :
        sending' = [sending EXCEPT ![e] =
          [Unsent EXCEPT !.proto = sending[e].proto, !.key = k,
             !.at = IF sending[e].proto # "mcp" \/ k \in tracked["mcp"]
                    THEN "call" ELSE "init"]]
  /\ UNCHANGED <<tracked, trackCount, arrived, named, inbox, closed>>

(* doPost: a session id in the response is kept when the session is known.  *)
NameSession(e) ==
  named' = IF sending[e].proto = "mcp" /\ sending[e].key \in tracked["mcp"]
           THEN named \cup {sending[e].key} ELSE named

(* initialize and the initialized notification.                             *)
InitSession(e) ==
  /\ At(e, "init")
  /\ \/ OutEnd(e, "failed") /\ UNCHANGED named
     \/ OutGoto(e, "session") /\ NameSession(e)
     \/ OutGoto(e, "session") /\ UNCHANGED named
  /\ UNCHANGED <<tracked, trackCount, arrived, inbox, closed>>

CallRemote(e) ==
  /\ At(e, "call")
  /\ \/ OutEnd(e, "failed") /\ UNCHANGED named
     \/ /\ OutGoto(e, IF sending[e].proto = "mcp" THEN "push" ELSE "track")
        /\ NameSession(e) \/ UNCHANGED named
  /\ UNCHANGED <<tracked, trackCount, arrived, inbox, closed>>

(* Variant: the entry is stored and counted whether it was there or not.    *)
TrackAndCount(e) ==
  /\ sending[e].at \in {"track", "session"}
  /\ LET p == sending[e].proto IN
       /\ tracked' = [tracked EXCEPT ![p] = tracked[p] \cup {sending[e].key}]
       /\ OutGoto(e, "count")
  /\ UNCHANGED <<trackCount, arrived, named, inbox, closed>>

(* LoadOrStore: a new entry is counted next, a known one is replaced next.  *)
Track(e) ==
  /\ sending[e].at \in {"track", "session"}
  /\ LET p == sending[e].proto IN
       /\ tracked' = [tracked EXCEPT ![p] = tracked[p] \cup {sending[e].key}]
       /\ OutGoto(e, IF sending[e].key \in tracked[p] THEN "replace" ELSE "count")
  /\ UNCHANGED <<trackCount, arrived, named, inbox, closed>>

(* Where a send goes after its entry is stored.                             *)
Tracked(e) == IF sending[e].proto = "mcp" THEN "call" ELSE "push"

(* A replaced MCP session has no id.                                        *)
Replace(e) ==
  /\ At(e, "replace")
  /\ named' = IF sending[e].proto = "mcp" THEN named \ {sending[e].key} ELSE named
  /\ OutGoto(e, Tracked(e))
  /\ UNCHANGED <<tracked, trackCount, arrived, inbox, closed>>

CountTracked(e) ==
  /\ At(e, "count")
  /\ trackCount' = [trackCount EXCEPT ![sending[e].proto] = trackCount[sending[e].proto] + 1]
  /\ OutGoto(e, Tracked(e))
  /\ UNCHANGED <<tracked, arrived, named, inbox, closed>>

getOrInitSession(e) == InitSession(e) \/ Track(e) \/ Replace(e) \/ CountTracked(e)

(* A channel send with a default: full means dropped, closed means a panic. *)
Offered(p) == [inbox EXCEPT ![p] = IF inbox[p] < InboxSize THEN inbox[p] + 1 ELSE inbox[p]]

Push(e) ==
  /\ At(e, "push")
  /\ LET p == sending[e].proto IN
     IF p \in closed
     THEN OutEnd(e, "panic") /\ UNCHANGED inbox
     ELSE OutEnd(e, "sent") /\ inbox' = Offered(p)
  /\ UNCHANGED <<tracked, trackCount, arrived, named, closed>>

(* A task that is not completed, or a run still going, has no response yet. *)
NothingToPush(e) ==
  /\ At(e, "push") /\ sending[e].proto # "mcp"
  /\ OutEnd(e, "sent")
  /\ UNCHANGED <<tracked, trackCount, arrived, named, inbox, closed>>

(* The adapters' own routes: POST /a2a and POST /acp/runs store a task or a *)
(* run under a fresh id, POST /mcp stores nothing; nothing is counted, and  *)
(* when the inbox is full the caller is told so but the entry stays.        *)
Arrive(p, k) ==
  /\ p \in Enabled \ closed
  /\ IF p = "mcp"
     THEN UNCHANGED <<tracked, arrived>>
     ELSE /\ \A q \in Proto : k \notin tracked[q]
          /\ \A e \in Envelope : sending[e].key # k
          /\ tracked' = [tracked EXCEPT ![p] = tracked[p] \cup {k}]
          /\ arrived' = [arrived EXCEPT ![p] = arrived[p] \cup {k}]
  /\ inbox' = Offered(p)
  /\ UNCHANGED <<sending, trackCount, named, closed>>

(* Manager.Close, one adapter after the other; handlers may still run.      *)
CloseAdapter(p) ==
  /\ p \in Enabled \ closed
  /\ closed' = closed \cup {p}
  /\ UNCHANGED <<sending, tracked, trackCount, arrived, named, inbox>>

Handle(e) ==
  \E p \in Proto :
    \/ \E supplied \in BOOLEAN : HandleBridgeSend(e, p, supplied)
    \/ \E supplied, stream \in BOOLEAN : HandleInvoke(e, p, supplied, stream)
    \/ HandleInbound(e, p)

(* Adapter.Send of the three adapters.                                      *)
SendA2A(e) ==
  /\ sending[e].proto = "a2a"
  /\ \/ Unaddressed(e) \/ Post(e) \/ CallRemote(e) \/ Track(e) \/ Replace(e)
     \/ CountTracked(e) \/ Push(e) \/ NothingToPush(e)

SendACP(e) ==
  /\ sending[e].proto = "acp"
  /\ \/ Unaddressed(e) \/ Post(e) \/ CallRemote(e) \/ Track(e) \/ Replace(e)
     \/ CountTracked(e) \/ Push(e) \/ NothingToPush(e)

SendMCP(e) ==
  /\ sending[e].proto = "mcp"
  /\ Unaddressed(e) \/ Post(e) \/ getOrInitSession(e) \/ CallRemote(e) \/ Push(e)

OutNext ==
  /\ UNCHANGED faults
  /\ \/ \E e \in Envelope :
           Handle(e) \/ Dispatch(e) \/ StreamA2A(e) \/ SendA2A(e) \/ SendACP(e) \/ SendMCP(e)
     \/ \E p \in Proto : CloseAdapter(p) \/ (\E k \in Remote : Arrive(p, k))

OutSpec == OutInit /\ faults = 0 /\ [][OutNext]_<<outVars, faults>>

-----------------------------------------------------------------------------
(* Types.                                                                   *)
OutTypeOK ==
  /\ sending \in [Envelope -> Sending]
  /\ tracked \in [Proto -> SUBSET Remote] /\ arrived \in [Proto -> SUBSET Remote]
  /\ trackCount \in [Proto -> Nat]
  /\ named \subseteq tracked["mcp"]
  /\ inbox \in [Proto -> 0..InboxSize]
  /\ closed \subseteq Proto

(* What GET /stats shows as an adapter's tasks is what its Sends stored,    *)
(* each once however many Sends of one task, run or endpoint run together,  *)
(* and less the ones not yet counted (a2a/adapter.go:139-143,               *)
(* acp/adapter.go:103-107, mcp/adapter.go:205-209).                         *)
TrackedIsCounted ==
  \A p \in Proto :
    trackCount[p] + Cardinality({e \in Envelope : At(e, "count") /\ sending[e].proto = p})
      = Cardinality(tracked[p] \ arrived[p])

=============================================================================
