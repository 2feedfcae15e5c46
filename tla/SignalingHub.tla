---------------------------- MODULE SignalingHub ----------------------------
(***************************************************************************)
(* The WebSocket signaling hub of one server node                          *)
(* (internal/signaling/ws.go, with the LocalBroker of local_broker.go).    *)
(*                                                                         *)
(* Every WebSocket upgrade runs HandleConnect in a goroutine of its own.   *)
(* A member of Conn is one such upgrade: the *websocket.Conn and the       *)
(* goroutine serving it.  conns is the hub's map, guarded by h.mu; a step  *)
(* that the code runs under h.mu.Lock() needs the lock free, and the only  *)
(* holder of h.mu.RLock() that spans several steps is a broadcast.  All    *)
(* look-ups of a target connection and the write to it are two steps,      *)
(* because the code releases the lock in between.  The locals of a         *)
(* goroutine that ended are put back to their initial values.              *)
(***************************************************************************)
EXTENDS Naturals, FiniteSets

CONSTANTS
  Agent,         \* agent identifiers
  Conn,          \* WebSocket upgrades, each served by one HandleConnect
  Pusher,        \* callers of PushNotification and DeliverEnvelope
  MaxConns,      \* rate_limit.max_connections, 0 = unlimited
  FrameType,     \* types of the frames that clients send
  Burst,         \* burst of the per-connection limiter (20 in the code)
  AuthRequired,  \* h.authRequired && h.verifier != nil
  None           \* "no connection", "no packet", "no agent"

ASSUME HubConstants ==
  /\ MaxConns \in Nat
  /\ Burst \in Nat \ {0}
  /\ FrameType \subseteq {"offer", "answer", "ice_candidate", "other"}
  /\ AuthRequired \in BOOLEAN
  /\ None \notin Agent \cup Conn
  /\ "server" \notin Agent

(* isSignalingType: offer, answer and ice_candidate are subject to the     *)
(* whitelist, every other frame of a client is not.                        *)
SignalingType == {"offer", "answer", "ice_candidate"}
Message == [type : FrameType \cup {"signaling_error"},
            from : Agent \cup {"server"}, to : Agent]

ASSUME NoneIsNoMessage == None \notin Message

VARIABLES
  conns,    \* h.conns: the connection registered for an agent, or None
  pc,       \* where the HandleConnect goroutine of a connection stands
  agentOf,  \* its local agentID
  closed,   \* connections that either side has closed
  tokens,   \* msgLimiter.tokens of a connection
  job,      \* the message the goroutine is forwarding, or None
  target,   \* the connection it looked up for that message, or None
  listed,   \* history: goroutines whose job's receiver has had the sender in
            \* its contact list at some moment since the frame was read
  contacts, \* pairs <<owner, contact>> in force (contacts.Service, external)
  push,     \* a server-side sender's addressee and connection, or None
  bcast     \* BroadcastNotification: agents still to write, or None

vars == <<conns, pc, agentOf, closed, tokens, job, target, listed, contacts,
          push, bcast>>

relay   == <<job, target, listed>>
sending == <<push, bcast>>

(* The connections whose goroutine is between its registration in h.conns  *)
(* and the deferred removal.                                               *)
Serving == {"registered", "reading", "gate", "lookup", "write", "leaving"}
Phase   == {"idle", "checked", "accepted", "authenticated",
            "closing", "gone"} \cup Serving

Registered == {a \in Agent : conns[a] # None}
LockFree   == bcast = None

TypeOK ==
  /\ conns \in [Agent -> Conn \cup {None}]
  /\ pc \in [Conn -> Phase]
  /\ agentOf \in [Conn -> Agent \cup {None}]
  /\ closed \in SUBSET Conn
  /\ tokens \in [Conn -> 0..Burst]
  /\ job \in [Conn -> Message \cup {None}]
  /\ target \in [Conn -> Conn \cup {None}]
  /\ listed \in SUBSET Conn
  /\ contacts \in SUBSET (Agent \X Agent)
  /\ push \in [Pusher -> [to : Agent, target : Conn] \cup {None}]
  /\ bcast \in (SUBSET Agent) \cup {None}

Init ==
  /\ conns = [a \in Agent |-> None]
  /\ pc = [c \in Conn |-> "idle"]
  /\ agentOf = [c \in Conn |-> None]
  /\ closed = {}
  /\ tokens = [c \in Conn |-> Burst]
  /\ job = [c \in Conn |-> None]
  /\ target = [c \in Conn |-> None]
  /\ listed = {}
  /\ contacts \in SUBSET {p \in Agent \X Agent : p[1] # p[2]}
  /\ push = [p \in Pusher |-> None]
  /\ bcast = None

Goto(c, phase) == pc' = [pc EXCEPT ![c] = phase]

-----------------------------------------------------------------------------
(* HandleConnect, before the read loop.                                    *)

(* The limit check under RLock.  An agent that already has a connection    *)
(* may reconnect at the limit.                                             *)
LimitReached(a) ==
  /\ MaxConns > 0
  /\ conns[a] = None
  /\ Cardinality(Registered) >= MaxConns

CheckLimit(c, a) ==
  /\ pc[c] = "idle"
  /\ IF LimitReached(a)
     THEN Goto(c, "gone") /\ UNCHANGED agentOf
     ELSE Goto(c, "checked") /\ agentOf' = [agentOf EXCEPT ![c] = a]
  /\ UNCHANGED <<conns, closed, tokens, relay, contacts, sending>>

(* websocket.Accept: the upgrade succeeds or fails.                        *)
Accept(c) ==
  /\ pc[c] = "checked"
  /\ \/ Goto(c, "accepted") /\ UNCHANGED agentOf
     \/ Goto(c, "gone") /\ agentOf' = [agentOf EXCEPT ![c] = None]
  /\ UNCHANGED <<conns, closed, tokens, relay, contacts, sending>>

(* authenticateConn: the auth frame is good, or the connection is closed   *)
(* (timeout, malformed frame, other agent_id, stale timestamp, bad         *)
(* signature).                                                             *)
Authenticate(c) ==
  /\ AuthRequired
  /\ pc[c] = "accepted"
  /\ \/ /\ c \notin closed
        /\ Goto(c, "authenticated")
        /\ UNCHANGED <<agentOf, closed>>
     \/ /\ Goto(c, "gone")
        /\ agentOf' = [agentOf EXCEPT ![c] = None]
        /\ closed' = closed \cup {c}
  /\ UNCHANGED <<conns, tokens, relay, contacts, sending>>

(* Variant: the replaced connection stays open.                            *)
RegisterKeepingOld(c) ==
  /\ pc[c] = IF AuthRequired THEN "authenticated" ELSE "accepted"
  /\ LockFree
  /\ conns' = [conns EXCEPT ![agentOf[c]] = c]
  /\ Goto(c, "registered")
  /\ UNCHANGED <<agentOf, closed, tokens, relay, contacts, sending>>

(* Under h.mu.Lock(): close the agent's previous connection and replace it.*)
Register(c) ==
  /\ pc[c] = IF AuthRequired THEN "authenticated" ELSE "accepted"
  /\ LockFree
  /\ closed' = closed \cup ({conns[agentOf[c]]} \ {None})
  /\ conns' = [conns EXCEPT ![agentOf[c]] = c]
  /\ Goto(c, "registered")
  /\ UNCHANGED <<agentOf, tokens, relay, contacts, sending>>

(* Metrics, the TURN configuration message (write errors ignored), the     *)
(* deferred clean-up and the message limiter are set up; the loop starts.  *)
EnterReadLoop(c) ==
  /\ pc[c] = "registered"
  /\ Goto(c, "reading")
  /\ UNCHANGED <<conns, agentOf, closed, tokens, relay, contacts, sending>>

-----------------------------------------------------------------------------
(* The read loop.                                                          *)

(* Variant: the From field of the client's JSON is believed.               *)
ReadFrameAsClaimed(c, frame) ==
  /\ pc[c] = "reading"
  /\ c \notin closed
  /\ tokens[c] > 0
  /\ tokens' = [tokens EXCEPT ![c] = @ - 1]
  /\ job' = [job EXCEPT ![c] = frame]
  /\ Goto(c, "gate")
  /\ UNCHANGED <<conns, agentOf, closed, target, listed, contacts, sending>>

(* A frame is read while the limiter has a token.  The From field of the   *)
(* client's JSON is overwritten with the connection's agent.               *)
ReadFrame(c, frame) ==
  /\ pc[c] = "reading"
  /\ c \notin closed
  /\ tokens[c] > 0
  /\ tokens' = [tokens EXCEPT ![c] = @ - 1]
  /\ job' = [job EXCEPT ![c] = [frame EXCEPT !.from = agentOf[c]]]
  /\ listed' = IF <<frame.to, agentOf[c]>> \in contacts
               THEN listed \cup {c} ELSE listed \ {c}
  /\ Goto(c, "gate")
  /\ UNCHANGED <<conns, agentOf, closed, target, contacts, sending>>

(* A frame that is not valid JSON costs a token and is skipped.            *)
ReadInvalidFrame(c) ==
  /\ pc[c] = "reading"
  /\ c \notin closed
  /\ tokens[c] > 0
  /\ tokens' = [tokens EXCEPT ![c] = @ - 1]
  /\ UNCHANGED <<conns, pc, agentOf, closed, relay, contacts, sending>>

(* Variant: the goroutine returns without its deferred clean-up.           *)
ReadTooFastNoCleanup(c) ==
  /\ pc[c] = "reading"
  /\ c \notin closed
  /\ tokens[c] = 0
  /\ closed' = closed \cup {c}
  /\ Goto(c, "gone")
  /\ UNCHANGED <<conns, agentOf, tokens, relay, contacts, sending>>

(* A frame beyond the limiter's budget closes the connection.              *)
ReadTooFast(c) ==
  /\ pc[c] = "reading"
  /\ c \notin closed
  /\ tokens[c] = 0
  /\ closed' = closed \cup {c}
  /\ Goto(c, "leaving")
  /\ UNCHANGED <<conns, agentOf, tokens, relay, contacts, sending>>

(* conn.Read on a closed connection returns an error.                      *)
ReadError(c) ==
  /\ pc[c] = "reading"
  /\ c \in closed
  /\ Goto(c, "leaving")
  /\ UNCHANGED <<conns, agentOf, closed, tokens, relay, contacts, sending>>

(* Variant: the bucket is not clamped to its burst.                        *)
RefillUncapped(c) ==
  /\ pc[c] = "reading"
  /\ tokens' = [tokens EXCEPT ![c] = @ + 1]
  /\ UNCHANGED <<conns, pc, agentOf, closed, relay, contacts, sending>>

(* Time passes: the bucket gains a token, up to the burst.                 *)
Refill(c) ==
  /\ pc[c] = "reading"
  /\ tokens[c] < Burst
  /\ tokens' = [tokens EXCEPT ![c] = @ + 1]
  /\ UNCHANGED <<conns, pc, agentOf, closed, relay, contacts, sending>>

-----------------------------------------------------------------------------
(* Forward, then DeliverLocal.                                             *)

GateAnswer(packet) ==
  [type |-> "signaling_error", from |-> "server", to |-> packet.from]

(* Variant: IsAllowed is asked with its two arguments swapped.             *)
GateSwapped(c) ==
  /\ pc[c] = "gate"
  /\ Goto(c, "lookup")
  /\ IF job[c].type \in SignalingType
        /\ <<job[c].from, job[c].to>> \notin contacts
     THEN job' = [job EXCEPT ![c] = GateAnswer(@)]
     ELSE UNCHANGED job
  /\ UNCHANGED <<conns, agentOf, closed, tokens, target, listed, contacts,
                 sending>>

(* The contact check of Forward: other types pass, a listed sender passes, *)
(* an unlisted one is answered with a signaling_error instead, and when    *)
(* the store fails the message is dropped.                                 *)
Gate(c) ==
  /\ pc[c] = "gate"
  /\ \/ /\ \/ job[c].type \notin SignalingType
           \/ <<job[c].to, job[c].from>> \in contacts
        /\ Goto(c, "lookup")
        /\ UNCHANGED job
     \/ /\ job[c].type \in SignalingType
        /\ <<job[c].to, job[c].from>> \notin contacts
        /\ Goto(c, "lookup")
        /\ job' = [job EXCEPT ![c] = GateAnswer(@)]
     \/ /\ job[c].type \in SignalingType
        /\ Goto(c, "reading")
        /\ job' = [job EXCEPT ![c] = None]
  /\ listed' = IF job'[c] = None THEN listed \ {c} ELSE listed
  /\ UNCHANGED <<conns, agentOf, closed, tokens, target, contacts, sending>>

(* DeliverLocal reads the map under RLock and releases the lock; a message *)
(* for an agent that is not connected is dropped.                          *)
Lookup(c) ==
  /\ pc[c] = "lookup"
  /\ IF conns[job[c].to] = None
     THEN /\ Goto(c, "reading")
          /\ job' = [job EXCEPT ![c] = None]
          /\ listed' = listed \ {c}
          /\ UNCHANGED target
     ELSE /\ Goto(c, "write")
          /\ target' = [target EXCEPT ![c] = conns[job[c].to]]
          /\ UNCHANGED <<job, listed>>
  /\ UNCHANGED <<conns, agentOf, closed, tokens, contacts, sending>>

(* conn.Write: it succeeds, or fails (the peer is gone, the connection     *)
(* closed) and the error is only logged.                                   *)
WriteTarget(c) ==
  /\ pc[c] = "write"
  /\ job' = [job EXCEPT ![c] = None]
  /\ target' = [target EXCEPT ![c] = None]
  /\ listed' = listed \ {c}
  /\ Goto(c, "reading")
  /\ UNCHANGED <<conns, agentOf, closed, tokens, contacts, sending>>

-----------------------------------------------------------------------------
(* The deferred clean-up of HandleConnect.                                 *)

(* Variant: the entry is deleted whichever connection it holds.            *)
UnregisterAny(c) ==
  /\ pc[c] = "leaving"
  /\ LockFree
  /\ conns' = [conns EXCEPT ![agentOf[c]] = None]
  /\ Goto(c, "closing")
  /\ UNCHANGED <<agentOf, closed, tokens, relay, contacts, sending>>

(* Under h.mu.Lock(): remove the entry only if it is still this connection.*)
Unregister(c) ==
  /\ pc[c] = "leaving"
  /\ LockFree
  /\ conns' = [conns EXCEPT ![agentOf[c]] = IF @ = c THEN None ELSE @]
  /\ Goto(c, "closing")
  /\ UNCHANGED <<agentOf, closed, tokens, relay, contacts, sending>>

Finish(c) ==
  /\ pc[c] = "closing"
  /\ closed' = closed \cup {c}
  /\ Goto(c, "gone")
  /\ agentOf' = [agentOf EXCEPT ![c] = None]
  /\ tokens' = [tokens EXCEPT ![c] = Burst]
  /\ UNCHANGED <<conns, relay, contacts, sending>>

-----------------------------------------------------------------------------
(* The server's own messages.                                              *)

(* PushNotification (and DeliverEnvelope, which differs in the type): look *)
(* up under RLock (no connection is an error of the caller), then write.   *)
PushLookup(p, a) ==
  /\ push[p] = None
  /\ conns[a] # None
  /\ push' = [push EXCEPT ![p] = [to |-> a, target |-> conns[a]]]
  /\ UNCHANGED <<conns, pc, agentOf, closed, tokens, relay, contacts, bcast>>

PushWrite(p) ==
  /\ push[p] # None
  /\ push' = [push EXCEPT ![p] = None]
  /\ UNCHANGED <<conns, pc, agentOf, closed, tokens, relay, contacts, bcast>>

(* BroadcastNotification writes to one connection after the other and      *)
(* holds the read lock throughout.                                         *)
BroadcastStart ==
  /\ bcast = None
  /\ bcast' = Registered
  /\ UNCHANGED <<conns, pc, agentOf, closed, tokens, relay, contacts, push>>

BroadcastWrite(a) ==
  /\ bcast # None
  /\ a \in bcast
  /\ bcast' = bcast \ {a}
  /\ UNCHANGED <<conns, pc, agentOf, closed, tokens, relay, contacts, push>>

(* Variant: RUnlock is forgotten.                                          *)
BroadcastEndLocked ==
  /\ bcast = {}
  /\ UNCHANGED vars

BroadcastEnd ==
  /\ bcast = {}
  /\ bcast' = None
  /\ UNCHANGED <<conns, pc, agentOf, closed, tokens, relay, contacts, push>>

(* CloseAll: under h.mu.Lock(), close and remove every connection.         *)
CloseAll ==
  /\ LockFree
  /\ Registered # {}
  /\ closed' = closed \cup {conns[a] : a \in Registered}
  /\ conns' = [a \in Agent |-> None]
  /\ UNCHANGED <<pc, agentOf, tokens, relay, contacts, sending>>

-----------------------------------------------------------------------------
(* The environment: clients hang up, contact lists change.                 *)

(* A client hangs up, the network drops the connection, or a write to it   *)
(* fails, which makes the WebSocket library close it.                      *)

ClientClose(c) ==
  /\ pc[c] \in {"accepted", "authenticated"} \cup Serving
  /\ c \notin closed
  /\ closed' = closed \cup {c}
  /\ UNCHANGED <<conns, pc, agentOf, tokens, relay, contacts, sending>>

(* contacts.Service.Add and Remove, called by other handlers.              *)
AddContact(owner, contact) ==
  /\ owner # contact
  /\ <<owner, contact>> \notin contacts
  /\ contacts' = contacts \cup {<<owner, contact>>}
  /\ listed' = listed \cup {c \in Conn : /\ job[c] # None
                                         /\ job[c].to = owner
                                         /\ job[c].from = contact}
  /\ UNCHANGED <<conns, pc, agentOf, closed, tokens, job, target, sending>>

RemoveContact(owner, contact) ==
  /\ <<owner, contact>> \in contacts
  /\ contacts' = contacts \ {<<owner, contact>>}
  /\ UNCHANGED <<conns, pc, agentOf, closed, tokens, relay, sending>>

-----------------------------------------------------------------------------
Handler(c) ==
  \/ \E a \in Agent : CheckLimit(c, a)
  \/ Accept(c)
  \/ Authenticate(c)
  \/ Register(c)
  \/ EnterReadLoop(c)
  \/ \E type \in FrameType, from, to \in Agent :
        ReadFrame(c, [type |-> type, from |-> from, to |-> to])
  \/ ReadInvalidFrame(c)
  \/ ReadTooFast(c)
  \/ ReadError(c)
  \/ Gate(c)
  \/ Lookup(c)
  \/ WriteTarget(c)
  \/ Unregister(c)
  \/ Finish(c)

Server ==
  \/ \E p \in Pusher : PushWrite(p) \/ \E a \in Agent : PushLookup(p, a)
  \/ BroadcastStart
  \/ \E a \in Agent : BroadcastWrite(a)
  \/ BroadcastEnd
  \/ CloseAll

Environment ==
  \/ \E c \in Conn : ClientClose(c) \/ Refill(c)
  \/ \E owner, contact \in Agent :
        AddContact(owner, contact) \/ RemoveContact(owner, contact)

Next == (\E c \in Conn : Handler(c)) \/ Server \/ Environment

Spec == Init /\ [][Next]_vars

(* What the goroutines of the hub do once they may: they are scheduled,    *)
(* and a write to a connection returns (the peer reads, or the write       *)
(* fails).  Clients and other handlers owe nothing.                        *)
HandlerStep(c) ==
  \/ EnterReadLoop(c) \/ ReadError(c) \/ Gate(c) \/ Lookup(c)
  \/ WriteTarget(c) \/ Unregister(c) \/ Finish(c)

Fairness ==
  /\ \A c \in Conn : WF_vars(HandlerStep(c)) /\ SF_vars(Unregister(c))
  /\ WF_vars((\E a \in Agent : BroadcastWrite(a)) \/ BroadcastEnd)

FairSpec == Spec /\ Fairness

-----------------------------------------------------------------------------
(* An entry of the map leads to a goroutine that is still serving that     *)
(* agent: no exit path of HandleConnect leaves an entry behind, so a       *)
(* look-up never finds a connection nobody will ever clean up.             *)
RegisteredIsServed ==
  \A a \in Agent : conns[a] # None =>
    /\ agentOf[conns[a]] = a
    /\ pc[conns[a]] \in Serving

(* A connection that is open and in its read loop is the one the map holds *)
(* for its agent: it can be reached, and no agent has two of them.  The    *)
(* comparison in the deferred clean-up and the close of the replaced       *)
(* connection both exist for this.                                         *)
OpenIsReachable ==
  \A c \in Conn : pc[c] \in Serving /\ c \notin closed => conns[agentOf[c]] = c

(* Whatever is about to be written goes to a connection of the addressee   *)
(* and names the true sender: the target was looked up before the lock was *)
(* released and may have been replaced since, but it is still a connection *)
(* of that agent, and a relayed frame carries the agent whose connection   *)
(* it was read from, whatever From it claimed.                             *)
AddressedWrites ==
  /\ \A c \in Conn : pc[c] = "write" =>
       /\ agentOf[target[c]] \in {job[c].to, None}
       /\ job[c].type \in FrameType => job[c].from = agentOf[c]
  /\ \A p \in Pusher : push[p] # None =>
       agentOf[push[p].target] \in {push[p].to, None}
  /\ bcast # None => bcast \subseteq Registered

(* An offer, answer or candidate is written to a client only if its        *)
(* contact list held the sender at some moment after the frame was read.   *)
(* The list may change while the message is in flight; a sender that was   *)
(* off the list all that time never gets through.                          *)
OnlyListedSignals ==
  \A c \in Conn :
    pc[c] = "write" /\ job[c].type \in SignalingType => c \in listed

(* The hub keeps the promise of ConnectionSlots: a slot changes hands in   *)
(* one step, the connection that lost it never gets it back, and a late    *)
(* clean-up never empties the slot of an open connection.                  *)
OpenConns == {c \in Conn : pc[c] \in Serving /\ c \notin closed}

SpentConns ==
  {c \in Conn : pc[c] \in Serving \cup {"closing", "gone"}}

Slots == INSTANCE ConnectionSlots
           WITH holder <- conns, open <- OpenConns, spent <- SpentConns

ImplementsSlots == Slots!SlotSpec

(* Every goroutine whose connection was closed, by the client, by its      *)
(* replacement, by the limiter or by CloseAll, runs its clean-up and ends. *)
ClosedHandlersEnd ==
  \A c \in Conn : (pc[c] \in Serving /\ c \in closed) ~> pc[c] = "gone"

(* ws.go says that maxConns limits the total number of connections.        *)
WithinConnectionLimit ==
  MaxConns > 0 => Cardinality(Registered) <= MaxConns
=============================================================================
