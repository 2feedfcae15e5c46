------------------------ MODULE SignalingHubProofs ------------------------
(***************************************************************************)
(* Safety of the signaling hub for any agents, connections, pushers and    *)
(* limits: the invariant IInv is inductive, it implies every invariant the *)
(* model checker verifies, and under it each step is a step of             *)
(* ConnectionSlots or leaves its variables alone.                          *)
(***************************************************************************)
EXTENDS SignalingHub, TLAPS

(* The sessions: a goroutine knows its agent exactly while it runs, it     *)
(* cleans up only after its connection is closed, and the map and the      *)
(* goroutines agree.                                                       *)
SessionInv ==
  /\ \A c \in Conn :
       /\ pc[c] \notin {"idle", "gone"} => agentOf[c] \in Agent
       /\ pc[c] \in {"idle", "gone"} => agentOf[c] = None
       /\ pc[c] \in {"leaving", "closing"} => c \in closed
  /\ RegisteredIsServed
  /\ OpenIsReachable

(* The relay of one frame: what each stage knows about the message.        *)
RelayInv ==
  \A c \in Conn :
    /\ pc[c] \in {"gate", "lookup", "write"} =>
         /\ job[c] \in Message
         /\ job[c].type \in FrameType => job[c].from = agentOf[c]
    /\ pc[c] = "gate" =>
         /\ job[c].from \in Agent
         /\ <<job[c].to, job[c].from>> \in contacts => c \in listed
    /\ pc[c] \in {"lookup", "write"} /\ job[c].type \in SignalingType =>
         c \in listed
    /\ pc[c] = "write" => target[c] \in Conn

(* A connection that was looked up had been registered, so its goroutine   *)
(* will not choose an agent again.                                         *)
TargetInv ==
  /\ \A c \in Conn : pc[c] = "write" => target[c] \in SpentConns
  /\ \A p \in Pusher : push[p] # None => push[p].target \in SpentConns
  /\ AddressedWrites

IInv == TypeOK /\ SessionInv /\ RelayInv /\ TargetInv

-----------------------------------------------------------------------------
(* The hub starts with an empty map and no goroutine: IInv holds.          *)
LEMMA InitInv == Init => IInv
  BY HubConstants
  DEF Init, IInv, TypeOK, SessionInv, RelayInv, TargetInv, AddressedWrites,
      RegisteredIsServed, OpenIsReachable, Registered, Serving, Phase,
      SpentConns

(* Every step of a goroutine, of the server or of a client preserves IInv. *)
LEMMA StepInv == ASSUME IInv, [Next]_vars PROVE IInv'
<1>. USE HubConstants, NoneIsNoMessage
     DEF IInv, TypeOK, Serving, Phase, SpentConns, relay, sending
(* Before registration.                                                    *)
<1>1. ASSUME NEW c \in Conn, NEW a \in Agent, CheckLimit(c, a)
      PROVE  IInv'
  <2>1. TypeOK'
    BY <1>1 DEF CheckLimit, LimitReached, Goto
  <2>2. SessionInv'
    BY <1>1
    DEF CheckLimit, LimitReached, Goto, SessionInv, RegisteredIsServed,
        OpenIsReachable
  <2>3. RelayInv'
    BY <1>1 DEF CheckLimit, LimitReached, Goto, RelayInv
  <2>4. TargetInv'
    <3>1. \A d \in Conn : pc[d] = "write" => target[d] # c
      BY <1>1 DEF CheckLimit, LimitReached, Goto, TargetInv, RelayInv
    <3>2. \A p \in Pusher :
            push[p] # None => push[p].target # c
      BY <1>1 DEF CheckLimit, LimitReached, Goto, TargetInv, RelayInv
    <3>3. AddressedWrites'
      BY <1>1, <3>1, <3>2
      DEF CheckLimit, LimitReached, Goto, TargetInv, AddressedWrites,
          RelayInv, Registered
    <3>. QED
      BY <1>1, <3>1, <3>2, <3>3 DEF TargetInv, CheckLimit, LimitReached, Goto
  <2>. QED
    BY <2>1, <2>2, <2>3, <2>4
<1>2. ASSUME NEW c \in Conn, Accept(c)
      PROVE  IInv'
  <2>1. TypeOK'
    BY <1>2 DEF Accept, Goto
  <2>2. SessionInv'
    BY <1>2 DEF Accept, Goto, SessionInv, RegisteredIsServed, OpenIsReachable
  <2>3. RelayInv'
    BY <1>2 DEF Accept, Goto, RelayInv
  <2>4. TargetInv'
    <3>1. \A d \in Conn : pc[d] = "write" => target[d] # c
      BY <1>2 DEF Accept, Goto, TargetInv, RelayInv
    <3>2. \A p \in Pusher :
            push[p] # None => push[p].target # c
      BY <1>2 DEF Accept, Goto, TargetInv, RelayInv
    <3>3. AddressedWrites'
      BY <1>2, <3>1, <3>2
      DEF Accept, Goto, TargetInv, AddressedWrites, RelayInv, Registered
    <3>. QED
      BY <1>2, <3>1, <3>2, <3>3 DEF TargetInv, Accept, Goto
  <2>. QED
    BY <2>1, <2>2, <2>3, <2>4
<1>3. ASSUME NEW c \in Conn, Authenticate(c)
      PROVE  IInv'
  <2>1. TypeOK'
    BY <1>3 DEF Authenticate, Goto
  <2>2. SessionInv'
    BY <1>3
    DEF Authenticate, Goto, SessionInv, RegisteredIsServed, OpenIsReachable
  <2>3. RelayInv'
    BY <1>3 DEF Authenticate, Goto, RelayInv
  <2>4. TargetInv'
    <3>1. \A d \in Conn : pc[d] = "write" => target[d] # c
      BY <1>3 DEF Authenticate, Goto, TargetInv, RelayInv
    <3>2. \A p \in Pusher :
            push[p] # None => push[p].target # c
      BY <1>3 DEF Authenticate, Goto, TargetInv, RelayInv
    <3>3. AddressedWrites'
      BY <1>3, <3>1, <3>2
      DEF Authenticate, Goto, TargetInv, AddressedWrites, RelayInv, Registered
    <3>. QED
      BY <1>3, <3>1, <3>2, <3>3 DEF TargetInv, Authenticate, Goto
  <2>. QED
    BY <2>1, <2>2, <2>3, <2>4
<1>4. ASSUME NEW c \in Conn, Register(c)
      PROVE  IInv'
  <2>1. TypeOK'
    BY <1>4 DEF Register, Goto, SessionInv
  <2>2. SessionInv'
    BY <1>4 DEF Register, Goto, SessionInv, RegisteredIsServed, OpenIsReachable
  <2>3. RelayInv'
    BY <1>4 DEF Register, Goto, RelayInv
  <2>4. TargetInv'
    BY <1>4
    DEF Register, Goto, TargetInv, AddressedWrites, RelayInv, SessionInv,
        Registered, LockFree
  <2>. QED
    BY <2>1, <2>2, <2>3, <2>4
<1>5. ASSUME NEW c \in Conn, EnterReadLoop(c)
      PROVE  IInv'
  BY <1>5
  DEF EnterReadLoop, Goto, SessionInv, RegisteredIsServed, OpenIsReachable,
      RelayInv, TargetInv, AddressedWrites, Registered, Message
(* The read loop and the relay.                                            *)
<1>6. ASSUME NEW c \in Conn, NEW frame \in Message, ReadFrame(c, frame)
      PROVE  IInv'
  <2>1. TypeOK'
    BY <1>6 DEF ReadFrame, Goto, SessionInv, Message
  <2>2. SessionInv'
    BY <1>6
    DEF ReadFrame, Goto, SessionInv, RegisteredIsServed, OpenIsReachable
  <2>3. RelayInv'
    BY <1>6 DEF ReadFrame, Goto, RelayInv, SessionInv, Message
  <2>4. TargetInv'
    BY <1>6
    DEF ReadFrame, Goto, TargetInv, AddressedWrites, RelayInv, Registered
  <2>. QED
    BY <2>1, <2>2, <2>3, <2>4
<1>7. ASSUME NEW c \in Conn, ReadInvalidFrame(c)
      PROVE  IInv'
  BY <1>7
  DEF ReadInvalidFrame, SessionInv, RegisteredIsServed, OpenIsReachable,
      RelayInv, TargetInv, AddressedWrites, Registered, Message
<1>8. ASSUME NEW c \in Conn, ReadTooFast(c)
      PROVE  IInv'
  <2>1. TypeOK'
    BY <1>8 DEF ReadTooFast, Goto
  <2>2. SessionInv'
    BY <1>8
    DEF ReadTooFast, Goto, SessionInv, RegisteredIsServed, OpenIsReachable
  <2>3. RelayInv'
    BY <1>8 DEF ReadTooFast, Goto, RelayInv
  <2>4. TargetInv'
    BY <1>8
    DEF ReadTooFast, Goto, TargetInv, AddressedWrites, RelayInv, Registered
  <2>. QED
    BY <2>1, <2>2, <2>3, <2>4
<1>9. ASSUME NEW c \in Conn, ReadError(c)
      PROVE  IInv'
  BY <1>9
  DEF ReadError, Goto, SessionInv, RegisteredIsServed, OpenIsReachable,
      RelayInv, TargetInv, AddressedWrites, Registered, Message
<1>10. ASSUME NEW c \in Conn, Gate(c)
      PROVE  IInv'
  <2>1. TypeOK'
    BY <1>10 DEF Gate, GateAnswer, Goto, RelayInv, Message
  <2>2. SessionInv'
    BY <1>10
    DEF Gate, GateAnswer, Goto, SessionInv, RegisteredIsServed,
        OpenIsReachable
  <2>3. RelayInv'
    BY <1>10
    DEF Gate, GateAnswer, Goto, RelayInv, SessionInv, SignalingType, Message
  <2>4. TargetInv'
    <3>1. \A d \in Conn : pc'[d] = "write" => target'[d] \in SpentConns'
      BY <1>10 DEF Gate, GateAnswer, Goto, TargetInv, RelayInv
    <3>2. \A d \in Conn : pc'[d] = "write" =>
            agentOf[target'[d]] \in {job'[d].to, None}
      BY <1>10 DEF Gate, GateAnswer, Goto, AddressedWrites, TargetInv, RelayInv
    <3>. QED
      BY <1>10, <2>3, <3>1, <3>2
      DEF Gate, GateAnswer, Goto, TargetInv, AddressedWrites, RelayInv,
          Registered
  <2>. QED
    BY <2>1, <2>2, <2>3, <2>4
<1>11. ASSUME NEW c \in Conn, Lookup(c)
      PROVE  IInv'
  <2>1. PICK a \in Agent : a = job[c].to
    BY <1>11 DEF Lookup, RelayInv, Message
  <2>2. CASE conns[a] = None
    <3>1. /\ pc' = [pc EXCEPT ![c] = "reading"]
          /\ job' = [job EXCEPT ![c] = None]
          /\ listed' = listed \ {c}
          /\ UNCHANGED <<conns, agentOf, closed, tokens, target, contacts,
                         push, bcast>>
      BY <1>11, <2>1, <2>2 DEF Lookup, Goto
    <3>2. TypeOK' /\ SessionInv'
      BY <1>11, <3>1 DEF Lookup, SessionInv, RegisteredIsServed,
         OpenIsReachable
    <3>3. RelayInv'
      BY <3>1 DEF RelayInv
    <3>4. TargetInv'
      BY <1>11, <3>1 DEF Lookup, TargetInv, AddressedWrites, RelayInv,
         Registered
    <3>. QED
      BY <3>2, <3>3, <3>4
  <2>3. CASE conns[a] # None
    <3>1. /\ pc' = [pc EXCEPT ![c] = "write"]
          /\ target' = [target EXCEPT ![c] = conns[a]]
          /\ UNCHANGED <<conns, agentOf, closed, tokens, job, listed,
                         contacts, push, bcast>>
      BY <1>11, <2>1, <2>3 DEF Lookup, Goto
    <3>2. conns[a] \in Conn /\ conns[a] \in SpentConns /\ agentOf[conns[a]] = a
      BY <2>3 DEF SessionInv, RegisteredIsServed
    <3>3. TypeOK' /\ SessionInv'
      BY <1>11, <3>1, <3>2 DEF Lookup, SessionInv, RegisteredIsServed,
         OpenIsReachable
    <3>4. RelayInv'
      BY <1>11, <3>1, <3>2 DEF Lookup, RelayInv
    <3>5. TargetInv'
      <4>1. ASSUME NEW d \in Conn, pc'[d] = "write"
            PROVE  /\ target'[d] \in SpentConns'
                   /\ agentOf'[target'[d]] \in {job'[d].to, None}
                   /\ job'[d].type \in FrameType => job'[d].from = agentOf'[d]
        <5>1. CASE d = c
          BY <1>11, <2>1, <3>1, <3>2, <5>1 DEF Lookup, RelayInv
        <5>2. CASE d # c
          BY <3>1, <4>1, <5>2 DEF TargetInv, AddressedWrites, RelayInv
        <5>. QED
          BY <5>1, <5>2
      <4>2. \A p \in Pusher : push'[p] # None =>
              /\ push'[p].target \in SpentConns'
              /\ agentOf'[push'[p].target] \in {push'[p].to, None}
        BY <1>11, <3>1 DEF Lookup, TargetInv, AddressedWrites
      <4>3. bcast' # None => bcast' \subseteq Registered'
        BY <3>1 DEF TargetInv, AddressedWrites, Registered
      <4>. QED
        BY <4>1, <4>2, <4>3 DEF TargetInv, AddressedWrites
    <3>. QED
      BY <3>3, <3>4, <3>5
  <2>. QED
    BY <2>2, <2>3
<1>12. ASSUME NEW c \in Conn, WriteTarget(c)
      PROVE  IInv'
  <2>1. TypeOK'
    BY <1>12 DEF WriteTarget, Goto
  <2>2. SessionInv'
    BY <1>12
    DEF WriteTarget, Goto, SessionInv, RegisteredIsServed, OpenIsReachable
  <2>3. RelayInv'
    BY <1>12 DEF WriteTarget, Goto, RelayInv
  <2>4. TargetInv'
    BY <1>12
    DEF WriteTarget, Goto, TargetInv, AddressedWrites, RelayInv, Registered
  <2>. QED
    BY <2>1, <2>2, <2>3, <2>4
(* The deferred clean-up.                                                  *)
<1>13. ASSUME NEW c \in Conn, Unregister(c)
      PROVE  IInv'
  <2>1. TypeOK'
    BY <1>13 DEF Unregister, Goto
  <2>2. SessionInv'
    BY <1>13
    DEF Unregister, Goto, SessionInv, RegisteredIsServed, OpenIsReachable
  <2>3. RelayInv'
    BY <1>13 DEF Unregister, Goto, RelayInv
  <2>4. TargetInv'
    BY <1>13
    DEF Unregister, Goto, TargetInv, AddressedWrites, RelayInv, SessionInv,
        Registered, LockFree
  <2>. QED
    BY <2>1, <2>2, <2>3, <2>4
<1>14. ASSUME NEW c \in Conn, Finish(c)
      PROVE  IInv'
  <2>1. TypeOK'
    BY <1>14 DEF Finish, Goto
  <2>2. SessionInv'
    BY <1>14 DEF Finish, Goto, SessionInv, RegisteredIsServed, OpenIsReachable
  <2>3. RelayInv'
    BY <1>14 DEF Finish, Goto, RelayInv
  <2>4. TargetInv'
    BY <1>14 DEF Finish, Goto, TargetInv, AddressedWrites, RelayInv, Registered
  <2>. QED
    BY <2>1, <2>2, <2>3, <2>4
(* The server's own messages.                                              *)
<1>15. ASSUME NEW p \in Pusher, PushWrite(p)
      PROVE  IInv'
  BY <1>15
  DEF PushWrite, SessionInv, RegisteredIsServed, OpenIsReachable, RelayInv,
      TargetInv, AddressedWrites, Registered, Message
<1>16. ASSUME NEW p \in Pusher, NEW a \in Agent, PushLookup(p, a)
      PROVE  IInv'
  <2>1. TypeOK'
    BY <1>16 DEF PushLookup
  <2>2. SessionInv'
    BY <1>16 DEF PushLookup, SessionInv, RegisteredIsServed, OpenIsReachable
  <2>3. RelayInv'
    BY <1>16 DEF PushLookup, RelayInv
  <2>4. TargetInv'
    BY <1>16
    DEF PushLookup, TargetInv, AddressedWrites, RelayInv, SessionInv,
        RegisteredIsServed, Registered
  <2>. QED
    BY <2>1, <2>2, <2>3, <2>4
<1>17. ASSUME BroadcastStart
      PROVE  IInv'
  BY <1>17
  DEF BroadcastStart, SessionInv, RegisteredIsServed, OpenIsReachable,
      RelayInv, TargetInv, AddressedWrites, Registered, Message
<1>18. ASSUME NEW a \in Agent, BroadcastWrite(a)
      PROVE  IInv'
  BY <1>18
  DEF BroadcastWrite, SessionInv, RegisteredIsServed, OpenIsReachable,
      RelayInv, TargetInv, AddressedWrites, Registered, Message
<1>19. ASSUME BroadcastEnd
      PROVE  IInv'
  BY <1>19
  DEF BroadcastEnd, SessionInv, RegisteredIsServed, OpenIsReachable, RelayInv,
      TargetInv, AddressedWrites, Registered, Message
<1>20. ASSUME CloseAll
      PROVE  IInv'
  <2>1. TypeOK'
    BY <1>20 DEF CloseAll, Registered
  <2>2. SessionInv'
    BY <1>20
    DEF CloseAll, SessionInv, RegisteredIsServed, OpenIsReachable, Registered
  <2>3. RelayInv'
    BY <1>20 DEF CloseAll, RelayInv
  <2>4. TargetInv'
    BY <1>20 DEF CloseAll, TargetInv, AddressedWrites, RelayInv, LockFree
  <2>. QED
    BY <2>1, <2>2, <2>3, <2>4
(* The environment.                                                        *)
<1>21. ASSUME NEW c \in Conn, ClientClose(c)
      PROVE  IInv'
  <2>1. TypeOK'
    BY <1>21 DEF ClientClose
  <2>2. SessionInv'
    BY <1>21 DEF ClientClose, SessionInv, RegisteredIsServed, OpenIsReachable
  <2>3. RelayInv'
    BY <1>21 DEF ClientClose, RelayInv
  <2>4. TargetInv'
    BY <1>21 DEF ClientClose, TargetInv, AddressedWrites, RelayInv, Registered
  <2>. QED
    BY <2>1, <2>2, <2>3, <2>4
<1>22. ASSUME NEW c \in Conn, Refill(c)
      PROVE  IInv'
  BY <1>22
  DEF Refill, SessionInv, RegisteredIsServed, OpenIsReachable, RelayInv,
      TargetInv, AddressedWrites, Registered, Message
<1>23. ASSUME NEW a \in Agent, NEW b \in Agent, AddContact(a, b)
      PROVE  IInv'
  <2>1. TypeOK'
    BY <1>23 DEF AddContact
  <2>2. SessionInv'
    BY <1>23 DEF AddContact, SessionInv, RegisteredIsServed, OpenIsReachable
  <2>3. RelayInv'
    BY <1>23 DEF AddContact, RelayInv
  <2>4. TargetInv'
    BY <1>23 DEF AddContact, TargetInv, AddressedWrites, RelayInv, Registered
  <2>. QED
    BY <2>1, <2>2, <2>3, <2>4
<1>24. ASSUME NEW a \in Agent, NEW b \in Agent, RemoveContact(a, b)
      PROVE  IInv'
  BY <1>24
  DEF RemoveContact, SessionInv, RegisteredIsServed, OpenIsReachable,
      RelayInv, TargetInv, AddressedWrites, Registered, Message
<1>25. CASE UNCHANGED vars
  BY <1>25 DEF vars, SessionInv, RelayInv, TargetInv, RegisteredIsServed,
     OpenIsReachable, AddressedWrites, Registered
<1>. HIDE DEF IInv, TypeOK
<1>. QED
  BY <1>1, <1>2, <1>3, <1>4, <1>5, <1>6, <1>7, <1>8, <1>9, <1>10, <1>11, <1>12,
     <1>13, <1>14, <1>15, <1>16, <1>17, <1>18, <1>19, <1>20, <1>21, <1>22,
     <1>23, <1>24, <1>25
  DEF Next, Handler, Server, Environment, Message

(* IInv holds in every reachable state of the hub.                         *)
THEOREM Inductive == Spec => []IInv
  BY InitInv, StepInv, PTL DEF Spec

(* Every variable of the hub keeps to its type, whatever the interleaving. *)
THEOREM TypeCorrect == Spec => []TypeOK
<1>1. IInv => TypeOK
  BY DEF IInv
<1>. QED
  BY <1>1, Inductive, PTL

(* Hub.conns holds only connections of goroutines that still serve the     *)
(* agent: no exit path of HandleConnect leaves an entry behind.            *)
THEOREM Served == Spec => []RegisteredIsServed
<1>1. IInv => RegisteredIsServed
  BY DEF IInv, SessionInv
<1>. QED
  BY <1>1, Inductive, PTL

(* The connection of a goroutine in its loop is the one Hub.conns holds,   *)
(* or it is closed: an agent has one reachable connection.                 *)
THEOREM Reachable == Spec => []OpenIsReachable
<1>1. IInv => OpenIsReachable
  BY DEF IInv, SessionInv
<1>. QED
  BY <1>1, Inductive, PTL

(* What DeliverLocal, PushNotification and BroadcastNotification write     *)
(* goes to a connection of the addressee and names the true sender,        *)
(* although the lock is released between look-up and write.                *)
THEOREM Addressed == Spec => []AddressedWrites
<1>1. IInv => AddressedWrites
  BY DEF IInv, TargetInv
<1>. QED
  BY <1>1, Inductive, PTL

(* Forward lets no offer, answer or candidate through to an agent that     *)
(* did not list the sender at some moment after the frame was read.        *)
THEOREM Vetted == Spec => []OnlyListedSignals
<1>1. IInv => OnlyListedSignals
  BY DEF IInv, RelayInv, OnlyListedSignals
<1>. QED
  BY <1>1, Inductive, PTL

-----------------------------------------------------------------------------
(* Refinement: what a step of the hub does to the slots.                   *)

(* The map, the open connections and the spent ones start empty.           *)
LEMMA SlotStart == Init => Slots!SlotInit
  BY DEF Init, Slots!SlotInit, OpenConns, SpentConns, Serving

(* Registration takes a slot, the deferred clean-up vacates it, and every  *)
(* other step closes or refuses a connection or leaves the slots alone.    *)
LEMMA SlotStep == ASSUME IInv, [Next]_vars PROVE [Slots!SlotNext]_Slots!svars
<1>. USE HubConstants, NoneIsNoMessage
     DEF IInv, TypeOK, Serving, Phase, relay, sending, OpenConns, SpentConns
<1>1. ASSUME NEW c \in Conn, NEW a \in Agent, CheckLimit(c, a)
      PROVE  [Slots!SlotNext]_Slots!svars
  <2>1. CASE pc'[c] = "gone"
    <3>1. Slots!Refuse(c)
      BY <1>1, <2>1
      DEF CheckLimit, LimitReached, Goto, Slots!Refuse, SessionInv,
          RegisteredIsServed
    <3>. QED
      BY <3>1 DEF Slots!SlotNext
  <2>2. CASE pc'[c] # "gone"
    BY <1>1, <2>2
    DEF CheckLimit, LimitReached, Goto, Slots!svars, SessionInv,
        RegisteredIsServed
  <2>. QED
    BY <2>1, <2>2
<1>2. ASSUME NEW c \in Conn, Accept(c)
      PROVE  [Slots!SlotNext]_Slots!svars
  <2>1. CASE pc'[c] = "gone"
    <3>1. Slots!Refuse(c)
      BY <1>2, <2>1
      DEF Accept, Goto, Slots!Refuse, SessionInv, RegisteredIsServed
    <3>. QED
      BY <3>1 DEF Slots!SlotNext
  <2>2. CASE pc'[c] # "gone"
    BY <1>2, <2>2 DEF Accept, Goto, Slots!svars, SessionInv, RegisteredIsServed
  <2>. QED
    BY <2>1, <2>2
<1>3. ASSUME NEW c \in Conn, Authenticate(c)
      PROVE  [Slots!SlotNext]_Slots!svars
  <2>1. CASE pc'[c] = "gone"
    <3>1. Slots!Refuse(c)
      BY <1>3, <2>1
      DEF Authenticate, Goto, Slots!Refuse, SessionInv, RegisteredIsServed
    <3>. QED
      BY <3>1 DEF Slots!SlotNext
  <2>2. CASE pc'[c] # "gone"
    BY <1>3, <2>2
    DEF Authenticate, Goto, Slots!svars, SessionInv, RegisteredIsServed
  <2>. QED
    BY <2>1, <2>2
<1>4. ASSUME NEW c \in Conn, Register(c)
      PROVE  [Slots!SlotNext]_Slots!svars
  <2>1. Slots!Take(agentOf[c], c)
    BY <1>4
    DEF Register, Goto, Slots!Take, SessionInv, RegisteredIsServed,
        OpenIsReachable, Registered
  <2>. QED
    BY <1>4, <2>1 DEF Slots!SlotNext, Register, Goto, SessionInv
<1>5. ASSUME NEW c \in Conn, EnterReadLoop(c)
      PROVE  [Slots!SlotNext]_Slots!svars
  BY <1>5 DEF EnterReadLoop, Goto, Slots!svars
<1>6. ASSUME NEW c \in Conn, NEW frame \in Message, ReadFrame(c, frame)
      PROVE  [Slots!SlotNext]_Slots!svars
  BY <1>6 DEF ReadFrame, Goto, Slots!svars
<1>7. ASSUME NEW c \in Conn, ReadInvalidFrame(c)
      PROVE  [Slots!SlotNext]_Slots!svars
  BY <1>7 DEF ReadInvalidFrame, Slots!svars
<1>8. ASSUME NEW c \in Conn, ReadTooFast(c)
      PROVE  [Slots!SlotNext]_Slots!svars
  <2>1. Slots!Close(c)
    BY <1>8
    DEF ReadTooFast, Goto, Slots!Close, SessionInv, RegisteredIsServed,
        OpenIsReachable, Registered
  <2>. QED
    BY <1>8, <2>1 DEF Slots!SlotNext, ReadTooFast, Goto, SessionInv
<1>9. ASSUME NEW c \in Conn, ReadError(c)
      PROVE  [Slots!SlotNext]_Slots!svars
  BY <1>9 DEF ReadError, Goto, Slots!svars
<1>10. ASSUME NEW c \in Conn, Gate(c)
      PROVE  [Slots!SlotNext]_Slots!svars
  BY <1>10 DEF Gate, GateAnswer, Goto, Slots!svars
<1>11. ASSUME NEW c \in Conn, Lookup(c)
      PROVE  [Slots!SlotNext]_Slots!svars
  BY <1>11 DEF Lookup, Goto, Slots!svars
<1>12. ASSUME NEW c \in Conn, WriteTarget(c)
      PROVE  [Slots!SlotNext]_Slots!svars
  BY <1>12 DEF WriteTarget, Goto, Slots!svars
<1>13. ASSUME NEW c \in Conn, Unregister(c)
      PROVE  [Slots!SlotNext]_Slots!svars
  <2>1. CASE conns[agentOf[c]] = c
    <3>1. Slots!Vacate(agentOf[c])
      BY <1>13, <2>1 DEF Unregister, Goto, Slots!Vacate, SessionInv
    <3>. QED
      BY <1>13, <3>1 DEF Slots!SlotNext, Unregister, Goto, SessionInv
  <2>2. CASE conns[agentOf[c]] # c
    BY <1>13, <2>2 DEF Unregister, Goto, Slots!svars, SessionInv
  <2>. QED
    BY <2>1, <2>2
<1>14. ASSUME NEW c \in Conn, Finish(c)
      PROVE  [Slots!SlotNext]_Slots!svars
  BY <1>14 DEF Finish, Goto, Slots!svars
<1>15. ASSUME NEW p \in Pusher, PushWrite(p)
      PROVE  [Slots!SlotNext]_Slots!svars
  BY <1>15 DEF PushWrite, Slots!svars
<1>16. ASSUME NEW p \in Pusher, NEW a \in Agent, PushLookup(p, a)
      PROVE  [Slots!SlotNext]_Slots!svars
  BY <1>16 DEF PushLookup, Slots!svars
<1>17. ASSUME BroadcastStart
      PROVE  [Slots!SlotNext]_Slots!svars
  BY <1>17 DEF BroadcastStart, Slots!svars
<1>18. ASSUME NEW a \in Agent, BroadcastWrite(a)
      PROVE  [Slots!SlotNext]_Slots!svars
  BY <1>18 DEF BroadcastWrite, Slots!svars
<1>19. ASSUME BroadcastEnd
      PROVE  [Slots!SlotNext]_Slots!svars
  BY <1>19 DEF BroadcastEnd, Slots!svars
<1>20. ASSUME CloseAll
      PROVE  [Slots!SlotNext]_Slots!svars
  <2>1. Slots!Shutdown
    BY <1>20
    DEF CloseAll, Slots!Shutdown, SessionInv, RegisteredIsServed,
        OpenIsReachable, Registered
  <2>. QED
    BY <1>20, <2>1 DEF Slots!SlotNext, CloseAll, SessionInv
<1>21. ASSUME NEW c \in Conn, ClientClose(c)
      PROVE  [Slots!SlotNext]_Slots!svars
  <2>1. Slots!Close(c)
    BY <1>21
    DEF ClientClose, Slots!Close, SessionInv, RegisteredIsServed,
        OpenIsReachable, Registered
  <2>. QED
    BY <1>21, <2>1 DEF Slots!SlotNext, ClientClose, SessionInv
<1>22. ASSUME NEW c \in Conn, Refill(c)
      PROVE  [Slots!SlotNext]_Slots!svars
  BY <1>22 DEF Refill, Slots!svars
<1>23. ASSUME NEW a \in Agent, NEW b \in Agent, AddContact(a, b)
      PROVE  [Slots!SlotNext]_Slots!svars
  BY <1>23 DEF AddContact, Slots!svars
<1>24. ASSUME NEW a \in Agent, NEW b \in Agent, RemoveContact(a, b)
      PROVE  [Slots!SlotNext]_Slots!svars
  BY <1>24 DEF RemoveContact, Slots!svars
<1>25. CASE UNCHANGED vars
  BY <1>25 DEF vars, Slots!svars
<1>. HIDE DEF IInv, TypeOK, OpenConns, SpentConns
<1>. QED
  BY <1>1, <1>2, <1>3, <1>4, <1>5, <1>6, <1>7, <1>8, <1>9, <1>10, <1>11, <1>12,
     <1>13, <1>14, <1>15, <1>16, <1>17, <1>18, <1>19, <1>20, <1>21, <1>22,
     <1>23, <1>24, <1>25
  DEF Next, Handler, Server, Environment, Message

(* The hub implements ConnectionSlots: a slot changes hands in one step,   *)
(* a replaced connection never gets it back, and no clean-up empties the   *)
(* slot of an open connection.                                             *)
THEOREM Refinement == Spec => ImplementsSlots
  BY SlotStart, SlotStep, Inductive, PTL
  DEF Spec, ImplementsSlots, Slots!SlotSpec
=============================================================================
