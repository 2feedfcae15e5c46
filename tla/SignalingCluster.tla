--------------------------- MODULE SignalingCluster ---------------------------
(***************************************************************************)
(* Several server nodes that relay signaling messages to each other: the   *)
(* brokers behind Hub.Forward (internal/signaling/local_broker.go,         *)
(* redis_broker.go) and their choice at start-up (cmd/peerclawd/main.go).  *)
(*                                                                         *)
(* SignalingHub details one node; here a node's hub is reduced to the set  *)
(* of agents it holds a connection for, and DeliverLocal to one step.      *)
(* Redis and its client library are external: the library repeats a        *)
(* PUBLISH whose reply it did not get, and Redis hands what it accepts to  *)
(* each subscriber in that order, but may lose some of it.                 *)
(***************************************************************************)
EXTENDS Naturals, Sequences, FiniteSets, SequencesExt

CONSTANTS
  Node,     \* server processes
  Agent,    \* addressees
  Source,   \* HandleConnect goroutines, each forwarding one frame at a time
  Message,  \* messages that passed the contact check, each forwarded once
  MaxTries, \* PUBLISH commands the client library sends for one message
  None      \* "no message"

ASSUME NoneIsNoMessage == None \notin Message
ASSUME TriesBound == MaxTries \in Nat

VARIABLES
  broker,     \* what SetBroker gave a node's hub: "local" or "redis"
  homes,      \* nodes whose hub holds a connection for an agent
  queue,      \* envelopes Redis has not yet handed to a node's subscription
  node,       \* the node a goroutine runs on
  sending,    \* the message a goroutine is publishing to Redis, or None
  tries,      \* how many PUBLISH commands for it Redis has accepted
  published,  \* messages in the order they were forwarded
  envelope,   \* the goroutine and the addressee of a published message
  delivered,  \* history: what a node wrote to its agents, in order
  held,       \* history: pairs of a message and a node that its addressee has
              \* been connected to ever since the message was forwarded
  lost        \* history: pairs of a message and a node Redis did not bring
              \* it to

vars == <<broker, homes, queue, node, sending, tries, published, envelope,
          delivered, held, lost>>

publishing == <<node, sending, tries>>
log        == <<published, envelope>>

Envelope == [source : Source, to : Agent]
Sent     == ToSet(published)
Origin(m) == node[envelope[m].source]

TypeOK ==
  /\ broker \in [Node -> {"local", "redis"}]
  /\ homes \in [Agent -> SUBSET Node]
  /\ queue \in [Node -> Seq(Message)]
  /\ node \in [Source -> Node]
  /\ sending \in [Source -> Sent \cup {None}]
  /\ tries \in [Source -> 0..MaxTries]
  /\ published \in Seq(Message)
  /\ DOMAIN envelope = Sent
  /\ \A m \in Sent : envelope[m] \in Envelope
  /\ delivered \in [Node -> Seq(Message)]
  /\ held \in SUBSET (Sent \X Node)
  /\ lost \in SUBSET (Sent \X Node)

(* Each node tries Redis when it starts and falls back to a LocalBroker    *)
(* for good if the ping or the subscription fails.                         *)
Init ==
  /\ broker \in [Node -> {"local", "redis"}]
  /\ homes = [a \in Agent |-> {}]
  /\ queue = [n \in Node |-> <<>>]
  /\ node \in [Source -> Node]
  /\ sending = [s \in Source |-> None]
  /\ tries = [s \in Source |-> 0]
  /\ published = <<>>
  /\ envelope = <<>>
  /\ delivered = [n \in Node |-> <<>>]
  /\ held = {}
  /\ lost = {}

(* Variant: the broker's wrapper is written instead of the message in it.  *)
DeliverWrapped(n, m, a) ==
  delivered' = IF n \in homes[a]
               THEN [delivered EXCEPT ![n] = Append(@, [node |-> n, to |-> a])]
               ELSE delivered

(* Hub.DeliverLocal: a message for an agent without a connection on this   *)
(* node is dropped.                                                        *)
DeliverLocal(n, m, a) ==
  delivered' = IF n \in homes[a]
               THEN [delivered EXCEPT ![n] = Append(@, m)]
               ELSE delivered

-----------------------------------------------------------------------------
(* Hub.Forward, after the contact check.                                   *)
Forward(s, m, a) ==
  /\ sending[s] = None
  /\ m \notin Sent
  /\ published' = Append(published, m)
  /\ envelope' = [x \in Sent \cup {m} |->
                    IF x = m THEN [source |-> s, to |-> a] ELSE envelope[x]]
  /\ held' = held \cup ({m} \X homes[a])
  /\ UNCHANGED <<broker, homes, queue, node, tries, lost>>

ForwardLocal(s, m, a) ==
  /\ broker[node[s]] = "local"
  /\ Forward(s, m, a)
  /\ DeliverLocal(node[s], m, a)
  /\ UNCHANGED sending

(* RedisBroker.Publish, which returns when the client library does.        *)
ForwardRedis(s, m, a) ==
  /\ broker[node[s]] = "redis"
  /\ Forward(s, m, a)
  /\ sending' = [sending EXCEPT ![s] = m]
  /\ UNCHANGED delivered

(* A PUBLISH reaches Redis: the envelope goes to every subscriber, that of *)
(* the publishing node included.                                           *)
RedisPublish(s) ==
  /\ sending[s] # None
  /\ tries[s] < MaxTries
  /\ tries' = [tries EXCEPT ![s] = @ + 1]
  /\ queue' = [n \in Node |-> IF broker[n] = "redis"
                              THEN Append(queue[n], sending[s]) ELSE queue[n]]
  /\ UNCHANGED <<broker, homes, node, sending, log, delivered, held, lost>>

(* Publish returns; an error, also after an accepted PUBLISH whose reply   *)
(* was lost, is only logged.                                               *)
PublishReturn(s) ==
  /\ sending[s] # None
  /\ sending' = [sending EXCEPT ![s] = None]
  /\ tries' = [tries EXCEPT ![s] = 0]
  /\ lost' = IF tries[s] = 0 THEN lost \cup ({sending[s]} \X Node) ELSE lost
  /\ UNCHANGED <<broker, homes, queue, node, log, delivered, held>>

(* Variant: a goroutine per message, none waiting for the one before.      *)
ReceiveUnordered(n) ==
  /\ \E i \in DOMAIN queue[n] :
       LET m == queue[n][i] IN
       /\ queue' = [queue EXCEPT ![n] = RemoveAt(@, i)]
       /\ IF Origin(m) = n
          THEN UNCHANGED delivered
          ELSE DeliverLocal(n, m, envelope[m].to)
  /\ UNCHANGED <<broker, homes, publishing, log, held, lost>>

(* Variant: envelopes of other nodes are skipped and those of this node    *)
(* are delivered.                                                          *)
ReceiveOwn(n) ==
  /\ queue[n] # <<>>
  /\ queue' = [queue EXCEPT ![n] = Tail(@)]
  /\ LET m == Head(queue[n]) IN
     IF Origin(m) # n
     THEN UNCHANGED delivered
     ELSE DeliverLocal(n, m, envelope[m].to)
  /\ UNCHANGED <<broker, homes, publishing, log, held, lost>>

(* The goroutine of Subscribe takes one envelope after the other, skips    *)
(* those of its own node and delivers the rest before it takes the next.   *)
Receive(n) ==
  /\ queue[n] # <<>>
  /\ queue' = [queue EXCEPT ![n] = Tail(@)]
  /\ LET m == Head(queue[n]) IN
     IF Origin(m) = n
     THEN UNCHANGED delivered
     ELSE DeliverLocal(n, m, envelope[m].to)
  /\ UNCHANGED <<broker, homes, publishing, log, held, lost>>

(* Redis or the connection to it drops an envelope of a subscription.      *)
Lose(n) ==
  /\ queue[n] # <<>>
  /\ queue' = [queue EXCEPT ![n] = Tail(@)]
  /\ lost' = lost \cup {<<Head(queue[n]), n>>}
  /\ UNCHANGED <<broker, homes, publishing, log, delivered, held>>

(* An agent connects to a node, perhaps while another still holds an older *)
(* connection of it: a hub replaces connections of its own only.  (Such a  *)
(* replacement is a Disconnect and a Connect here.)                        *)
Connect(a, n) ==
  /\ n \notin homes[a]
  /\ homes' = [homes EXCEPT ![a] = @ \cup {n}]
  /\ UNCHANGED <<broker, queue, publishing, log, delivered, held, lost>>

Disconnect(a, n) ==
  /\ n \in homes[a]
  /\ homes' = [homes EXCEPT ![a] = @ \ {n}]
  /\ held' = {h \in held : ~(h[2] = n /\ envelope[h[1]].to = a)}
  /\ UNCHANGED <<broker, queue, publishing, log, delivered, lost>>

Next ==
  \/ \E s \in Source :
       \/ \E m \in Message, a \in Agent :
            ForwardLocal(s, m, a) \/ ForwardRedis(s, m, a)
       \/ RedisPublish(s)
       \/ PublishReturn(s)
  \/ \E n \in Node :
       \/ Receive(n)
       \/ Lose(n)
       \/ \E a \in Agent : Connect(a, n) \/ Disconnect(a, n)

Spec == Init /\ [][Next]_vars

-----------------------------------------------------------------------------
IsBefore(m1, m2) ==
  \E i, j \in DOMAIN published :
    i < j /\ published[i] = m1 /\ published[j] = m2

(* A node never writes an agent's message after a later one of the same    *)
(* connection: a candidate does not overtake the offer it belongs to,      *)
(* however the relays through Redis interleave with repeated PUBLISHes,    *)
(* losses and reconnections.  (A repeated PUBLISH may bring one twice.)    *)
DeliveredInOrder ==
  \A n \in Node : \A i, j \in DOMAIN delivered[n] :
    LET early == delivered[n][i]
        late  == delivered[n][j] IN
    i < j /\ envelope[early].source = envelope[late].source
      => ~IsBefore(late, early)

(* Across nodes nothing is dropped silently: when no envelope is in        *)
(* flight, a message that Redis did not lose has been written to its       *)
(* addressee by every other Redis node that it was, and stayed, connected  *)
(* to.                                                                     *)
Quiet ==
  /\ \A n \in Node : queue[n] = <<>>
  /\ \A s \in Source : sending[s] = None

RemoteAddresseeServed ==
  Quiet =>
    \A h \in held \ lost :
      LET m == h[1]
          n == h[2] IN
      /\ n # Origin(m)
      /\ broker[n] = "redis"
      /\ broker[Origin(m)] = "redis"
      => m \in ToSet(delivered[n])

(* Broker.Publish "sends a signal message for delivery": the same for an   *)
(* addressee connected to the node that forwards the message.              *)
LocalAddresseeServed ==
  Quiet =>
    \A h \in held \ lost :
      h[2] = Origin(h[1]) => h[1] \in ToSet(delivered[h[2]])
=============================================================================
