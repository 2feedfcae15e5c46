------------------------ MODULE SignalingClusterProofs ------------------------
(***************************************************************************)
(* Safety of the relay between server nodes, for any nodes, agents,        *)
(* connections, messages and number of repeated PUBLISHes: its types, the  *)
(* order in which a node writes the messages of a connection, and that     *)
(* nothing which Redis keeps is lost on the way to another node.           *)
(***************************************************************************)
EXTENDS SignalingCluster, SequenceTheorems, TLAPS

(* In the log p of messages with envelopes e: if x and y came from one     *)
(* goroutine, y was not forwarded before x.                                *)
Precedes(p, e, x, y) ==
  e[x].source = e[y].source =>
    ~\E i, j \in DOMAIN p : i < j /\ p[i] = y /\ p[j] = x

InOrder(x, y) == Precedes(published, envelope, x, y)

(* A node without Redis is sent nothing; what is under way was forwarded.  *)
Relayed ==
  /\ \A n \in Node : broker[n] = "local" => queue[n] = <<>>
  /\ \A n \in Node : ToSet(queue[n]) \subseteq Sent /\ ToSet(delivered[n]) \subseteq Sent

(* What a node wrote, then what waits for it, then what a goroutine is     *)
(* publishing: in the order of forwarding, for each goroutine.             *)
Ordered(n) ==
  /\ \A i, j \in DOMAIN queue[n] : i < j => InOrder(queue[n][i], queue[n][j])
  /\ \A i, j \in DOMAIN delivered[n] : i < j => InOrder(delivered[n][i], delivered[n][j])
  /\ \A x \in ToSet(delivered[n]), y \in ToSet(queue[n]) : InOrder(x, y)

Latest(s) ==
  sending[s] # None =>
    /\ envelope[sending[s]].source = s
    /\ \A x \in Sent : InOrder(x, sending[s])

OrderInv ==
  /\ Relayed
  /\ \A n \in Node : Ordered(n)
  /\ \A s \in Source : Latest(s)

(* A message for an addressee that stayed connected is on its way or has   *)
(* arrived.                                                                *)
OnItsWay(m, n) ==
  \/ m \in ToSet(delivered[n])
  \/ m \in ToSet(queue[n])
  \/ \E s \in Source : sending[s] = m /\ tries[s] = 0

FlowInv ==
  /\ \A s \in Source : sending[s] = None => tries[s] = 0
  /\ \A h \in held : h[2] \in homes[envelope[h[1]].to]
  /\ \A h \in held \ lost :
       /\ h[2] # Origin(h[1])
       /\ broker[h[2]] = "redis"
       /\ broker[Origin(h[1])] = "redis"
       => OnItsWay(h[1], h[2])

IInv == TypeOK /\ OrderInv /\ FlowInv

-----------------------------------------------------------------------------
(* Sequences as sets, and the two ways a queue or a log changes.           *)
LEMMA AppendFacts ==
  ASSUME NEW S, NEW q \in Seq(S), NEW e \in S
  PROVE  /\ Append(q, e) \in Seq(S)
         /\ DOMAIN q = 1..Len(q) /\ Len(q) \in Nat
         /\ DOMAIN Append(q, e) = 1..(Len(q) + 1)
         /\ \A i \in 1..Len(q) : Append(q, e)[i] = q[i]
         /\ Append(q, e)[Len(q) + 1] = e
         /\ ToSet(Append(q, e)) = ToSet(q) \cup {e}
<1>1. /\ Append(q, e) \in Seq(S)
      /\ Len(Append(q, e)) = Len(q) + 1
      /\ \A i \in 1..Len(q) : Append(q, e)[i] = q[i]
      /\ Append(q, e)[Len(q) + 1] = e
  BY AppendProperties
<1>2. /\ DOMAIN q = 1..Len(q) /\ Len(q) \in Nat
      /\ DOMAIN Append(q, e) = 1..(Len(q) + 1)
  BY <1>1, LenProperties
<1>3. ToSet(Append(q, e)) \subseteq ToSet(q) \cup {e}
  BY <1>1, <1>2 DEF ToSet
<1>4. \A i \in 1..Len(q) : q[i] \in ToSet(Append(q, e))
  <2>. TAKE i \in 1..Len(q)
  <2>1. i \in DOMAIN Append(q, e) /\ Append(q, e)[i] = q[i]
    BY <1>1, <1>2
  <2>. QED
    BY <2>1 DEF ToSet
<1>5. e \in ToSet(Append(q, e))
  <2>1. Len(q) + 1 \in DOMAIN Append(q, e)
    BY <1>2
  <2>. QED
    BY <1>1, <2>1 DEF ToSet
<1>6. ToSet(q) \cup {e} \subseteq ToSet(Append(q, e))
  BY <1>2, <1>4, <1>5 DEF ToSet
<1>. QED
  BY <1>1, <1>2, <1>3, <1>6

LEMMA TailFacts ==
  ASSUME NEW S, NEW q \in Seq(S), q # <<>>
  PROVE  /\ Head(q) \in S /\ Head(q) = q[1] /\ Tail(q) \in Seq(S)
         /\ DOMAIN q = 1..Len(q) /\ Len(q) \in Nat \ {0}
         /\ DOMAIN Tail(q) = 1..(Len(q) - 1)
         /\ \A i \in DOMAIN Tail(q) : Tail(q)[i] = q[i + 1] /\ i + 1 \in DOMAIN q
         /\ ToSet(q) = {Head(q)} \cup ToSet(Tail(q))
<1>1. /\ Head(q) \in S /\ Tail(q) \in Seq(S)
      /\ Len(Tail(q)) = Len(q) - 1
      /\ \A i \in 1..Len(Tail(q)) : Tail(q)[i] = q[i + 1]
  BY HeadTailProperties
<1>2. /\ DOMAIN q = 1..Len(q) /\ Len(q) \in Nat \ {0}
      /\ DOMAIN Tail(q) = 1..(Len(q) - 1)
  <2>1. Len(q) \in Nat /\ DOMAIN q = 1..Len(q)
    BY LenProperties
  <2>2. Len(q) # 0
    BY EmptySeq
  <2>3. DOMAIN Tail(q) = 1..Len(Tail(q))
    BY <1>1, LenProperties
  <2>. QED
    BY <1>1, <2>1, <2>2, <2>3
<1>3. Head(q) = q[1] /\ 1 \in DOMAIN q
  BY <1>2
<1>4. \A i \in DOMAIN Tail(q) : Tail(q)[i] = q[i + 1] /\ i + 1 \in DOMAIN q
  BY <1>1, <1>2
<1>5. {Head(q)} \cup ToSet(Tail(q)) \subseteq ToSet(q)
  BY <1>3, <1>4 DEF ToSet
<1>6. \A i \in DOMAIN q : q[i] \in {Head(q)} \cup ToSet(Tail(q))
  <2>. TAKE i \in DOMAIN q
  <2>1. CASE i = 1
    BY <1>3, <2>1
  <2>2. CASE i # 1
    <3>1. i - 1 \in DOMAIN Tail(q) /\ (i - 1) + 1 = i
      BY <1>2, <2>2
    <3>2. Tail(q)[i - 1] = q[i]
      BY <1>4, <3>1
    <3>. QED
      BY <3>1, <3>2 DEF ToSet
  <2>. QED
    BY <2>1, <2>2
<1>7. ToSet(q) \subseteq {Head(q)} \cup ToSet(Tail(q))
  BY <1>6 DEF ToSet
<1>. QED
  BY <1>1, <1>2, <1>3, <1>4, <1>5, <1>7

(* A message at the end of the log disturbs no order and comes last.       *)
LEMMA PrecedesAppend ==
  ASSUME NEW p \in Seq(Message), NEW m \in Message, m \notin ToSet(p),
         NEW e1, NEW e2, \A x \in ToSet(p) : e2[x] = e1[x]
  PROVE  /\ \A x, y \in ToSet(p) :
              Precedes(p, e1, x, y) => Precedes(Append(p, m), e2, x, y)
         /\ \A x \in ToSet(p) \cup {m} : Precedes(Append(p, m), e2, x, m)
<1>. DEFINE q == Append(p, m)
<1>1. /\ DOMAIN p = 1..Len(p) /\ Len(p) \in Nat
      /\ DOMAIN q = 1..(Len(p) + 1)
      /\ \A i \in 1..Len(p) : q[i] = p[i]
      /\ q[Len(p) + 1] = m
  BY AppendFacts
<1>2. \A i \in 1..Len(p) : p[i] \in ToSet(p)
  BY <1>1 DEF ToSet
<1>. HIDE DEF q
<1>3. ASSUME NEW x \in ToSet(p), NEW y \in ToSet(p), Precedes(p, e1, x, y)
      PROVE  Precedes(q, e2, x, y)
  <2>. SUFFICES ASSUME e2[x].source = e2[y].source,
                       NEW i \in DOMAIN q, NEW j \in DOMAIN q,
                       i < j, q[i] = y, q[j] = x
                PROVE  FALSE
    BY DEF Precedes
  <2>1. i \in 1..Len(p) /\ j \in 1..Len(p)
    BY <1>1
  <2>2. p[i] = y /\ p[j] = x
    BY <1>1, <2>1
  <2>. QED
    BY <1>1, <1>3, <2>1, <2>2 DEF Precedes
<1>4. ASSUME NEW x \in ToSet(p) \cup {m}
      PROVE  Precedes(q, e2, x, m)
  <2>. SUFFICES ASSUME NEW i \in DOMAIN q, NEW j \in DOMAIN q, i < j, q[i] = m
                PROVE  FALSE
    BY DEF Precedes
  <2>1. i \in 1..Len(p)
    BY <1>1
  <2>. QED
    BY <1>1, <1>2, <2>1
<1>. QED
  BY <1>3, <1>4 DEF q

-----------------------------------------------------------------------------
(* At the start nothing was forwarded.                                     *)
LEMMA InitInv == Init => IInv
<1>. SUFFICES ASSUME Init PROVE IInv
  OBVIOUS
<1>1. /\ Sent = {} /\ \A n \in Node : ToSet(queue[n]) = {} /\ ToSet(delivered[n]) = {}
      /\ \A n \in Node : DOMAIN queue[n] = {} /\ DOMAIN delivered[n] = {}
  BY DEF Init, Sent, ToSet
<1>2. TypeOK
  BY <1>1, TriesBound DEF Init, TypeOK
<1>3. OrderInv
  BY <1>1 DEF Init, OrderInv, Relayed, Ordered, Latest
<1>4. FlowInv
  BY DEF Init, FlowInv
<1>. QED
  BY <1>2, <1>3, <1>4 DEF IInv

(* What forwarding a message does to the log.                              *)
LEMMA ForwardFacts ==
  ASSUME TypeOK, NEW s \in Source, NEW m \in Message, NEW a \in Agent,
         Forward(s, m, a)
  PROVE  /\ m \notin Sent /\ Sent' = Sent \cup {m}
         /\ published' \in Seq(Message)
         /\ envelope'[m] = [source |-> s, to |-> a]
         /\ \A x \in Sent : envelope'[x] = envelope[x]
         /\ DOMAIN envelope' = Sent'
         /\ \A x, y \in Sent : InOrder(x, y) =>
              Precedes(published', envelope', x, y)
         /\ \A x \in Sent' : Precedes(published', envelope', x, m)
<1>1. published \in Seq(Message) /\ m \notin ToSet(published)
      /\ published' = Append(published, m)
  BY DEF TypeOK, Forward, Sent
<1>2. published' \in Seq(Message) /\ Sent' = Sent \cup {m}
  BY <1>1, AppendFacts DEF Sent
<1>3. /\ envelope'[m] = [source |-> s, to |-> a]
      /\ \A x \in Sent : envelope'[x] = envelope[x]
      /\ DOMAIN envelope' = Sent'
  BY <1>1, <1>2 DEF Forward, Sent
<1>4. /\ \A x, y \in ToSet(published) : Precedes(published, envelope, x, y) =>
           Precedes(Append(published, m), envelope', x, y)
      /\ \A x \in ToSet(published) \cup {m} :
           Precedes(Append(published, m), envelope', x, m)
  <2>1. \A x \in ToSet(published) : envelope'[x] = envelope[x]
    BY <1>3 DEF Sent
  <2>. QED
    BY <1>1, <2>1, PrecedesAppend
<1>. QED
  BY <1>1, <1>2, <1>3, <1>4 DEF Sent, InOrder

(* What a node's hub writes.                                               *)
LEMMA DeliverFacts ==
  ASSUME TypeOK, NEW n \in Node, NEW m \in Message, NEW a \in Agent,
         DeliverLocal(n, m, a)
  PROVE  /\ delivered' \in [Node -> Seq(Message)]
         /\ \A k \in Node \ {n} : delivered'[k] = delivered[k]
         /\ delivered'[n] = IF n \in homes[a] THEN Append(delivered[n], m)
                            ELSE delivered[n]
<1>1. delivered \in [Node -> Seq(Message)]
  BY DEF TypeOK
<1>2. Append(delivered[n], m) \in Seq(Message)
  BY <1>1, AppendFacts
<1>. QED
  BY <1>1, <1>2 DEF DeliverLocal

(* What taking an envelope off a queue does, be it delivered or lost.      *)
LEMMA TakeFacts ==
  ASSUME TypeOK, Relayed, NEW n \in Node, queue[n] # <<>>,
         queue' = [queue EXCEPT ![n] = Tail(@)]
  PROVE  /\ queue' \in [Node -> Seq(Message)]
         /\ \A k \in Node \ {n} : queue'[k] = queue[k]
         /\ Head(queue[n]) = queue[n][1] /\ 1 \in DOMAIN queue[n]
         /\ Head(queue[n]) \in Message /\ Head(queue[n]) \in Sent
         /\ envelope[Head(queue[n])] \in Envelope
         /\ ToSet(queue[n]) = {Head(queue[n])} \cup ToSet(queue'[n])
         /\ DOMAIN queue'[n] \subseteq Nat \ {0}
         /\ \A i \in DOMAIN queue'[n] :
              i + 1 \in DOMAIN queue[n] /\ queue'[n][i] = queue[n][i + 1]
<1>1. queue \in [Node -> Seq(Message)] /\ queue[n] \in Seq(Message)
  BY DEF TypeOK
<1>2. queue'[n] = Tail(queue[n]) /\ \A k \in Node \ {n} : queue'[k] = queue[k]
  BY <1>1
<1>3. /\ Head(queue[n]) \in Message /\ Head(queue[n]) = queue[n][1]
      /\ Tail(queue[n]) \in Seq(Message)
      /\ DOMAIN queue[n] = 1..Len(queue[n]) /\ Len(queue[n]) \in Nat \ {0}
      /\ DOMAIN Tail(queue[n]) = 1..(Len(queue[n]) - 1)
      /\ \A i \in DOMAIN Tail(queue[n]) :
           Tail(queue[n])[i] = queue[n][i + 1] /\ i + 1 \in DOMAIN queue[n]
      /\ ToSet(queue[n]) = {Head(queue[n])} \cup ToSet(Tail(queue[n]))
  BY <1>1, TailFacts
<1>4. queue' \in [Node -> Seq(Message)]
  BY <1>1, <1>3
<1>5. Head(queue[n]) \in Sent
  BY <1>3 DEF Relayed
<1>6. envelope[Head(queue[n])] \in Envelope
  BY <1>5 DEF TypeOK
<1>7. 1 \in DOMAIN queue[n] /\ DOMAIN queue'[n] \subseteq Nat \ {0}
  BY <1>2, <1>3
<1>. QED
  BY <1>2, <1>3, <1>4, <1>5, <1>6, <1>7

-----------------------------------------------------------------------------
(* Every step keeps the types.                                             *)
LEMMA TypeStep == ASSUME TypeOK, Relayed, [Next]_vars PROVE TypeOK'
<1>1. ASSUME NEW s \in Source, NEW m \in Message, NEW a \in Agent, Forward(s, m, a)
      PROVE  /\ published' \in Seq(Message)
             /\ DOMAIN envelope' = Sent'
             /\ \A x \in Sent' : envelope'[x] \in Envelope
             /\ held' \in SUBSET (Sent' \X Node)
             /\ lost' \in SUBSET (Sent' \X Node)
             /\ sending \in [Source -> Sent' \cup {None}]
             /\ tries' \in [Source -> 0..MaxTries]
             /\ broker' \in [Node -> {"local", "redis"}]
             /\ homes' \in [Agent -> SUBSET Node]
             /\ queue' \in [Node -> Seq(Message)]
             /\ node' \in [Source -> Node]
             /\ m \in Sent'
  <2>1. /\ Sent' = Sent \cup {m} /\ published' \in Seq(Message)
        /\ envelope'[m] = [source |-> s, to |-> a]
        /\ \A x \in Sent : envelope'[x] = envelope[x]
        /\ DOMAIN envelope' = Sent'
    BY <1>1, ForwardFacts
  <2>2. \A x \in Sent' : envelope'[x] \in Envelope
    BY <2>1 DEF TypeOK, Envelope
  <2>3. /\ held' \in SUBSET (Sent' \X Node)
        /\ lost' \in SUBSET (Sent' \X Node)
        /\ sending \in [Source -> Sent' \cup {None}]
    BY <1>1, <2>1 DEF TypeOK, Forward
  <2>. QED
    BY <1>1, <2>1, <2>2, <2>3 DEF TypeOK, Forward
<1>2. ASSUME NEW s \in Source, NEW m \in Message, NEW a \in Agent,
             ForwardLocal(s, m, a)
      PROVE  TypeOK'
  <2>1. node[s] \in Node
    BY DEF TypeOK
  <2>2. delivered' \in [Node -> Seq(Message)]
    BY <1>2, <2>1, DeliverFacts DEF ForwardLocal
  <2>. QED
    BY <1>1, <1>2, <2>2 DEF ForwardLocal, TypeOK
<1>3. ASSUME NEW s \in Source, NEW m \in Message, NEW a \in Agent,
             ForwardRedis(s, m, a)
      PROVE  TypeOK'
  BY <1>1, <1>3 DEF ForwardRedis, TypeOK
<1>4. ASSUME NEW s \in Source, RedisPublish(s)
      PROVE  TypeOK'
  <2>1. Sent' = Sent
    BY <1>4 DEF RedisPublish, log, Sent
  <2>2. sending[s] \in Message
    BY <1>4 DEF RedisPublish, TypeOK, Sent, ToSet
  <2>3. \A n \in Node : Append(queue[n], sending[s]) \in Seq(Message)
    BY <2>2, AppendFacts DEF TypeOK
  <2>4. queue' \in [Node -> Seq(Message)]
    BY <1>4, <2>3 DEF RedisPublish, TypeOK
  <2>5. tries' \in [Source -> 0..MaxTries]
    BY <1>4, TriesBound DEF RedisPublish, TypeOK
  <2>. QED
    BY <1>4, <2>1, <2>4, <2>5 DEF RedisPublish, TypeOK, log
<1>5. ASSUME NEW s \in Source, PublishReturn(s)
      PROVE  TypeOK'
  <2>1. Sent' = Sent
    BY <1>5 DEF PublishReturn, log, Sent
  <2>. QED
    BY <1>5, <2>1, TriesBound DEF PublishReturn, TypeOK, log
<1>6. ASSUME NEW n \in Node, Receive(n)
      PROVE  TypeOK'
  <2>. DEFINE m == Head(queue[n])
  <2>1. Sent' = Sent
    BY <1>6 DEF Receive, log, Sent
  <2>2. queue' \in [Node -> Seq(Message)] /\ m \in Message /\ envelope[m] \in Envelope
    BY <1>6, TakeFacts DEF Receive
  <2>3. delivered' \in [Node -> Seq(Message)]
    <3>1. CASE Origin(m) = n
      BY <1>6, <3>1 DEF Receive, TypeOK
    <3>2. CASE Origin(m) # n
      <4>1. DeliverLocal(n, m, envelope[m].to)
        BY <1>6, <3>2 DEF Receive
      <4>. QED
        BY <2>2, <4>1, DeliverFacts DEF Envelope
    <3>. QED
      BY <3>1, <3>2
  <2>. QED
    BY <1>6, <2>1, <2>2, <2>3 DEF Receive, TypeOK, log, publishing
<1>7. ASSUME NEW n \in Node, Lose(n)
      PROVE  TypeOK'
  <2>1. Sent' = Sent
    BY <1>7 DEF Lose, log, Sent
  <2>2. queue' \in [Node -> Seq(Message)] /\ Head(queue[n]) \in Sent
    BY <1>7, TakeFacts DEF Lose
  <2>. QED
    BY <1>7, <2>1, <2>2 DEF Lose, TypeOK, log, publishing
<1>8. ASSUME NEW n \in Node, NEW a \in Agent, Connect(a, n) \/ Disconnect(a, n)
      PROVE  TypeOK'
  <2>1. Sent' = Sent
    BY <1>8 DEF Connect, Disconnect, log, Sent
  <2>2. homes' \in [Agent -> SUBSET Node]
    <3>1. CASE Connect(a, n)
      BY <3>1 DEF Connect, TypeOK
    <3>2. CASE Disconnect(a, n)
      BY <3>2 DEF Disconnect, TypeOK
    <3>. QED
      BY <1>8, <3>1, <3>2
  <2>3. held' \subseteq held
    BY <1>8 DEF Connect, Disconnect
  <2>. QED
    BY <1>8, <2>1, <2>2, <2>3 DEF Connect, Disconnect, TypeOK, log, publishing
<1>9. CASE UNCHANGED vars
  <2>1. Sent' = Sent
    BY <1>9 DEF vars, Sent
  <2>. QED
    BY <1>9, <2>1 DEF vars, TypeOK
<1>. QED
  BY <1>2, <1>3, <1>4, <1>5, <1>6, <1>7, <1>8, <1>9 DEF Next

-----------------------------------------------------------------------------
(* A step that forwards nothing leaves the log and what it says alone.     *)
LEMMA LogStays ==
  ASSUME UNCHANGED log
  PROVE  /\ Sent' = Sent
         /\ \A x, y : Precedes(published', envelope', x, y) <=> InOrder(x, y)
  BY DEF log, Sent, InOrder

(* What a node has is forwarded.                                           *)
LEMMA UnderWay ==
  ASSUME TypeOK, Relayed, NEW n \in Node
  PROVE  /\ queue[n] \in Seq(Message) /\ delivered[n] \in Seq(Message)
         /\ \A i \in DOMAIN queue[n] : queue[n][i] \in Sent
         /\ \A i \in DOMAIN delivered[n] : delivered[n][i] \in Sent
         /\ ToSet(queue[n]) \subseteq Sent /\ ToSet(delivered[n]) \subseteq Sent
<1>1. queue[n] \in Seq(Message) /\ delivered[n] \in Seq(Message)
  BY DEF TypeOK
<1>2. ToSet(queue[n]) \subseteq Sent /\ ToSet(delivered[n]) \subseteq Sent
  BY DEF Relayed
<1>. QED
  BY <1>1, <1>2 DEF ToSet

(* Forwarding a message leaves the order of all others alone.              *)
LEMMA ForwardOrdered ==
  ASSUME TypeOK, OrderInv,
         NEW s \in Source, NEW m \in Message, NEW a \in Agent, Forward(s, m, a),
         NEW n \in Node, delivered'[n] = delivered[n]
  PROVE  Ordered(n)'
<1>1. /\ \A i \in DOMAIN queue[n] : queue[n][i] \in Sent
      /\ \A i \in DOMAIN delivered[n] : delivered[n][i] \in Sent
      /\ ToSet(queue[n]) \subseteq Sent /\ ToSet(delivered[n]) \subseteq Sent
  BY UnderWay DEF OrderInv
<1>2. \A x, y \in Sent : InOrder(x, y) => Precedes(published', envelope', x, y)
  BY ForwardFacts
<1>3. queue' = queue
  BY DEF Forward
<1>4. Ordered(n)
  BY DEF OrderInv
<1>. QED
  BY <1>1, <1>2, <1>3, <1>4 DEF Ordered, InOrder

LEMMA ForwardLatest ==
  ASSUME TypeOK, OrderInv,
         NEW s \in Source, NEW m \in Message, NEW a \in Agent, Forward(s, m, a),
         NEW g \in Source, g # s, sending'[g] = sending[g]
  PROVE  Latest(g)'
<1>1. /\ m \notin Sent /\ Sent' = Sent \cup {m}
      /\ \A x \in Sent : envelope'[x] = envelope[x]
      /\ envelope'[m] = [source |-> s, to |-> a]
      /\ \A x, y \in Sent : InOrder(x, y) => Precedes(published', envelope', x, y)
  BY ForwardFacts
<1>. SUFFICES ASSUME sending[g] # None
              PROVE  /\ envelope'[sending[g]].source = g
                     /\ \A x \in Sent' :
                          Precedes(published', envelope', x, sending[g])
  BY DEF Latest, InOrder
<1>2. sending[g] \in Sent
  BY DEF TypeOK
<1>3. envelope'[sending[g]].source = g
  BY <1>1, <1>2 DEF OrderInv, Latest
<1>4. Precedes(published', envelope', m, sending[g])
  BY <1>1, <1>3 DEF Precedes
<1>5. \A x \in Sent : Precedes(published', envelope', x, sending[g])
  BY <1>1, <1>2 DEF OrderInv, Latest
<1>. QED
  BY <1>1, <1>3, <1>4, <1>5

(* A message that is written after all others of a node, and that none of  *)
(* them and none that waits should have followed, keeps the order.         *)
LEMMA WriteOrdered ==
  ASSUME NEW d \in Seq(Message), NEW m \in Message, NEW p, NEW e,
         \A i, j \in DOMAIN d : i < j => Precedes(p, e, d[i], d[j]),
         \A x \in ToSet(d) : Precedes(p, e, x, m)
  PROVE  \A i, j \in DOMAIN Append(d, m) :
           i < j => Precedes(p, e, Append(d, m)[i], Append(d, m)[j])
<1>. DEFINE q == Append(d, m)
<1>1. /\ DOMAIN d = 1..Len(d) /\ Len(d) \in Nat
      /\ DOMAIN q = 1..(Len(d) + 1)
      /\ \A i \in 1..Len(d) : q[i] = d[i]
      /\ q[Len(d) + 1] = m
  BY AppendFacts
<1>2. \A i \in 1..Len(d) : d[i] \in ToSet(d)
  BY <1>1 DEF ToSet
<1>. HIDE DEF q
<1>3. ASSUME NEW i \in DOMAIN q, NEW j \in DOMAIN q, i < j
      PROVE  Precedes(p, e, q[i], q[j])
  <2>1. i \in 1..Len(d) /\ q[i] = d[i]
    BY <1>1, <1>3
  <2>2. CASE j = Len(d) + 1
    BY <1>1, <1>2, <2>1, <2>2
  <2>3. CASE j # Len(d) + 1
    <3>1. j \in 1..Len(d) /\ q[j] = d[j]
      BY <1>1, <2>3
    <3>. QED
      BY <1>1, <1>3, <2>1, <3>1
  <2>. QED
    BY <2>2, <2>3
<1>. QED
  BY <1>3 DEF q

(* Every step keeps what is written, waiting and being published in order. *)
LEMMA LocalOrder ==
  ASSUME TypeOK, OrderInv,
         NEW s \in Source, NEW m \in Message, NEW a \in Agent, ForwardLocal(s, m, a)
  PROVE  OrderInv'
<1>. DEFINE k == node[s]
<1>1. k \in Node /\ broker[k] = "local" /\ queue[k] = <<>>
  BY DEF ForwardLocal, TypeOK, OrderInv, Relayed
<1>2. Forward(s, m, a) /\ DeliverLocal(k, m, a)
      /\ queue' = queue /\ broker' = broker /\ sending' = sending
  BY DEF ForwardLocal, Forward
<1>3. /\ m \notin Sent /\ Sent' = Sent \cup {m}
      /\ \A x, y \in Sent : InOrder(x, y) => Precedes(published', envelope', x, y)
      /\ \A x \in Sent' : Precedes(published', envelope', x, m)
  BY <1>2, ForwardFacts
<1>4. /\ \A n \in Node \ {k} : delivered'[n] = delivered[n]
      /\ \/ delivered'[k] = delivered[k]
         \/ delivered'[k] = Append(delivered[k], m)
  BY <1>1, <1>2, DeliverFacts
<1>5. Relayed'
  <2>1. ASSUME NEW n \in Node
        PROVE  ToSet(delivered'[n]) \subseteq ToSet(delivered[n]) \cup {m}
    <3>1. delivered[n] \in Seq(Message)
      BY DEF TypeOK
    <3>2. ToSet(Append(delivered[n], m)) = ToSet(delivered[n]) \cup {m}
      BY <3>1, AppendFacts
    <3>3. delivered'[n] = delivered[n] \/ delivered'[n] = Append(delivered[n], m)
      BY <1>1, <1>4
    <3>. QED
      BY <3>2, <3>3
  <2>. QED
    BY <1>2, <1>3, <2>1 DEF OrderInv, Relayed
<1>6. ASSUME NEW n \in Node PROVE Ordered(n)'
  <2>1. CASE delivered'[n] = delivered[n]
    BY <1>2, <2>1, ForwardOrdered
  <2>2. CASE n = k /\ delivered'[k] = Append(delivered[k], m)
    <3>1. ToSet(queue'[n]) = {} /\ DOMAIN queue'[n] = {}
      BY <1>1, <1>2, <2>2 DEF ToSet
    <3>2. /\ delivered[n] \in Seq(Message)
          /\ \A i \in DOMAIN delivered[n] : delivered[n][i] \in Sent
          /\ ToSet(delivered[n]) \subseteq Sent
      BY UnderWay DEF OrderInv
    <3>3. \A i, j \in DOMAIN delivered[n] :
            i < j => Precedes(published', envelope', delivered[n][i], delivered[n][j])
      BY <1>3, <3>2 DEF OrderInv, Ordered
    <3>4. \A x \in ToSet(delivered[n]) : Precedes(published', envelope', x, m)
      BY <1>3, <3>2
    <3>5. \A i, j \in DOMAIN delivered'[n] :
            i < j => Precedes(published', envelope', delivered'[n][i], delivered'[n][j])
      BY <2>2, <3>2, <3>3, <3>4, WriteOrdered
    <3>. QED
      BY <3>1, <3>5 DEF Ordered, InOrder
  <2>. QED
    BY <1>4, <2>1, <2>2
<1>7. ASSUME NEW g \in Source PROVE Latest(g)'
  <2>1. CASE g = s
    BY <1>2, <2>1 DEF Forward, Latest
  <2>2. CASE g # s
    BY <1>2, <2>2, ForwardLatest
  <2>. QED
    BY <2>1, <2>2
<1>. QED
  BY <1>5, <1>6, <1>7 DEF OrderInv

LEMMA RedisOrder ==
  ASSUME TypeOK, OrderInv,
         NEW s \in Source, NEW m \in Message, NEW a \in Agent, ForwardRedis(s, m, a)
  PROVE  OrderInv'
<1>1. Forward(s, m, a) /\ queue' = queue /\ broker' = broker /\ delivered' = delivered
      /\ sending' = [sending EXCEPT ![s] = m]
  BY DEF ForwardRedis, Forward
<1>2. /\ Sent' = Sent \cup {m} /\ envelope'[m] = [source |-> s, to |-> a]
      /\ \A x \in Sent' : Precedes(published', envelope', x, m)
  BY <1>1, ForwardFacts
<1>3. Relayed'
  BY <1>1, <1>2 DEF OrderInv, Relayed
<1>4. ASSUME NEW n \in Node PROVE Ordered(n)'
  BY <1>1, ForwardOrdered
<1>5. ASSUME NEW g \in Source PROVE Latest(g)'
  <2>1. CASE g = s
    <3>1. sending'[g] = m
      BY <1>1, <2>1 DEF TypeOK
    <3>. QED
      BY <1>2, <2>1, <3>1 DEF Latest, InOrder
  <2>2. CASE g # s
    <3>1. sending'[g] = sending[g]
      BY <1>1, <2>2 DEF TypeOK
    <3>. QED
      BY <1>1, <2>2, <3>1, ForwardLatest
  <2>. QED
    BY <2>1, <2>2
<1>. QED
  BY <1>3, <1>4, <1>5 DEF OrderInv

LEMMA PublishOrder ==
  ASSUME TypeOK, OrderInv, NEW s \in Source, RedisPublish(s)
  PROVE  OrderInv'
<1>. DEFINE m == sending[s]
<1>1. /\ UNCHANGED log /\ delivered' = delivered /\ sending' = sending
      /\ broker' = broker
      /\ queue' = [n \in Node |-> IF broker[n] = "redis" THEN Append(queue[n], m)
                                  ELSE queue[n]]
  BY DEF RedisPublish
<1>2. /\ Sent' = Sent
      /\ \A x, y : Precedes(published', envelope', x, y) <=> InOrder(x, y)
  BY <1>1, LogStays
<1>3. m \in Sent /\ m \in Message /\ envelope[m].source = s
      /\ \A x \in Sent : InOrder(x, m)
  BY DEF RedisPublish, TypeOK, OrderInv, Latest, Sent, ToSet
<1>. HIDE DEF m
<1>4. ASSUME NEW n \in Node
      PROVE  /\ ToSet(queue'[n]) \subseteq Sent
             /\ Ordered(n)'
  <2>1. /\ queue[n] \in Seq(Message)
        /\ ToSet(queue[n]) \subseteq Sent /\ ToSet(delivered[n]) \subseteq Sent
    BY UnderWay DEF OrderInv
  <2>2. Ordered(n)
    BY DEF OrderInv
  <2>3. CASE queue'[n] = queue[n]
    BY <1>1, <1>2, <2>1, <2>2, <2>3 DEF Ordered, InOrder
  <2>4. CASE queue'[n] = Append(queue[n], m)
    <3>1. ToSet(queue'[n]) = ToSet(queue[n]) \cup {m}
      BY <1>3, <2>1, <2>4, AppendFacts
    <3>2. /\ \A i, j \in DOMAIN queue[n] :
               i < j => Precedes(published', envelope', queue[n][i], queue[n][j])
          /\ \A x \in ToSet(queue[n]) : Precedes(published', envelope', x, m)
      BY <1>2, <1>3, <2>1, <2>2 DEF Ordered
    <3>3. \A i, j \in DOMAIN queue'[n] :
            i < j => Precedes(published', envelope', queue'[n][i], queue'[n][j])
      BY <1>3, <2>1, <2>4, <3>2, WriteOrdered
    <3>4. \A x \in ToSet(delivered[n]), y \in ToSet(queue'[n]) :
            Precedes(published', envelope', x, y)
      BY <1>2, <1>3, <2>1, <2>2, <3>1 DEF Ordered
    <3>5. \A i, j \in DOMAIN delivered[n] : i < j =>
            Precedes(published', envelope', delivered[n][i], delivered[n][j])
      BY <1>2, <2>2 DEF Ordered
    <3>. QED
      BY <1>1, <1>3, <2>1, <3>1, <3>3, <3>4, <3>5 DEF Ordered, InOrder
  <2>. QED
    BY <1>1, <2>3, <2>4
<1>5. Relayed'
  BY <1>1, <1>2, <1>4 DEF OrderInv, Relayed
<1>6. \A g \in Source : Latest(g)'
  BY <1>1, <1>2 DEF OrderInv, Latest, InOrder, log
<1>. QED
  BY <1>4, <1>5, <1>6 DEF OrderInv

LEMMA ReturnOrder ==
  ASSUME TypeOK, OrderInv, NEW s \in Source, PublishReturn(s)
  PROVE  OrderInv'
<1>1. /\ UNCHANGED log /\ delivered' = delivered /\ queue' = queue
      /\ broker' = broker
      /\ sending' = [sending EXCEPT ![s] = None]
  BY DEF PublishReturn
<1>2. /\ Sent' = Sent
      /\ \A x, y : Precedes(published', envelope', x, y) <=> InOrder(x, y)
  BY <1>1, LogStays
<1>3. \A g \in Source : sending'[g] # None => sending'[g] = sending[g]
  BY <1>1 DEF TypeOK
<1>4. \A g \in Source : Latest(g)'
  BY <1>1, <1>2, <1>3 DEF OrderInv, Latest, InOrder, log
<1>5. Relayed' /\ \A n \in Node : Ordered(n)'
  BY <1>1, <1>2 DEF OrderInv, Relayed, Ordered, InOrder
<1>. QED
  BY <1>4, <1>5 DEF OrderInv

(* An envelope leaves a queue, and is written last or not at all.          *)
LEMMA TakeOrder ==
  ASSUME TypeOK, OrderInv, NEW n \in Node, queue[n] # <<>>,
         queue' = [queue EXCEPT ![n] = Tail(@)],
         UNCHANGED <<broker, publishing, log>>,
         \A k \in Node \ {n} : delivered'[k] = delivered[k],
         \/ delivered'[n] = delivered[n]
         \/ delivered'[n] = Append(delivered[n], Head(queue[n]))
  PROVE  OrderInv'
<1>. DEFINE m == Head(queue[n])
<1>1. /\ Sent' = Sent
      /\ \A x, y : Precedes(published', envelope', x, y) <=> InOrder(x, y)
  BY LogStays
<1>2. /\ \A k \in Node \ {n} : queue'[k] = queue[k]
      /\ m = queue[n][1] /\ 1 \in DOMAIN queue[n]
      /\ m \in Message /\ m \in Sent
      /\ ToSet(queue[n]) = {m} \cup ToSet(queue'[n])
      /\ DOMAIN queue'[n] \subseteq Nat \ {0}
      /\ \A i \in DOMAIN queue'[n] :
           i + 1 \in DOMAIN queue[n] /\ queue'[n][i] = queue[n][i + 1]
  BY TakeFacts DEF OrderInv
<1>. HIDE DEF m
<1>3. /\ delivered[n] \in Seq(Message)
      /\ ToSet(queue[n]) \subseteq Sent /\ ToSet(delivered[n]) \subseteq Sent
  BY UnderWay DEF OrderInv
<1>4. Ordered(n)
  BY DEF OrderInv
<1>5. \A y \in ToSet(queue'[n]) : InOrder(m, y)
  <2>. SUFFICES ASSUME NEW i \in DOMAIN queue'[n] PROVE InOrder(m, queue'[n][i])
    BY DEF ToSet
  <2>. QED
    BY <1>2, <1>4 DEF Ordered
<1>6. \A i, j \in DOMAIN queue'[n] : i < j =>
        Precedes(published', envelope', queue'[n][i], queue'[n][j])
  <2>. TAKE i, j \in DOMAIN queue'[n]
  <2>. HAVE i < j
  <2>1. i + 1 \in DOMAIN queue[n] /\ j + 1 \in DOMAIN queue[n] /\ i + 1 < j + 1
    BY <1>2
  <2>. QED
    BY <1>1, <1>2, <1>4, <2>1 DEF Ordered
<1>7. /\ ToSet(delivered'[n]) \subseteq Sent
      /\ \A i, j \in DOMAIN delivered'[n] : i < j =>
           Precedes(published', envelope', delivered'[n][i], delivered'[n][j])
      /\ \A x \in ToSet(delivered'[n]), y \in ToSet(queue'[n]) :
           Precedes(published', envelope', x, y)
  <2>1. CASE delivered'[n] = delivered[n]
    BY <1>1, <1>2, <1>3, <1>4, <2>1 DEF Ordered
  <2>2. CASE delivered'[n] = Append(delivered[n], m)
    <3>1. ToSet(delivered'[n]) = ToSet(delivered[n]) \cup {m}
      BY <1>2, <1>3, <2>2, AppendFacts
    <3>2. /\ \A i, j \in DOMAIN delivered[n] : i < j =>
               Precedes(published', envelope', delivered[n][i], delivered[n][j])
          /\ \A x \in ToSet(delivered[n]) : Precedes(published', envelope', x, m)
      BY <1>1, <1>2, <1>4 DEF Ordered
    <3>3. \A i, j \in DOMAIN delivered'[n] : i < j =>
            Precedes(published', envelope', delivered'[n][i], delivered'[n][j])
      BY <1>2, <1>3, <2>2, <3>2, WriteOrdered
    <3>4. \A x \in ToSet(delivered'[n]), y \in ToSet(queue'[n]) :
            Precedes(published', envelope', x, y)
      BY <1>1, <1>2, <1>4, <1>5, <3>1 DEF Ordered
    <3>. QED
      BY <1>2, <1>3, <3>1, <3>3, <3>4
  <2>. QED
    BY <2>1, <2>2 DEF m
<1>8. ASSUME NEW k \in Node PROVE Ordered(k)'
  <2>1. CASE k = n
    BY <1>6, <1>7, <2>1 DEF Ordered, InOrder
  <2>2. CASE k # n
    <3>1. queue'[k] = queue[k] /\ delivered'[k] = delivered[k]
      BY <1>2, <2>2
    <3>. QED
      BY <1>1, <3>1 DEF OrderInv, Ordered, InOrder
  <2>. QED
    BY <2>1, <2>2
<1>9. Relayed'
  <2>1. ASSUME NEW k \in Node
        PROVE  /\ broker'[k] = "local" => queue'[k] = <<>>
               /\ ToSet(queue'[k]) \subseteq Sent /\ ToSet(delivered'[k]) \subseteq Sent
    <3>1. CASE k = n
      BY <1>2, <1>3, <1>7, <3>1 DEF OrderInv, Relayed
    <3>2. CASE k # n
      BY <1>2, <3>2 DEF OrderInv, Relayed
    <3>. QED
      BY <3>1, <3>2
  <2>. QED
    BY <1>1, <2>1 DEF Relayed
<1>10. \A g \in Source : Latest(g)'
  BY <1>1 DEF OrderInv, Latest, InOrder, log, publishing
<1>. QED
  BY <1>8, <1>9, <1>10 DEF OrderInv

LEMMA OrderStep == ASSUME TypeOK, OrderInv, [Next]_vars PROVE OrderInv'
<1>1. ASSUME NEW n \in Node, Receive(n)
      PROVE  OrderInv'
  <2>. DEFINE m == Head(queue[n])
  <2>1. m \in Message /\ envelope[m] \in Envelope
    BY <1>1, TakeFacts DEF Receive, OrderInv
  <2>2. /\ \A k \in Node \ {n} : delivered'[k] = delivered[k]
        /\ \/ delivered'[n] = delivered[n]
           \/ delivered'[n] = Append(delivered[n], m)
    <3>1. CASE Origin(m) = n
      BY <1>1, <3>1 DEF Receive
    <3>2. CASE Origin(m) # n
      <4>1. DeliverLocal(n, m, envelope[m].to) /\ envelope[m].to \in Agent
        BY <1>1, <2>1, <3>2 DEF Receive, Envelope
      <4>. QED
        BY <2>1, <4>1, DeliverFacts
    <3>. QED
      BY <3>1, <3>2
  <2>. QED
    BY <1>1, <2>2, TakeOrder DEF Receive
<1>2. ASSUME NEW n \in Node, Lose(n)
      PROVE  OrderInv'
  BY <1>2, TakeOrder DEF Lose
<1>3. ASSUME UNCHANGED <<broker, queue, publishing, log, delivered>>
      PROVE  OrderInv'
  <2>1. /\ Sent' = Sent
        /\ \A x, y : Precedes(published', envelope', x, y) <=> InOrder(x, y)
    BY <1>3, LogStays
  <2>2. Relayed' /\ \A n \in Node : Ordered(n)'
    BY <1>3, <2>1 DEF OrderInv, Relayed, Ordered, InOrder
  <2>3. \A g \in Source : Latest(g)'
    BY <1>3, <2>1 DEF OrderInv, Latest, InOrder, log, publishing
  <2>. QED
    BY <2>2, <2>3 DEF OrderInv
<1>4. ASSUME NEW n \in Node, NEW a \in Agent, Connect(a, n) \/ Disconnect(a, n)
      PROVE  OrderInv'
  BY <1>3, <1>4 DEF Connect, Disconnect
<1>5. CASE UNCHANGED vars
  BY <1>3, <1>5 DEF vars, publishing, log
<1>. QED
  BY <1>1, <1>2, <1>4, <1>5, LocalOrder, RedisOrder, PublishOrder, ReturnOrder DEF Next

-----------------------------------------------------------------------------
(* Every step that leaves the log alone keeps the flow when it loses no    *)
(* message that is on its way.                                             *)
LEMMA FlowKept ==
  ASSUME TypeOK, FlowInv, UNCHANGED <<broker, node, log>>,
         \A g \in Source : sending'[g] = None => tries'[g] = 0,
         held' \subseteq held, lost \subseteq lost',
         \A h \in held' : homes[envelope[h[1]].to] \subseteq homes'[envelope[h[1]].to]
                          \/ h[2] \in homes'[envelope[h[1]].to],
         \A h \in held' \ lost' :
           /\ h[2] # Origin(h[1])
           /\ broker[h[2]] = "redis"
           /\ OnItsWay(h[1], h[2])
           => OnItsWay(h[1], h[2])'
  PROVE  FlowInv'
<1>1. Sent' = Sent /\ envelope' = envelope /\ \A x : Origin(x)' = Origin(x)
  BY DEF log, Sent, Origin
<1>2. \A h \in held' : h[2] \in homes'[envelope'[h[1]].to]
  BY <1>1 DEF FlowInv
<1>3. ASSUME NEW h \in held' \ lost', h[2] # Origin(h[1]),
             broker[h[2]] = "redis", broker[Origin(h[1])] = "redis"
      PROVE  OnItsWay(h[1], h[2])'
  BY <1>3 DEF FlowInv
<1>. QED
  BY <1>1, <1>2, <1>3 DEF FlowInv

(* Forwarding: the pairs there were, and those of the new message.         *)
LEMMA ForwardFlow ==
  ASSUME TypeOK, FlowInv,
         NEW s \in Source, NEW m \in Message, NEW a \in Agent, Forward(s, m, a),
         NEW h \in held'
  PROVE  /\ h[2] \in homes'[envelope'[h[1]].to]
         /\ \/ /\ h \in held /\ h[1] \in Sent /\ h[1] # m
               /\ node'[envelope'[h[1]].source] = Origin(h[1])
            \/ /\ h[1] = m
               /\ node'[envelope'[h[1]].source] = node[s]
<1>1. /\ m \notin Sent
      /\ envelope'[m] = [source |-> s, to |-> a]
      /\ \A x \in Sent : envelope'[x] = envelope[x]
  BY ForwardFacts
<1>2. homes' = homes /\ node' = node /\ held' = held \cup ({m} \X homes[a])
  BY DEF Forward
<1>3. CASE h \in held
  <2>1. h[1] \in Sent
    BY <1>3 DEF TypeOK
  <2>. QED
    BY <1>1, <1>2, <1>3, <2>1 DEF FlowInv, Origin
<1>4. CASE h \in {m} \X homes[a]
  BY <1>1, <1>2, <1>4
<1>. QED
  BY <1>2, <1>3, <1>4

LEMMA FlowStep == ASSUME TypeOK, OrderInv, FlowInv, [Next]_vars PROVE FlowInv'
<1>1. ASSUME NEW s \in Source, NEW m \in Message, NEW a \in Agent,
             ForwardLocal(s, m, a)
      PROVE  FlowInv'
  <2>1. /\ Forward(s, m, a) /\ sending' = sending /\ tries' = tries
        /\ queue' = queue /\ broker' = broker /\ lost' = lost
        /\ broker[node[s]] = "local" /\ node[s] \in Node
        /\ DeliverLocal(node[s], m, a)
    BY <1>1 DEF ForwardLocal, Forward, TypeOK
  <2>2. ASSUME NEW n \in Node PROVE ToSet(delivered[n]) \subseteq ToSet(delivered'[n])
    <3>1. delivered[n] \in Seq(Message)
      BY DEF TypeOK
    <3>2. ToSet(Append(delivered[n], m)) = ToSet(delivered[n]) \cup {m}
      BY <3>1, AppendFacts
    <3>3. delivered'[n] = delivered[n] \/ delivered'[n] = Append(delivered[n], m)
      BY <2>1, DeliverFacts
    <3>. QED
      BY <3>2, <3>3
  <2>3. ASSUME NEW h \in held' \ lost', broker[node'[envelope'[h[1]].source]] = "redis",
               h[2] # node'[envelope'[h[1]].source], broker[h[2]] = "redis"
        PROVE  OnItsWay(h[1], h[2])'
    <3>1. h \in held \ lost /\ node'[envelope'[h[1]].source] = Origin(h[1])
      BY <2>1, <2>3, ForwardFlow
    <3>2. OnItsWay(h[1], h[2]) /\ h[2] \in Node
      BY <2>3, <3>1 DEF FlowInv, TypeOK
    <3>. QED
      BY <2>1, <2>2, <3>2 DEF OnItsWay
  <2>. QED
    BY <2>1, <2>3, ForwardFlow DEF FlowInv, Origin
<1>2. ASSUME NEW s \in Source, NEW m \in Message, NEW a \in Agent,
             ForwardRedis(s, m, a)
      PROVE  FlowInv'
  <2>1. /\ Forward(s, m, a) /\ sending' = [sending EXCEPT ![s] = m] /\ tries' = tries
        /\ queue' = queue /\ broker' = broker /\ lost' = lost
        /\ delivered' = delivered /\ sending[s] = None
    BY <1>2 DEF ForwardRedis, Forward
  <2>2. sending'[s] = m /\ \A g \in Source \ {s} : sending'[g] = sending[g]
    BY <2>1 DEF TypeOK
  <2>3. tries[s] = 0 /\ m # None
    BY <2>1, NoneIsNoMessage DEF FlowInv
  <2>4. ASSUME NEW h \in held' \ lost', broker[node'[envelope'[h[1]].source]] = "redis",
               h[2] # node'[envelope'[h[1]].source], broker[h[2]] = "redis"
        PROVE  OnItsWay(h[1], h[2])'
    <3>1. CASE h[1] = m
      BY <2>1, <2>2, <2>3, <3>1 DEF OnItsWay
    <3>2. CASE h \in held /\ h[1] \in Sent /\ node'[envelope'[h[1]].source] = Origin(h[1])
      <4>1. OnItsWay(h[1], h[2]) /\ h[1] # None
        BY <2>1, <2>4, <3>2, NoneIsNoMessage DEF FlowInv, TypeOK, Sent, ToSet
      <4>. QED
        BY <2>1, <2>2, <4>1 DEF OnItsWay
    <3>. QED
      BY <2>1, <3>1, <3>2, ForwardFlow
  <2>. QED
    BY <2>1, <2>2, <2>3, <2>4, ForwardFlow DEF FlowInv, Origin
<1>3. ASSUME NEW s \in Source, RedisPublish(s)
      PROVE  FlowInv'
  <2>1. /\ UNCHANGED <<broker, node, log, homes, held, lost, sending, delivered>>
        /\ sending[s] # None /\ sending[s] \in Message
        /\ tries' = [tries EXCEPT ![s] = @ + 1]
        /\ queue' = [n \in Node |-> IF broker[n] = "redis"
                                    THEN Append(queue[n], sending[s]) ELSE queue[n]]
    BY <1>3 DEF RedisPublish, TypeOK, Sent, ToSet
  <2>2. \A g \in Source : sending'[g] = None => tries'[g] = 0
    BY <2>1 DEF FlowInv, TypeOK
  <2>3. ASSUME NEW n \in Node, broker[n] = "redis"
        PROVE  ToSet(queue'[n]) = ToSet(queue[n]) \cup {sending[s]}
    <3>1. queue[n] \in Seq(Message) /\ queue'[n] = Append(queue[n], sending[s])
      BY <2>1, <2>3 DEF TypeOK
    <3>. QED
      BY <2>1, <3>1, AppendFacts
  <2>4. \A g \in Source \ {s} : tries'[g] = tries[g]
    BY <2>1 DEF TypeOK
  <2>5. \A h \in held : broker[h[2]] = "redis" /\ OnItsWay(h[1], h[2])
                        => OnItsWay(h[1], h[2])'
    BY <2>1, <2>3, <2>4 DEF OnItsWay, TypeOK
  <2>. QED
    BY <2>1, <2>2, <2>5, FlowKept
<1>4. ASSUME NEW s \in Source, PublishReturn(s)
      PROVE  FlowInv'
  <2>1. /\ UNCHANGED <<broker, node, log, homes, held, queue, delivered>>
        /\ lost' = IF tries[s] = 0 THEN lost \cup ({sending[s]} \X Node) ELSE lost
        /\ \A g \in Source \ {s} : sending'[g] = sending[g] /\ tries'[g] = tries[g]
        /\ sending'[s] = None /\ tries'[s] = 0
    BY <1>4 DEF PublishReturn, TypeOK
  <2>2. \A h \in held \ lost' : OnItsWay(h[1], h[2]) => OnItsWay(h[1], h[2])'
    <3>. TAKE h \in held \ lost'
    <3>. HAVE OnItsWay(h[1], h[2])
    <3>1. h[2] \in Node /\ h = <<h[1], h[2]>>
      BY DEF TypeOK
    <3>2. ~(sending[s] = h[1] /\ tries[s] = 0)
      BY <2>1, <3>1
    <3>. QED
      BY <2>1, <3>2 DEF OnItsWay
  <2>. QED
    BY <2>1, <2>2, FlowKept DEF FlowInv
<1>5. ASSUME NEW n \in Node, Receive(n)
      PROVE  FlowInv'
  <2>. DEFINE m == Head(queue[n])
  <2>1. /\ UNCHANGED <<broker, node, log, homes, held, lost, sending, tries>>
        /\ m \in Message /\ envelope[m] \in Envelope
        /\ \A k \in Node \ {n} : queue'[k] = queue[k]
        /\ ToSet(queue[n]) = {m} \cup ToSet(queue'[n])
    BY <1>5, TakeFacts DEF Receive, publishing, OrderInv
  <2>2. /\ \A k \in Node \ {n} : delivered'[k] = delivered[k]
        /\ ToSet(delivered[n]) \subseteq ToSet(delivered'[n])
        /\ Origin(m) # n /\ n \in homes[envelope[m].to] => m \in ToSet(delivered'[n])
    <3>1. CASE Origin(m) = n
      BY <1>5, <3>1 DEF Receive
    <3>2. CASE Origin(m) # n
      <4>1. DeliverLocal(n, m, envelope[m].to) /\ envelope[m].to \in Agent
        BY <1>5, <2>1, <3>2 DEF Receive, Envelope
      <4>2. delivered[n] \in Seq(Message)
        BY DEF TypeOK
      <4>3. ToSet(Append(delivered[n], m)) = ToSet(delivered[n]) \cup {m}
        BY <2>1, <4>2, AppendFacts
      <4>. QED
        BY <2>1, <4>1, <4>3, DeliverFacts
    <3>. QED
      BY <3>1, <3>2
  <2>3. \A h \in held : h[2] # Origin(h[1]) /\ OnItsWay(h[1], h[2])
                        => OnItsWay(h[1], h[2])'
    BY <2>1, <2>2 DEF OnItsWay, FlowInv, TypeOK
  <2>. QED
    BY <2>1, <2>3, FlowKept DEF FlowInv
<1>6. ASSUME NEW n \in Node, Lose(n)
      PROVE  FlowInv'
  <2>. DEFINE m == Head(queue[n])
  <2>1. /\ UNCHANGED <<broker, node, log, homes, held, delivered, sending, tries>>
        /\ lost' = lost \cup {<<m, n>>}
        /\ \A k \in Node \ {n} : queue'[k] = queue[k]
        /\ ToSet(queue[n]) = {m} \cup ToSet(queue'[n])
    BY <1>6, TakeFacts DEF Lose, publishing, OrderInv
  <2>2. \A h \in held \ lost' : OnItsWay(h[1], h[2]) => OnItsWay(h[1], h[2])'
    <3>. TAKE h \in held \ lost'
    <3>. HAVE OnItsWay(h[1], h[2])
    <3>1. h[2] \in Node /\ h = <<h[1], h[2]>> /\ h # <<m, n>>
      BY <2>1 DEF TypeOK
    <3>. QED
      BY <2>1, <3>1 DEF OnItsWay
  <2>. QED
    BY <2>1, <2>2, FlowKept DEF FlowInv
<1>7. ASSUME NEW n \in Node, NEW a \in Agent, Connect(a, n)
      PROVE  FlowInv'
  <2>1. /\ UNCHANGED <<broker, node, log, held, lost, delivered, sending, tries, queue>>
        /\ homes' = [homes EXCEPT ![a] = @ \cup {n}]
    BY <1>7 DEF Connect, publishing
  <2>2. \A h \in held : envelope[h[1]].to \in Agent
    BY DEF TypeOK, Envelope
  <2>3. \A b \in Agent : homes[b] \subseteq homes'[b]
    BY <2>1 DEF TypeOK
  <2>4. \A h \in held : homes[envelope[h[1]].to] \subseteq homes'[envelope[h[1]].to]
    BY <2>2, <2>3
  <2>5. \A x, k : OnItsWay(x, k)' <=> OnItsWay(x, k)
    BY <2>1 DEF OnItsWay
  <2>. QED
    BY <2>1, <2>4, <2>5, FlowKept DEF FlowInv
<1>8. ASSUME NEW n \in Node, NEW a \in Agent, Disconnect(a, n)
      PROVE  FlowInv'
  <2>1. /\ UNCHANGED <<broker, node, log, lost, delivered, sending, tries, queue>>
        /\ homes' = [homes EXCEPT ![a] = @ \ {n}]
        /\ held' = {h \in held : ~(h[2] = n /\ envelope[h[1]].to = a)}
    BY <1>8 DEF Disconnect, publishing
  <2>2. \A h \in held' : h[2] \in homes'[envelope[h[1]].to]
    <3>. TAKE h \in held'
    <3>1. h \in held /\ ~(h[2] = n /\ envelope[h[1]].to = a)
      BY <2>1
    <3>2. envelope[h[1]].to \in Agent
      BY <3>1 DEF TypeOK, Envelope
    <3>3. h[2] \in homes[envelope[h[1]].to]
      BY <3>1 DEF FlowInv
    <3>. QED
      BY <2>1, <3>1, <3>2, <3>3 DEF TypeOK
  <2>3. \A x, k : OnItsWay(x, k)' <=> OnItsWay(x, k)
    BY <2>1 DEF OnItsWay
  <2>4. held' \subseteq held
    BY <2>1
  <2>. QED
    BY <2>1, <2>2, <2>3, <2>4, FlowKept DEF FlowInv
<1>9. CASE UNCHANGED vars
  <2>1. \A x, k : OnItsWay(x, k)' <=> OnItsWay(x, k)
    BY <1>9 DEF OnItsWay, vars
  <2>. QED
    BY <1>9, <2>1, FlowKept DEF FlowInv, vars, log
<1>. QED
  BY <1>1, <1>2, <1>3, <1>4, <1>5, <1>6, <1>7, <1>8, <1>9 DEF Next

-----------------------------------------------------------------------------
LEMMA Inductive == Spec => []IInv
<1>1. IInv /\ [Next]_vars => IInv'
  BY TypeStep, OrderStep, FlowStep DEF IInv, OrderInv
<1>. QED
  BY <1>1, InitInv, PTL DEF Spec

(* A node's variables always hold what the code can put there: what is in  *)
(* flight, published or lost is a message that some goroutine forwarded.   *)
THEOREM TypeCorrect == Spec => []TypeOK
<1>1. IInv => TypeOK
  BY DEF IInv
<1>. QED
  BY <1>1, Inductive, PTL

(* Hub.Forward, RedisBroker.Publish and the goroutine of Subscribe keep    *)
(* the order of each connection on every node, whatever is repeated or     *)
(* lost on the way.                                                        *)
THEOREM OrderSafe == Spec => []DeliveredInOrder
<1>1. IInv => DeliveredInOrder
  BY DEF IInv, OrderInv, Ordered, InOrder, Precedes, DeliveredInOrder, IsBefore
<1>. QED
  BY <1>1, Inductive, PTL

(* Once nothing is in flight, every other Redis node that an addressee     *)
(* stayed connected to has written what Redis did not lose.                *)
THEOREM RemoteSafe == Spec => []RemoteAddresseeServed
<1>1. ASSUME IInv, Quiet, NEW h \in held \ lost, h[2] # Origin(h[1]),
             broker[h[2]] = "redis", broker[Origin(h[1])] = "redis"
      PROVE  h[1] \in ToSet(delivered[h[2]])
  <2>1. OnItsWay(h[1], h[2])
    BY <1>1 DEF IInv, FlowInv
  <2>2. h[1] \in Message /\ h[2] \in Node
    BY <1>1 DEF IInv, TypeOK, Sent, ToSet
  <2>3. ToSet(queue[h[2]]) = {}
    BY <1>1, <2>2 DEF Quiet, ToSet
  <2>4. \A s \in Source : sending[s] # h[1]
    BY <1>1, <2>2, NoneIsNoMessage DEF Quiet
  <2>. QED
    BY <2>1, <2>3, <2>4 DEF OnItsWay
<1>2. IInv => RemoteAddresseeServed
  BY <1>1 DEF RemoteAddresseeServed
<1>. QED
  BY <1>2, Inductive, PTL

=============================================================================
