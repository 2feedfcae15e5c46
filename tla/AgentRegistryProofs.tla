--------------------------- MODULE AgentRegistryProofs ---------------------------
(***************************************************************************)
(* Proofs about the registry, its routing table and the handlers that      *)
(* write both, for any agents, users, protocols, goroutines and number of  *)
(* faults.                                                                 *)
(***************************************************************************)
EXTENDS AgentRegistry, TLAPS

(* A row is that of an agent that was registered, with its first owner.     *)
RowInv ==
  \A a \in Agent : rows[a] # None => a \in registered /\ rows[a].owner = registrant[a]

(* What a goroutine carries from one statement to the next: the card it     *)
(* writes back names the first owner, also one that was merged; and an      *)
(* agent it writes is gone, or one it removes is there, only if a deletion  *)
(* overlapped a write.                                                      *)
Fits(t) ==
  /\ t.at # "idle" => t.agent \in registered
  /\ t.at \in {"put", "route"} =>
       /\ t.card \in Card
       /\ t.card.owner = registrant[t.agent]
       /\ rows[t.agent] # None \/ t.agent \in overlap
  /\ t.at = "unroute" => rows[t.agent] = None \/ t.agent \in overlap
  /\ t.at = "merge" => t.owner = None
  /\ t.at = "write" => t.owner = registrant[t.agent]
  /\ t.at = "flags" => t.flag \in {"private", "public", "default"}

TaskInv == \A h \in Handler : Fits(handler[h])

(* The routing table and the rows: what is routed without a row is about to *)
(* be unrouted; what a row speaks and is not routed is about to be routed   *)
(* by the goroutine that wrote it.                                          *)
RouteInv ==
  \A a \in Agent \ overlap :
    /\ routes[a] # {} /\ rows[a] = None =>
         \E h \in Handler : At(h, "unroute") /\ handler[h].agent = a
    /\ rows[a] # None /\ a \notin restarted =>
         \/ rows[a].speaks \subseteq routes[a]
         \/ \E h \in Handler : /\ At(h, "route") /\ handler[h].agent = a
                               /\ handler[h].card.speaks = rows[a].speaks

RegIInv == TypeOK /\ RowInv /\ TaskInv /\ RouteInv

(* What Put stores.                                                         *)
LEMMA PutRow ==
  ASSUME rows \in [Agent -> Row \cup {None}], NEW a \in Agent, NEW card \in Card,
         Put(a, card)
  PROVE  \E row \in Row : /\ rows' = [rows EXCEPT ![a] = row]
                          /\ row.owner = card.owner /\ row.speaks = card.speaks
                          /\ rows[a] # None => row.private = rows[a].private
<1>. DEFINE private == rows[a] # None /\ rows[a].private
            column == IF rows[a] = None THEN None ELSE rows[a].ownerColumn
            row == [owner |-> card.owner, speaks |-> card.speaks,
                    state |-> card.state, private |-> private, ownerColumn |-> column]
<1>1. rows[a] # None => rows[a] \in Row
  OBVIOUS
<1>2. private \in BOOLEAN
  OBVIOUS
<1>3. column \in User \cup {None}
  BY <1>1 DEF Row
<1>4. rows' = [rows EXCEPT ![a] = row]
  BY Zenon DEF Put
<1>5. rows[a] # None => private = rows[a].private
  <2>1. rows[a] # None => rows[a].private \in BOOLEAN
    BY <1>1 DEF Row
  <2>. QED
    BY <2>1
<1>. HIDE DEF private, column
<1>6. row \in Row
  BY <1>2, <1>3 DEF Row, Card
<1>. QED
  BY <1>4, <1>5, <1>6

(* The registration of a new agent.                                         *)
LEMMA RegisterStep ==
  ASSUME RegIInv, NEW h \in Handler, NEW a \in Agent, NEW m \in User \cup {None},
         NEW u \in User \cup {None}, NEW ps \in Protocols, NEW flag \in Flag,
         u # None \/ m = None,
         Start(h, [Idle EXCEPT !.at = "route", !.agent = a,
                               !.card = NewCard(m, u, ps), !.flag = flag]),
         Register(a, m, u, ps),
         UNCHANGED <<routes, todo, overlap, restarted, faults>>
  PROVE  RegIInv'
<1>. DEFINE card == NewCard(m, u, ps)
            task == [Idle EXCEPT !.at = "route", !.agent = a, !.card = card,
                                 !.flag = flag]
<1>1. card \in Card /\ card.owner = u /\ card.speaks = ps
  BY DEF NewCard, Card
<1>2. handler[h] = Idle /\ handler' = [handler EXCEPT ![h] = task]
  BY DEF Start
<1>3. task \in Task /\ task.at = "route" /\ task.agent = a /\ task.card = card
  BY <1>1 DEF Task, Idle
<1>4. /\ a \notin registered /\ rows[a] = None
      /\ registered' = registered \cup {a}
      /\ registrant' = [registrant EXCEPT ![a] = u]
  BY DEF Register, RegIInv, RowInv
<1>5. PICK row \in Row : /\ rows' = [rows EXCEPT ![a] = row]
                         /\ row.owner = u /\ row.speaks = ps
  BY <1>1, PutRow DEF Register, RegIInv, TypeOK
<1>6. row # None
  BY NoneIsNoRow
<1>. HIDE DEF card, task
<1>7. TypeOK'
  BY <1>2, <1>3, <1>4, <1>5 DEF RegIInv, TypeOK
<1>8. RowInv'
  BY <1>4, <1>5 DEF RegIInv, TypeOK, RowInv
<1>9. TaskInv'
  BY <1>1, <1>2, <1>3, <1>4, <1>5, <1>6 DEF RegIInv, TypeOK, TaskInv, Fits
<1>10. RouteInv'
  BY <1>1, <1>2, <1>3, <1>4, <1>5, <1>6 DEF RegIInv, TypeOK, RouteInv, At, Idle
<1>. QED
  BY <1>7, <1>8, <1>9, <1>10 DEF RegIInv

(* The rows stay, but for columns beside the owner and the protocols.       *)
KeepsRows ==
  /\ rows' \in [Agent -> Row \cup {None}]
  /\ \A a \in Agent : /\ rows'[a] = None <=> rows[a] = None
                      /\ rows[a] # None => /\ rows'[a].owner = rows[a].owner
                                           /\ rows'[a].speaks = rows[a].speaks

LEMMA ColumnWrite ==
  ASSUME rows \in [Agent -> Row \cup {None}], NEW a \in Agent, NEW new,
         rows[a] # None => /\ new \in Row
                           /\ new.owner = rows[a].owner
                           /\ new.speaks = rows[a].speaks,
         UpdateRow(a, new)
  PROVE  KeepsRows
<1>1. CASE rows[a] = None
  BY <1>1 DEF UpdateRow, KeepsRows
<1>2. CASE rows[a] # None
  <2>1. rows' = [rows EXCEPT ![a] = new] /\ new \in Row
    BY <1>2 DEF UpdateRow
  <2>2. new # None
    BY <2>1, NoneIsNoRow
  <2>. QED
    BY <1>2, <2>1, <2>2 DEF KeepsRows
<1>. QED
  BY <1>1, <1>2

(* The columns that statements by id write.                                 *)
LEMMA StateWrite ==
  ASSUME rows \in [Agent -> Row \cup {None}], NEW a \in Agent,
         NEW s \in {"online", "stale", "away"},
         UpdateRow(a, [rows[a] EXCEPT !.state = s])
  PROVE  KeepsRows
<1>. DEFINE new == [rows[a] EXCEPT !.state = s]
<1>1. rows[a] # None => /\ new \in Row
                        /\ new.owner = rows[a].owner
                        /\ new.speaks = rows[a].speaks
  BY DEF Row
<1>2. UpdateRow(a, new)
  OBVIOUS
<1>. HIDE DEF new
<1>. QED
  BY <1>1, <1>2, ColumnWrite

LEMMA PrivateWrite ==
  ASSUME rows \in [Agent -> Row \cup {None}], NEW a \in Agent, NEW flag,
         SetAccessFlags(a, flag)
  PROVE  KeepsRows
<1>. DEFINE new == [rows[a] EXCEPT !.private = flag = "private"]
<1>0. (flag = "private") \in BOOLEAN
  OBVIOUS
<1>1. rows[a] # None => /\ new \in Row
                        /\ new.owner = rows[a].owner
                        /\ new.speaks = rows[a].speaks
  BY <1>0 DEF Row
<1>2. UpdateRow(a, new)
  BY DEF SetAccessFlags
<1>. HIDE DEF new
<1>. QED
  BY <1>1, <1>2, ColumnWrite

LEMMA OwnerWrite ==
  ASSUME rows \in [Agent -> Row \cup {None}], NEW a \in Agent, NEW merged,
         rows[a] # None => merged = rows[a].owner,
         UpdateMetadata(a, merged)
  PROVE  KeepsRows
<1>. DEFINE new == [rows[a] EXCEPT !.owner = merged]
<1>1. rows[a] # None => /\ new \in Row
                        /\ new.owner = rows[a].owner
                        /\ new.speaks = rows[a].speaks
  BY DEF Row
<1>2. UpdateRow(a, new)
  BY DEF UpdateMetadata
<1>. HIDE DEF new
<1>. QED
  BY <1>1, <1>2, ColumnWrite

(* The steps that write no route, and no row but such columns: what          *)
(* goroutines are at changes to what fits.                                  *)
LEMMA QuietStep ==
  ASSUME RegIInv, KeepsRows,
         handler' \in [Handler -> Task],
         \A h \in Handler :
            \/ handler'[h] = handler[h]
            \/ handler[h].at \notin {"route", "unroute"} /\ Fits(handler'[h]),
         todo' \in SUBSET Agent, faults' \in 0..MaxFaults,
         UNCHANGED <<routes, history>>
  PROVE  RegIInv' /\ KeepsRows
<1>1. TypeOK'
  BY DEF RegIInv, TypeOK, history, KeepsRows
<1>2. RowInv'
  BY DEF RegIInv, TypeOK, RowInv, history, KeepsRows
<1>3. TaskInv'
  <2>. SUFFICES ASSUME NEW h \in Handler PROVE Fits(handler[h])'
    BY DEF TaskInv
  <2>1. Fits(handler'[h])
    BY DEF RegIInv, TaskInv
  <2>2. registered \subseteq Agent
    BY DEF RegIInv, TypeOK
  <2>. QED
    BY <2>1, <2>2 DEF Fits, history, KeepsRows
<1>4. RouteInv'
  BY DEF RegIInv, TypeOK, RouteInv, At, history, KeepsRows
<1>. QED
  BY <1>1, <1>2, <1>3, <1>4 DEF RegIInv

LEMMA SameRows ==
  ASSUME rows \in [Agent -> Row \cup {None}], UNCHANGED rows
  PROVE  KeepsRows
BY DEF KeepsRows

(* A goroutine is done, or goes on with a task.                             *)
LEMMA IdleFits == Idle \in Task /\ Fits(Idle) /\ Idle.at = "idle"
  <1>1. "keep" \in Flag
    BY DEF Flag
  <1>. QED
    BY <1>1 DEF Idle, Task, Fits

LEMMA FaultFits ==
  ASSUME faults \in 0..MaxFaults, Fault \/ UNCHANGED faults
  PROVE  faults' \in 0..MaxFaults
BY FaultBound DEF Fault

LEMMA QuietFlags ==
  ASSUME RegIInv, NEW h \in Handler,
         ReadFlags(h) \/ ReadFlagsFails(h) \/ SetFlags(h) \/ SetFlagsFails(h)
  PROVE  RegIInv' /\ KeepsRows
<1>1. /\ handler \in [Handler -> Task] /\ Fits(handler[h])
      /\ rows \in [Agent -> Row \cup {None}] /\ todo \in SUBSET Agent
      /\ faults \in 0..MaxFaults /\ registered \in SUBSET Agent
  BY DEF RegIInv, TypeOK, TaskInv
<1>2. faults' \in 0..MaxFaults
  <2>1. Fault \/ UNCHANGED faults
    BY Zenon DEF ReadFlags, ReadFlagsFails, SetFlags, SetFlagsFails
  <2>. QED
    BY <1>1, <2>1, FaultFits
<1>3. UNCHANGED <<routes, todo, history>>
  BY Zenon DEF ReadFlags, ReadFlagsFails, SetFlags, SetFlagsFails
<1>4. CASE ReadFlags(h) \/ ReadFlagsFails(h)
  <2>1. PICK f \in {"private", "default"} :
          handler' = [handler EXCEPT ![h].at = "flags", ![h].flag = f]
    BY <1>4 DEF ReadFlags, ReadFlagsFails, GetAccessFlags
  <2>2. handler' \in [Handler -> Task] /\ handler'[h].at = "flags"
        /\ handler'[h].flag = f /\ handler'[h].agent = handler[h].agent
    BY <1>1, <2>1 DEF Task, Flag
  <2>3. handler[h].at = "read flags"
    BY <1>4 DEF ReadFlags, ReadFlagsFails, At
  <2>4. Fits(handler'[h])
    BY <1>1, <2>2, <2>3 DEF Fits
  <2>5. KeepsRows
    BY <1>1, <1>4, SameRows DEF ReadFlags, ReadFlagsFails
  <2>6. \A k \in Handler : k # h => handler'[k] = handler[k]
    BY <1>1, <2>1
  <2>. QED
    BY <1>1, <1>2, <1>3, <2>2, <2>3, <2>4, <2>5, <2>6, QuietStep
<1>5. CASE SetFlags(h) \/ SetFlagsFails(h)
  <2>1. handler' = [handler EXCEPT ![h] = Idle] /\ handler[h].at = "flags"
    BY <1>5 DEF SetFlags, SetFlagsFails, Done, At
  <2>2. handler[h].agent \in Agent
    BY <1>1, <2>1 DEF Fits
  <2>3. KeepsRows
    BY <1>1, <1>5, <2>2, SameRows, PrivateWrite DEF SetFlags, SetFlagsFails
  <2>. QED
    BY <1>1, <1>2, <1>3, <2>1, <2>3, IdleFits, QuietStep
<1>. QED
  BY <1>4, <1>5

(* Updates and deletions of a provider, up to the first write.               *)
LEMMA QuietStart ==
  ASSUME RegIInv, NEW h \in Handler, NEW u \in User, NEW a \in Agent,
         UpdateRead(h, u, a) \/ DeleteOwned(h, u, a)
  PROVE  RegIInv' /\ KeepsRows
<1>1. /\ handler \in [Handler -> Task] /\ handler[h] = Idle
      /\ rows \in [Agent -> Row \cup {None}] /\ todo \in SUBSET Agent
      /\ faults \in 0..MaxFaults
  BY DEF RegIInv, TypeOK, UpdateRead, DeleteOwned, Start
<1>2. rows[a] \in Row /\ a \in registered /\ rows[a].owner = registrant[a]
      /\ rows[a] # None
  BY DEF RegIInv, TypeOK, RowInv, UpdateRead, DeleteOwned
<1>3. UNCHANGED <<rows, routes, todo, history, faults>>
  BY Zenon DEF UpdateRead, DeleteOwned
<1>4. KeepsRows
  BY <1>1, <1>3, SameRows
<1>5. PICK task \in Task : handler' = [handler EXCEPT ![h] = task] /\ Fits(task)
  <2>1. CASE UpdateRead(h, u, a)
    <3>. DEFINE card == Get(a)
                task == [Idle EXCEPT !.at = "put", !.agent = a, !.card = card]
    <3>1. card \in Card /\ card.owner = rows[a].owner
      BY <1>2 DEF Get, Row, Card
    <3>2. handler' = [handler EXCEPT ![h] = task]
      BY <2>1 DEF UpdateRead, Start
    <3>. HIDE DEF card
    <3>3. "keep" \in Flag
      BY DEF Flag
    <3>4. task \in Task
      BY <3>1, <3>3 DEF Task, Idle
    <3>5. task.at = "put" /\ task.agent = a /\ task.card = card
      BY DEF Idle
    <3>. HIDE DEF task
    <3>6. Fits(task)
      BY <1>2, <3>1, <3>5 DEF Fits
    <3>. QED
      BY <3>2, <3>4, <3>6
  <2>2. CASE DeleteOwned(h, u, a)
    <3>. DEFINE task == [Idle EXCEPT !.at = "delete", !.agent = a]
    <3>2. handler' = [handler EXCEPT ![h] = task]
      BY <2>2 DEF DeleteOwned, Start
    <3>3. "keep" \in Flag
      BY DEF Flag
    <3>4. task \in Task
      BY <3>3 DEF Task, Idle
    <3>5. task.at = "delete" /\ task.agent = a
      BY DEF Idle
    <3>. HIDE DEF task
    <3>6. Fits(task)
      BY <1>2, <3>5 DEF Fits
    <3>. QED
      BY <3>2, <3>4, <3>6
  <2>. QED
    BY <2>1, <2>2
<1>6. handler' \in [Handler -> Task] /\ faults' \in 0..MaxFaults
  BY <1>1, <1>3, <1>5
<1>7. handler[h].at = "idle"
  BY <1>1, IdleFits
<1>. QED
  BY <1>1, <1>3, <1>4, <1>5, <1>6, <1>7, QuietStep

(* Heartbeats and their metadata.                                           *)
LEMMA QuietHeartbeat ==
  ASSUME RegIInv, NEW h \in Handler, NEW a \in Agent, NEW s \in {"online", "away"},
         Heartbeat(h, a, s) \/ \E m \in User \cup {None} : HeartbeatMerge(h, a, s, m)
  PROVE  RegIInv' /\ KeepsRows
<1>1. /\ handler \in [Handler -> Task] /\ handler[h] = Idle
      /\ rows \in [Agent -> Row \cup {None}] /\ todo \in SUBSET Agent
      /\ faults \in 0..MaxFaults
  BY DEF RegIInv, TypeOK, Heartbeat, HeartbeatMerge, Start
<1>2. UNCHANGED <<routes, todo, history, faults>>
  BY Zenon DEF Heartbeat, HeartbeatMerge
<1>3. KeepsRows
  BY <1>1, StateWrite DEF Heartbeat, HeartbeatMerge, UpdateHeartbeat
<1>4. handler[h].at = "idle"
  BY <1>1, IdleFits
<1>5. CASE Heartbeat(h, a, s)
  BY <1>1, <1>2, <1>3, <1>5, QuietStep DEF Heartbeat
<1>6. CASE \E m \in User \cup {None} : HeartbeatMerge(h, a, s, m)
  <2>. DEFINE task == [Idle EXCEPT !.at = "merge", !.agent = a, !.owner = None]
  <2>1. handler' = [handler EXCEPT ![h] = task]
    BY <1>6 DEF HeartbeatMerge, Start, StripOwner
  <2>2. a \in registered
    BY <1>6 DEF HeartbeatMerge, RegIInv, RowInv
  <2>3. "keep" \in Flag
    BY DEF Flag
  <2>4. task \in Task
    BY <2>3 DEF Task, Idle
  <2>5. task.at = "merge" /\ task.agent = a /\ task.owner = None
    BY DEF Idle
  <2>. HIDE DEF task
  <2>6. Fits(task)
    BY <2>2, <2>5 DEF Fits
  <2>7. handler' \in [Handler -> Task]
    BY <1>1, <2>1, <2>4
  <2>. QED
    BY <1>1, <1>2, <1>3, <1>4, <2>1, <2>6, <2>7, QuietStep
<1>. QED
  BY <1>5, <1>6

LEMMA QuietMerge ==
  ASSUME RegIInv, NEW h \in Handler, MergeRead(h) \/ MergeWrite(h)
  PROVE  RegIInv' /\ KeepsRows
<1>1. /\ handler \in [Handler -> Task] /\ Fits(handler[h])
      /\ rows \in [Agent -> Row \cup {None}] /\ todo \in SUBSET Agent
      /\ faults \in 0..MaxFaults /\ registered \in SUBSET Agent
      /\ RowInv
  BY DEF RegIInv, TypeOK, TaskInv
<1>2. handler[h].at \in {"merge", "write"} /\ handler[h].agent \in Agent
  BY <1>1 DEF MergeRead, MergeWrite, At, Fits
<1>3. UNCHANGED <<routes, todo, history, faults>>
  BY Zenon DEF MergeRead, MergeWrite
<1>4. CASE MergeRead(h)
  <2>1. KeepsRows
    BY <1>1, <1>4, SameRows DEF MergeRead
  <2>2. CASE rows[handler[h].agent] = None
    <3>1. handler' = [handler EXCEPT ![h] = Idle]
      BY <1>4, <2>2 DEF MergeRead, Done
    <3>. QED
      BY <1>1, <1>2, <1>3, <2>1, <3>1, IdleFits, QuietStep
  <2>3. CASE rows[handler[h].agent] # None
    <3>. DEFINE owner == registrant[handler[h].agent]
    <3>1. handler[h].owner = None /\ owner = rows[handler[h].agent].owner
      BY <1>1, <1>2, <1>4, <2>3 DEF MergeRead, At, Fits, RowInv
    <3>2. owner \in User \cup {None}
      BY <1>2 DEF RegIInv, TypeOK
    <3>3. handler' = [handler EXCEPT ![h].at = "write", ![h].owner = owner]
      BY <1>1, <1>4, <2>3, <3>1 DEF MergeRead, Merge
    <3>. HIDE DEF owner
    <3>4. handler' \in [Handler -> Task] /\ handler'[h].at = "write"
          /\ handler'[h].owner = owner /\ handler'[h].agent = handler[h].agent
      BY <1>1, <3>2, <3>3 DEF Task
    <3>5. Fits(handler'[h])
      BY <1>1, <1>2, <3>4 DEF Fits, owner
    <3>6. \A k \in Handler : k # h => handler'[k] = handler[k]
      BY <1>1, <3>3
    <3>. QED
      BY <1>1, <1>2, <1>3, <2>1, <3>4, <3>5, <3>6, QuietStep
  <2>. QED
    BY <2>2, <2>3
<1>5. CASE MergeWrite(h)
  <2>1. handler' = [handler EXCEPT ![h] = Idle] /\ handler[h].at = "write"
    BY <1>5 DEF MergeWrite, Done, At
  <2>2. handler[h].owner = registrant[handler[h].agent]
    BY <1>1, <2>1 DEF Fits
  <2>3. KeepsRows
    BY <1>1, <1>2, <1>5, <2>2, OwnerWrite DEF MergeWrite, RowInv
  <2>. QED
    BY <1>1, <1>2, <1>3, <2>1, <2>3, IdleFits, QuietStep
<1>. QED
  BY <1>4, <1>5

(* Time and the checker.                                                    *)
LEMMA QuietChecker ==
  ASSUME RegIInv,
         \/ \E a \in Agent : Silence(a)
         \/ Check
  PROVE  RegIInv' /\ KeepsRows
<1>1. /\ handler \in [Handler -> Task]
      /\ rows \in [Agent -> Row \cup {None}] /\ todo \in SUBSET Agent
      /\ faults \in 0..MaxFaults
  BY DEF RegIInv, TypeOK
<1>2. UNCHANGED <<handler, routes, history>>
  BY Zenon DEF Silence, Check, CheckerTick, CheckerStep, CheckerStepFails
<1>3. todo' \in SUBSET Agent
  BY <1>1 DEF Silence, Check, CheckerTick, CheckerStep, CheckerStepFails, StaleOnlineAgents
<1>4. faults' \in 0..MaxFaults
  <2>1. Fault \/ UNCHANGED faults
    BY Zenon DEF Silence, Check, CheckerTick, CheckerStep, CheckerStepFails
  <2>. QED
    BY <1>1, <2>1, FaultFits
<1>5. KeepsRows
  <2>1. CASE \E a \in Agent : Silence(a)
    <3>1. PICK a \in Agent : Silence(a)
      BY <2>1
    <3>2. UpdateRow(a, [rows[a] EXCEPT !.state = "stale"])
      BY <3>1 DEF Silence, UpdateRow
    <3>. QED
      BY <1>1, <3>2, StateWrite
  <2>2. CASE CheckerTick \/ \E a \in Agent : CheckerStepFails(a)
    <3>1. UNCHANGED rows
      BY <2>2, Zenon DEF CheckerTick, CheckerStepFails
    <3>. QED
      BY <1>1, <3>1, SameRows
  <2>3. CASE \E a \in Agent : CheckerStep(a)
    BY <1>1, <2>3, StateWrite DEF CheckerStep, UpdateStatus
  <2>. QED
    BY <2>1, <2>2, <2>3 DEF Check
<1>. QED
  BY <1>1, <1>2, <1>3, <1>4, <1>5, QuietStep

-----------------------------------------------------------------------------
(* The steps that write routes or whole rows.                               *)
LEMMA RouteStep ==
  ASSUME RegIInv, NEW h \in Handler, Route(h)
  PROVE  RegIInv'
<1>. DEFINE a == handler[h].agent
            ps == handler[h].card.speaks
            task == AfterRoute(h)
<1>1. /\ handler \in [Handler -> Task] /\ handler[h] \in Task /\ Fits(handler[h])
      /\ handler[h].at = "route"
  BY DEF RegIInv, TypeOK, TaskInv, Route, At
<1>2. a \in Agent /\ handler[h].card \in Card
  BY <1>1 DEF Fits, RegIInv, TypeOK
<1>3. ps \in SUBSET Protocol
  BY <1>2 DEF Card, Protocols
<1>4. /\ routes' = [routes EXCEPT ![a] = @ \cup ps]
      /\ handler' = [handler EXCEPT ![h] = task]
  BY DEF Route, AddRoutes
<1>5. UNCHANGED <<rows, todo, registered, registrant, overlap, restarted, faults>>
  BY DEF Route, history
<1>6. task \in Task /\ Fits(task) /\ task.at \in {"idle", "read flags", "flags"}
  <2>1. CASE handler[h].flag = "keep"
    BY <2>1, IdleFits DEF AfterRoute
  <2>2. CASE handler[h].flag # "keep"
    <3>. DEFINE stage == IF handler[h].flag = "other" THEN "read flags" ELSE "flags"
    <3>1. task = [handler[h] EXCEPT !.at = stage, !.card = None]
      BY <2>2 DEF AfterRoute
    <3>2. stage \in {"read flags", "flags"}
          /\ (stage = "flags" => handler[h].flag \in {"private", "public", "default"})
      BY <1>1, <2>2 DEF Task, Flag
    <3>. HIDE DEF stage, task
    <3>3. task \in Task /\ task.at = stage /\ task.flag = handler[h].flag
          /\ task.agent = handler[h].agent
      BY <1>1, <3>1, <3>2 DEF Task
    <3>. QED
      BY <1>1, <3>2, <3>3 DEF Fits
  <2>. QED
    BY <2>1, <2>2
<1>. HIDE DEF task
<1>7. TypeOK'
  <2>1. routes' \in [Agent -> SUBSET Protocol]
    BY <1>3, <1>4 DEF RegIInv, TypeOK
  <2>2. handler' \in [Handler -> Task]
    BY <1>1, <1>4, <1>6
  <2>. QED
    BY <1>5, <2>1, <2>2 DEF RegIInv, TypeOK
<1>8. RowInv'
  BY <1>5 DEF RegIInv, RowInv
<1>9. TaskInv'
  <2>. SUFFICES ASSUME NEW k \in Handler PROVE Fits(handler[k])'
    BY DEF TaskInv
  <2>1. Fits(handler'[k])
    BY <1>1, <1>4, <1>6 DEF RegIInv, TaskInv
  <2>. QED
    BY <1>5, <2>1 DEF Fits
<1>10. RouteInv'
  <2>. SUFFICES ASSUME NEW b \in Agent \ overlap
                PROVE /\ routes'[b] # {} /\ rows[b] = None =>
                           \E k \in Handler : handler'[k].at = "unroute" /\ handler'[k].agent = b
                      /\ rows[b] # None /\ b \notin restarted =>
                           \/ rows[b].speaks \subseteq routes'[b]
                           \/ \E k \in Handler : /\ handler'[k].at = "route" /\ handler'[k].agent = b
                                                 /\ handler'[k].card.speaks = rows[b].speaks
    BY <1>5 DEF RouteInv, At
  <2>1. /\ routes[b] # {} /\ rows[b] = None =>
             \E k \in Handler : handler[k].at = "unroute" /\ handler[k].agent = b
        /\ rows[b] # None /\ b \notin restarted =>
             \/ rows[b].speaks \subseteq routes[b]
             \/ \E k \in Handler : /\ handler[k].at = "route" /\ handler[k].agent = b
                                   /\ handler[k].card.speaks = rows[b].speaks
    BY DEF RegIInv, RouteInv, At
  <2>2. \A k \in Handler : k # h => handler'[k] = handler[k]
    BY <1>1, <1>4
  <2>3. CASE b = a
    <3>1. rows[b] # None
      BY <1>1, <2>3 DEF Fits
    <3>2. routes'[b] = routes[b] \cup ps
      BY <1>2, <1>4, <2>3 DEF RegIInv, TypeOK
    <3>. QED
      BY <2>1, <2>2, <3>1, <3>2
  <2>4. CASE b # a
    <3>1. routes'[b] = routes[b]
      BY <1>4, <2>4 DEF RegIInv, TypeOK
    <3>. QED
      BY <1>1, <2>1, <2>2, <2>4, <3>1
  <2>. QED
    BY <2>3, <2>4
<1>. QED
  BY <1>7, <1>8, <1>9, <1>10 DEF RegIInv

LEMMA UpdatePutStep ==
  ASSUME RegIInv, NEW h \in Handler, NEW ps \in SUBSET Protocol,
         NEW flag \in Flag \ {"default"}, UpdatePut(h, ps, flag)
  PROVE  /\ RegIInv' /\ At(h, "put")
         /\ \E row \in Row : /\ rows' = [rows EXCEPT ![handler[h].agent] = row]
                             /\ rows[handler[h].agent] # None =>
                                  row.private = rows[handler[h].agent].private
<1>. DEFINE a == handler[h].agent
            card == IF ps = {} THEN handler[h].card
                    ELSE [handler[h].card EXCEPT !.speaks = ps]
            task == [handler[h] EXCEPT !.at = "route", !.card = card, !.flag = flag]
<1>1. /\ handler \in [Handler -> Task] /\ handler[h] \in Task /\ Fits(handler[h])
      /\ handler[h].at = "put"
  BY DEF RegIInv, TypeOK, TaskInv, UpdatePut, At
<1>2. /\ a \in Agent /\ a \in registered /\ handler[h].card \in Card
      /\ handler[h].card.owner = registrant[a]
      /\ rows[a] # None \/ a \in overlap
  BY <1>1 DEF Fits, RegIInv, TypeOK
<1>3. card \in Card /\ card.owner = registrant[a]
  <2>1. ps # {} => ps \in Protocols
    BY DEF Protocols
  <2>. QED
    BY <1>2, <2>1 DEF Card
<1>4. Put(a, card) /\ handler' = [handler EXCEPT ![h] = task]
  BY Zenon DEF UpdatePut
<1>5. UNCHANGED <<routes, todo, registered, registrant, overlap, restarted, faults>>
  BY DEF UpdatePut, history
<1>. HIDE DEF card
<1>6. task \in Task /\ task.at = "route" /\ task.agent = a /\ task.card = card
  BY <1>1, <1>3 DEF Task
<1>7. PICK row \in Row : /\ rows' = [rows EXCEPT ![a] = row]
                         /\ row.owner = registrant[a] /\ row.speaks = card.speaks
                         /\ rows[a] # None => row.private = rows[a].private
  BY <1>2, <1>3, <1>4, PutRow DEF RegIInv, TypeOK
<1>8. row # None
  BY NoneIsNoRow
<1>. HIDE DEF task
<1>9. TypeOK'
  BY <1>1, <1>4, <1>5, <1>6, <1>7 DEF RegIInv, TypeOK
<1>10. RowInv'
  BY <1>2, <1>5, <1>7 DEF RegIInv, TypeOK, RowInv
<1>11. TaskInv'
  <2>. SUFFICES ASSUME NEW k \in Handler PROVE Fits(handler[k])'
    BY DEF TaskInv
  <2>1. CASE k = h
    <3>1. handler'[k] = task
      BY <1>1, <1>4, <2>1
    <3>2. rows'[a] # None
      BY <1>2, <1>7, <1>8 DEF RegIInv, TypeOK
    <3>. QED
      BY <1>2, <1>3, <1>5, <1>6, <3>1, <3>2 DEF Fits
  <2>2. CASE k # h
    <3>1. handler'[k] = handler[k] /\ Fits(handler[k])
      BY <1>1, <1>4, <2>2 DEF RegIInv, TaskInv
    <3>2. \A b \in Agent : b # a => rows'[b] = rows[b]
      BY <1>7 DEF RegIInv, TypeOK
    <3>3. rows'[a] # None
      BY <1>2, <1>7, <1>8 DEF RegIInv, TypeOK
    <3>4. registered \subseteq Agent
      BY DEF RegIInv, TypeOK
    <3>. QED
      BY <1>2, <1>5, <3>1, <3>2, <3>3, <3>4 DEF Fits
  <2>. QED
    BY <2>1, <2>2
<1>12. RouteInv'
  BY <1>1, <1>2, <1>4, <1>5, <1>6, <1>7, <1>8 DEF RegIInv, TypeOK, RouteInv, At
<1>. QED
  BY <1>1, <1>7, <1>9, <1>10, <1>11, <1>12 DEF RegIInv, At

(* A deletion of the row, by its owner's handler or without a look at it.   *)
LEMMA DeregisterStep ==
  ASSUME RegIInv, NEW h \in Handler,
         DeleteRow(h) \/ \E b \in Agent : DeleteAny(h, b)
  PROVE  RegIInv' /\ \E b \in Agent : rows' = [rows EXCEPT ![b] = None]
<1>1. PICK a \in Agent : /\ Deregister(a, h)
                         /\ handler[h].at \in {"idle", "delete"}
  <2>1. CASE DeleteRow(h)
    <3>1. handler[h].agent \in Agent
      BY <2>1 DEF DeleteRow, At, RegIInv, TypeOK, TaskInv, Fits
    <3>. QED
      BY <2>1, <3>1 DEF DeleteRow, At
  <2>2. CASE \E b \in Agent : DeleteAny(h, b)
    BY <2>2, IdleFits DEF DeleteAny
  <2>. QED
    BY <2>1, <2>2
<1>2. handler \in [Handler -> Task] /\ rows \in [Agent -> Row \cup {None}]
  BY DEF RegIInv, TypeOK
<1>3. /\ rows' = [rows EXCEPT ![a] = None]
      /\ UNCHANGED <<routes, todo, registered, registrant, restarted, faults>>
  BY <1>1 DEF Deregister, Delete
<1>4. rows'[a] = None /\ \A b \in Agent : b # a => rows'[b] = rows[b]
  BY <1>2, <1>3
<1>5. /\ overlap \subseteq overlap' /\ overlap' \subseteq overlap \cup {a}
      /\ rows[a] # None /\ Writing(a) => a \in overlap'
  BY <1>1 DEF Deregister
<1>6. PICK task \in Task :
        /\ handler' = [handler EXCEPT ![h] = task]
        /\ \/ task.at = "idle" /\ rows[a] = None
           \/ task.at = "unroute" /\ task.agent = a /\ rows[a] # None
  <2>1. CASE rows[a] = None
    BY <1>1, <2>1, IdleFits DEF Deregister
  <2>2. CASE rows[a] # None
    <3>. DEFINE task == [Idle EXCEPT !.at = "unroute", !.agent = a]
    <3>1. handler' = [handler EXCEPT ![h] = task]
      BY <1>1, <2>2 DEF Deregister
    <3>2. "keep" \in Flag
      BY DEF Flag
    <3>3. task \in Task /\ task.at = "unroute" /\ task.agent = a
      BY <3>2 DEF Task, Idle
    <3>. HIDE DEF task
    <3>. QED
      BY <2>2, <3>1, <3>3
  <2>. QED
    BY <2>1, <2>2
<1>7. \A k \in Handler : k # h => handler'[k] = handler[k]
  BY <1>2, <1>6
<1>8. handler'[h] = task
  BY <1>2, <1>6
<1>9. TypeOK'
  BY <1>2, <1>3, <1>5, <1>6 DEF RegIInv, TypeOK
<1>10. RowInv'
  BY <1>3, <1>4 DEF RegIInv, RowInv
<1>11. TaskInv'
  <2>. SUFFICES ASSUME NEW k \in Handler PROVE Fits(handler[k])'
    BY DEF TaskInv
  <2>1. registered \subseteq Agent
    BY DEF RegIInv, TypeOK
  <2>2. CASE k = h
    <3>1. task.at = "unroute" => a \in registered
      BY <1>6 DEF RegIInv, RowInv
    <3>. QED
      BY <1>3, <1>4, <1>6, <1>8, <2>2, <3>1 DEF Fits
  <2>3. CASE k # h
    <3>1. handler'[k] = handler[k] /\ Fits(handler[k])
      BY <1>7, <2>3 DEF RegIInv, TaskInv
    <3>2. handler[k].at \in {"put", "route"} /\ handler[k].agent = a => a \in overlap'
      BY <1>5, <3>1 DEF Fits, Writing
    <3>. QED
      BY <1>3, <1>4, <1>5, <2>1, <3>1, <3>2 DEF Fits
  <2>. QED
    BY <2>2, <2>3
<1>12. RouteInv'
  <2>. SUFFICES ASSUME NEW b \in Agent, b \notin overlap'
                PROVE /\ routes[b] # {} /\ rows'[b] = None =>
                           \E k \in Handler : handler'[k].at = "unroute" /\ handler'[k].agent = b
                      /\ rows'[b] # None /\ b \notin restarted =>
                           \/ rows'[b].speaks \subseteq routes[b]
                           \/ \E k \in Handler : /\ handler'[k].at = "route" /\ handler'[k].agent = b
                                                 /\ handler'[k].card.speaks = rows'[b].speaks
    BY <1>3 DEF RouteInv, At
  <2>1. /\ routes[b] # {} /\ rows[b] = None =>
             \E k \in Handler : handler[k].at = "unroute" /\ handler[k].agent = b
        /\ rows[b] # None /\ b \notin restarted =>
             \/ rows[b].speaks \subseteq routes[b]
             \/ \E k \in Handler : /\ handler[k].at = "route" /\ handler[k].agent = b
                                   /\ handler[k].card.speaks = rows[b].speaks
    BY <1>5 DEF RegIInv, RouteInv, At
  <2>. QED
    BY <1>1, <1>4, <1>6, <1>7, <1>8, <2>1
<1>. QED
  BY <1>3, <1>9, <1>10, <1>11, <1>12 DEF RegIInv

LEMMA UnrouteStep ==
  ASSUME RegIInv, NEW h \in Handler, Unroute(h)
  PROVE  RegIInv'
<1>. DEFINE a == handler[h].agent
<1>1. /\ handler \in [Handler -> Task] /\ Fits(handler[h])
      /\ handler[h].at = "unroute"
  BY DEF RegIInv, TypeOK, TaskInv, Unroute, At
<1>2. a \in Agent /\ (rows[a] = None \/ a \in overlap)
  BY <1>1 DEF Fits, RegIInv, TypeOK
<1>3. /\ handler' = [handler EXCEPT ![h] = Idle]
      /\ routes' = [routes EXCEPT ![a] = {}]
      /\ UNCHANGED <<rows, todo, registered, registrant, overlap, restarted, faults>>
  BY DEF Unroute, Done, history
<1>4. TypeOK'
  <2>1. handler' \in [Handler -> Task]
    BY <1>1, <1>3, IdleFits
  <2>. QED
    BY <1>3, <2>1 DEF RegIInv, TypeOK
<1>5. RowInv'
  BY <1>3 DEF RegIInv, RowInv
<1>6. TaskInv'
  <2>. SUFFICES ASSUME NEW k \in Handler PROVE Fits(handler[k])'
    BY DEF TaskInv
  <2>1. Fits(handler'[k])
    BY <1>1, <1>3, IdleFits DEF RegIInv, TaskInv
  <2>. QED
    BY <1>3, <2>1 DEF Fits
<1>7. RouteInv'
  BY <1>1, <1>2, <1>3, IdleFits DEF RegIInv, TypeOK, RouteInv, At
<1>. QED
  BY <1>4, <1>5, <1>6, <1>7 DEF RegIInv

LEMMA CrashStep ==
  ASSUME RegIInv, Crash
  PROVE  RegIInv'
<1>1. /\ handler' = [h \in Handler |-> Idle] /\ routes' = [a \in Agent |-> {}]
      /\ todo' = {} /\ restarted' = registered
      /\ UNCHANGED <<rows, registered, registrant, overlap>>
  BY DEF Crash
<1>2. faults' \in 0..MaxFaults
  BY FaultFits DEF Crash, RegIInv, TypeOK
<1>3. TypeOK'
  BY <1>1, <1>2, IdleFits DEF RegIInv, TypeOK
<1>4. RowInv'
  BY <1>1 DEF RegIInv, RowInv
<1>5. TaskInv'
  <2>. SUFFICES ASSUME NEW k \in Handler PROVE Fits(handler[k])'
    BY DEF TaskInv
  <2>1. handler'[k].at = "idle"
    BY <1>1, IdleFits
  <2>. QED
    BY <2>1 DEF Fits
<1>6. RouteInv'
  BY <1>1 DEF RegIInv, RowInv, RouteInv
<1>. QED
  BY <1>3, <1>4, <1>5, <1>6 DEF RegIInv

-----------------------------------------------------------------------------
(* The registrations, for nobody and for a user.                            *)
Registers(h) ==
  \/ \E a \in Agent, m \in User \cup {None}, ps \in Protocols : RegisterOpen(h, a, m, ps)
  \/ \E a \in Agent, u \in User, m \in User \cup {None}, ps \in Protocols,
        f \in {"keep", "private", "public"} : RegisterProvider(h, a, u, m, ps, f)

LEMMA RegistersStep ==
  ASSUME RegIInv, NEW h \in Handler, Registers(h)
  PROVE  /\ RegIInv'
         /\ \E a \in Agent \ registered : \E row \in Row : rows' = [rows EXCEPT ![a] = row]
<1>1. CASE \E a \in Agent, m \in User \cup {None}, ps \in Protocols : RegisterOpen(h, a, m, ps)
  <2>1. PICK a \in Agent, ps \in Protocols :
          /\ Start(h, [Idle EXCEPT !.at = "route", !.agent = a,
                                   !.card = NewCard(None, None, ps),
                                   !.flag = "keep"])
          /\ Register(a, None, None, ps)
          /\ UNCHANGED <<routes, todo, overlap, restarted, faults>>
    BY <1>1 DEF RegisterOpen, StripOwner
  <2>2. NewCard(None, None, ps) \in Card
    BY DEF NewCard, Card
  <2>3. \E row \in Row : rows' = [rows EXCEPT ![a] = row]
    BY <2>1, <2>2, PutRow DEF Register, RegIInv, TypeOK
  <2>4. "keep" \in Flag
    BY DEF Flag
  <2>6. RegIInv'
    BY <2>1, <2>4, RegisterStep
  <2>. QED
    BY <2>1, <2>3, <2>6 DEF Register
<1>2. CASE \E a \in Agent, u \in User, m \in User \cup {None}, ps \in Protocols,
              f \in {"keep", "private", "public"} : RegisterProvider(h, a, u, m, ps, f)
  <2>1. PICK a \in Agent, u \in User, m \in User \cup {None}, ps \in Protocols,
             f \in {"keep", "private", "public"} : RegisterProvider(h, a, u, m, ps, f)
    BY <1>2
  <2>2. NewCard(m, u, ps) \in Card
    BY DEF NewCard, Card
  <2>3. \E row \in Row : rows' = [rows EXCEPT ![a] = row]
    BY <2>1, <2>2, PutRow DEF RegisterProvider, Register, RegIInv, TypeOK
  <2>4. f \in Flag
    BY DEF Flag
  <2>5. u # None
    BY NoneIsNoValue
  <2>6. RegIInv'
    BY <2>1, <2>4, <2>5, RegisterStep DEF RegisterProvider
  <2>. QED
    BY <2>1, <2>3, <2>6 DEF RegisterProvider, Register
<1>. QED
  BY <1>1, <1>2 DEF Registers

(* The steps, by what they do to the rows.                                  *)
Updates(h) ==
  \E ps \in SUBSET Protocol, f \in Flag \ {"default"} : UpdatePut(h, ps, f)

Deletes(h) == DeleteRow(h) \/ \E a \in Agent : DeleteAny(h, a)

Flags(h) == ReadFlags(h) \/ ReadFlagsFails(h) \/ SetFlags(h) \/ SetFlagsFails(h)

Starts(h) == \E u \in User, a \in Agent : UpdateRead(h, u, a) \/ DeleteOwned(h, u, a)

Beats(h) == \E a \in Agent, s \in {"online", "away"} :
              Heartbeat(h, a, s) \/ \E m \in User \cup {None} : HeartbeatMerge(h, a, s, m)

Merges(h) == MergeRead(h) \/ MergeWrite(h)

Routes(h) == Route(h) \/ Unroute(h)

Timed == (\E a \in Agent : Silence(a)) \/ Check

LEMMA Steps ==
  ASSUME Next
  PROVE  \/ \E h \in Handler : \/ Registers(h) \/ Updates(h) \/ Deletes(h) \/ Flags(h)
                               \/ Starts(h) \/ Beats(h) \/ Merges(h) \/ Routes(h)
         \/ Timed
         \/ Crash
<1>1. ASSUME NEW h \in Handler, Serve(h)
      PROVE  \/ Registers(h) \/ Updates(h) \/ Deletes(h) \/ Flags(h)
             \/ Starts(h) \/ Beats(h) \/ Merges(h) \/ Routes(h)
  <2>1. handleRegister(h) => Registers(h) \/ Routes(h)
    BY Zenon DEF handleRegister, Registers, Routes
  <2>2. handleProviderRegisterAgent(h) => Registers(h) \/ Routes(h) \/ Flags(h)
    BY Zenon DEF handleProviderRegisterAgent, Registers, Routes, Flags
  <2>3. handleProviderUpdateAgent(h) => Starts(h) \/ Updates(h) \/ Routes(h) \/ Flags(h)
    BY Zenon DEF handleProviderUpdateAgent, Starts, Updates, Routes, Flags
  <2>4. handleProviderDeleteAgent(h) => Starts(h) \/ Deletes(h) \/ Routes(h)
    BY Zenon DEF handleProviderDeleteAgent, Starts, Deletes, Routes
  <2>5. handleDeregister(h) => Deletes(h) \/ Routes(h)
    BY Zenon DEF handleDeregister, Deletes, Routes
  <2>6. handleHeartbeat(h) => Beats(h) \/ Merges(h)
    BY Zenon DEF handleHeartbeat, Beats, Merges
  <2>. QED
    BY <1>1, <2>1, <2>2, <2>3, <2>4, <2>5, <2>6, Zenon DEF Serve
<1>. QED
  BY <1>1, Zenon DEF Next, Timed

LEMMA InitInv == Init => RegIInv
<1>. SUFFICES ASSUME Init PROVE RegIInv
  OBVIOUS
<1>1. faults \in 0..MaxFaults
  BY FaultBound DEF Init
<1>2. TypeOK
  BY <1>1, IdleFits DEF Init, TypeOK
<1>3. RowInv
  BY DEF Init, RowInv
<1>4. TaskInv
  BY IdleFits DEF Init, TaskInv
<1>5. RouteInv
  BY DEF Init, RouteInv
<1>. QED
  BY <1>2, <1>3, <1>4, <1>5 DEF RegIInv

LEMMA StepInv == RegIInv /\ [Next]_vars => RegIInv'
<1>. SUFFICES ASSUME RegIInv, [Next]_vars PROVE RegIInv'
  OBVIOUS
<1>1. CASE UNCHANGED vars
  BY <1>1 DEF vars, RegIInv, TypeOK, RowInv, TaskInv, Fits, RouteInv, At
<1>2. CASE \E h \in Handler : Registers(h)
  BY <1>2, RegistersStep
<1>3. CASE \E h \in Handler : Updates(h)
  BY <1>3, UpdatePutStep DEF Updates
<1>4. CASE \E h \in Handler : Deletes(h)
  BY <1>4, DeregisterStep DEF Deletes
<1>5. CASE \E h \in Handler : Flags(h)
  BY <1>5, QuietFlags DEF Flags
<1>6. CASE \E h \in Handler : Starts(h)
  BY <1>6, QuietStart DEF Starts
<1>7. CASE \E h \in Handler : Beats(h)
  BY <1>7, QuietHeartbeat DEF Beats
<1>8. CASE \E h \in Handler : Merges(h)
  BY <1>8, QuietMerge DEF Merges
<1>9. CASE \E h \in Handler : Routes(h)
  BY <1>9, RouteStep, UnrouteStep DEF Routes
<1>10. CASE Timed
  BY <1>10, QuietChecker DEF Timed
<1>11. CASE Crash
  BY <1>11, CrashStep
<1>. QED
  BY <1>1, <1>2, <1>3, <1>4, <1>5, <1>6, <1>7, <1>8, <1>9, <1>10, <1>11, Steps

LEMMA Inductive == Spec => []RegIInv
<1>. QED
  BY InitInv, StepInv, PTL DEF Spec

-----------------------------------------------------------------------------
(* The variables of the registry keep their types (Put, Get).               *)
THEOREM RegistryTypes == Spec => []TypeOK
<1>1. RegIInv => TypeOK
  BY DEF RegIInv
<1>. QED
  BY <1>1, Inductive, PTL

(* The owner an agent was registered with stays, whatever clients send as   *)
(* metadata and however handlers overlap (handleHeartbeat,                  *)
(* handleProviderUpdateAgent).                                              *)
THEOREM OwnerStays == Spec => []OwnerIsFixed
<1>1. RegIInv => OwnerIsFixed
  BY DEF RegIInv, RowInv, OwnerIsFixed
<1>. QED
  BY <1>1, Inductive, PTL

(* What the routing table resolves is registered, but while a handler works *)
(* on it or after a deletion overlapped a write (handleDeregister).         *)
THEOREM Resolved == Spec => []RoutedIsRegistered
<1>1. RegIInv => RoutedIsRegistered
  BY DEF RegIInv, RouteInv, RoutedIsRegistered, Resolve, GetRoutes, At
<1>. QED
  BY <1>1, Inductive, PTL

(* What an agent speaks is routed, but for restarts and deletions that      *)
(* overlapped a write (UpdateFromCard).                                     *)
THEOREM Spoken == Spec => []SpokenIsRouted
<1>1. RegIInv => SpokenIsRouted
  BY DEF RegIInv, RouteInv, SpokenIsRouted, ResolveBy, GetRoutes, At
<1>. QED
  BY <1>1, Inductive, PTL

(* Only an update that read a deleted agent before brings it back           *)
(* (handleProviderUpdateAgent).                                             *)
THEOREM Deleted == Spec => DeletedStaysDeleted
<1>1. ASSUME RegIInv, [Next]_vars, NEW a \in Agent, a \in registered, rows[a] = None,
             ~\E h \in Handler : At(h, "put") /\ handler[h].agent = a
      PROVE  rows'[a] = None
  <2>0. rows \in [Agent -> Row \cup {None}]
    BY <1>1 DEF RegIInv, TypeOK
  <2>1. CASE UNCHANGED rows
    BY <1>1, <2>1
  <2>2. CASE \E h \in Handler : Registers(h)
    BY <1>1, <2>0, <2>2, RegistersStep
  <2>3. CASE \E h \in Handler : Updates(h)
    BY <1>1, <2>0, <2>3, UpdatePutStep DEF Updates
  <2>4. CASE \E h \in Handler : Deletes(h)
    BY <1>1, <2>0, <2>4, DeregisterStep DEF Deletes
  <2>5. CASE KeepsRows
    BY <1>1, <2>5 DEF KeepsRows
  <2>6. Timed => KeepsRows
    BY <1>1, QuietChecker DEF Timed
  <2>7. \A h \in Handler : Flags(h) \/ Starts(h) \/ Beats(h) \/ Merges(h) => KeepsRows
    BY <1>1, QuietFlags, QuietStart, QuietHeartbeat, QuietMerge
    DEF Flags, Starts, Beats, Merges
  <2>8. \A h \in Handler : Routes(h) => UNCHANGED rows
    BY Zenon DEF Routes, Route, Unroute
  <2>9. Crash => UNCHANGED rows
    BY Zenon DEF Crash
  <2>10. UNCHANGED vars => UNCHANGED rows
    BY DEF vars
  <2>. QED
    BY <1>1, <2>1, <2>2, <2>3, <2>4, <2>5, <2>6, <2>7, <2>8, <2>9, <2>10, Steps
<1>2. RegIInv /\ [Next]_vars =>
        [\A a \in Agent :
           /\ a \in registered
           /\ rows[a] = None
           /\ ~\E h \in Handler : At(h, "put") /\ handler[h].agent = a
           => rows'[a] = None]_rows
  BY <1>1
<1>. QED
  BY <1>2, Inductive, PTL DEF Spec, DeletedStaysDeleted

(* What the directory and the profiles show.                                *)
LEMMA ShownIsPublic == Shown = {a \in Agent : rows[a] # None /\ ~rows[a].private}
<1>. DEFINE filter == [NoFilter EXCEPT !.public = TRUE]
<1>1. filter.public = TRUE /\ filter.orOwner = None /\ filter.owner = None
  BY DEF NoFilter
<1>. HIDE DEF filter
<1>2. \A d \in Driver : List(d, filter) = {a \in Agent : rows[a] # None /\ ~rows[a].private}
  <2>1. \A a \in Agent : Visible(a, filter) <=> ~rows[a].private
    BY <1>1 DEF Visible
  <2>. QED
    BY <1>1, <2>1 DEF List, ListSQLite, ListPostgres
<1>3. \A d \in Driver : Directory(d) = {a \in Agent : rows[a] # None /\ ~rows[a].private}
  BY <1>2 DEF Directory, filter
<1>. QED
  BY <1>3 DEF Shown, PublicProfile

LEMMA ShownIsPublicNext == (Shown = {a \in Agent : rows[a] # None /\ ~rows[a].private})'
BY ShownIsPublic, PTL

(* The rows that are there stay as private as they are.                     *)
KeepsPrivate ==
  \A a \in Agent : rows[a] # None => rows'[a] = None \/ rows'[a].private = rows[a].private

LEMMA PrivateKept ==
  ASSUME rows \in [Agent -> Row \cup {None}], NEW a \in Agent, NEW new,
         rows[a] # None => new.private = rows[a].private,
         UpdateRow(a, new)
  PROVE  KeepsPrivate
BY DEF UpdateRow, KeepsPrivate

LEMMA StateKeeps ==
  ASSUME rows \in [Agent -> Row \cup {None}], NEW a \in Agent, NEW s,
         UpdateRow(a, [rows[a] EXCEPT !.state = s])
  PROVE  KeepsPrivate
<1>. DEFINE new == [rows[a] EXCEPT !.state = s]
<1>1. rows[a] # None => new.private = rows[a].private
  BY DEF Row
<1>2. UpdateRow(a, new)
  OBVIOUS
<1>. HIDE DEF new
<1>. QED
  BY <1>1, <1>2, PrivateKept

LEMMA OwnerKeeps ==
  ASSUME rows \in [Agent -> Row \cup {None}], NEW a \in Agent, NEW merged,
         UpdateMetadata(a, merged)
  PROVE  KeepsPrivate
<1>. DEFINE new == [rows[a] EXCEPT !.owner = merged]
<1>1. rows[a] # None => new.private = rows[a].private
  BY DEF Row
<1>2. UpdateRow(a, new)
  BY DEF UpdateMetadata
<1>. HIDE DEF new
<1>. QED
  BY <1>1, <1>2, PrivateKept

(* A private agent comes to be shown only through a request that asks for   *)
(* it, or that asks neither way and found it public or could not read the   *)
(* flag (Put, SetAccessFlags).                                              *)
THEOREM StaysPrivate == Spec => PrivateUntilChanged
<1>1. ASSUME RegIInv, [Next]_vars,
             ~\E h \in Handler : SetFlags(h)
      PROVE  KeepsPrivate
  <2>0. rows \in [Agent -> Row \cup {None}]
    BY <1>1 DEF RegIInv, TypeOK
  <2>1. CASE UNCHANGED rows
    BY <2>1 DEF KeepsPrivate
  <2>2. CASE \E h \in Handler : Registers(h)
    <3>1. PICK a \in Agent \ registered : \E row \in Row : rows' = [rows EXCEPT ![a] = row]
      BY <1>1, <2>2, RegistersStep
    <3>2. rows[a] = None
      BY <1>1, <3>1 DEF RegIInv, RowInv
    <3>. QED
      BY <2>0, <3>1, <3>2 DEF KeepsPrivate
  <2>3. CASE \E h \in Handler : Updates(h)
    BY <1>1, <2>0, <2>3, UpdatePutStep DEF Updates, KeepsPrivate
  <2>4. CASE \E h \in Handler : Deletes(h)
    BY <1>1, <2>0, <2>4, DeregisterStep DEF Deletes, KeepsPrivate
  <2>5. \A h \in Handler : Beats(h) => KeepsPrivate
    BY <2>0, StateKeeps DEF Beats, Heartbeat, HeartbeatMerge, UpdateHeartbeat
  <2>6. Timed => KeepsPrivate \/ UNCHANGED rows
    <3>1. \A a \in Agent : Silence(a) => UpdateRow(a, [rows[a] EXCEPT !.state = "stale"])
      BY DEF Silence, UpdateRow
    <3>2. \A a \in Agent : CheckerStep(a) => UpdateRow(a, [rows[a] EXCEPT !.state = "away"])
      BY Zenon DEF CheckerStep, UpdateStatus
    <3>3. CheckerTick \/ (\E a \in Agent : CheckerStepFails(a)) => UNCHANGED rows
      BY Zenon DEF CheckerTick, CheckerStepFails
    <3>. QED
      BY <2>0, <3>1, <3>2, <3>3, StateKeeps DEF Timed, Check
  <2>7. \A h \in Handler : Merges(h) => KeepsPrivate \/ UNCHANGED rows
    <3>1. \A h \in Handler : MergeRead(h) => UNCHANGED rows
      BY Zenon DEF MergeRead
    <3>2. \A h \in Handler : MergeWrite(h) => handler[h].agent \in Agent
      BY <1>1 DEF MergeWrite, At, RegIInv, TypeOK, TaskInv, Fits
    <3>. QED
      BY <2>0, <3>1, <3>2, OwnerKeeps DEF Merges, MergeWrite
  <2>8. \A h \in Handler : Flags(h) => UNCHANGED rows
    BY <1>1, Zenon DEF Flags, ReadFlags, ReadFlagsFails, SetFlagsFails
  <2>9. \A h \in Handler : Starts(h) \/ Routes(h) => UNCHANGED rows
    BY Zenon DEF Starts, UpdateRead, DeleteOwned, Routes, Route, Unroute
  <2>10. Crash => UNCHANGED rows
    BY Zenon DEF Crash
  <2>11. UNCHANGED vars => UNCHANGED rows
    BY DEF vars
  <2>. QED
    BY <1>1, <2>1, <2>2, <2>3, <2>4, <2>5, <2>6, <2>7, <2>8, <2>9, <2>10, <2>11, Steps
<1>2. ASSUME RegIInv, NEW h \in Handler, SetFlags(h),
             NEW a \in Agent, rows[a] # None, rows[a].private, ~rows'[a].private
      PROVE  /\ At(h, "flags") /\ handler[h].agent = a
             /\ handler[h].flag \in {"public", "default"}
  <2>. DEFINE b == handler[h].agent
              private == handler[h].flag = "private"
  <2>1. handler[h].at = "flags" /\ handler[h].flag \in {"private", "public", "default"}
    BY <1>2 DEF SetFlags, At, RegIInv, TaskInv, Fits
  <2>2. rows' = IF rows[b] = None THEN rows
                ELSE [rows EXCEPT ![b] = [rows[b] EXCEPT !.private = private]]
    BY <1>2, Zenon DEF SetFlags, SetAccessFlags, UpdateRow
  <2>3. rows \in [Agent -> Row \cup {None}] /\ rows[a] \in Row
    BY <1>2 DEF RegIInv, TypeOK
  <2>. HIDE DEF b, private
  <2>4. b = a
    BY <1>2, <2>2, <2>3
  <2>5. rows'[a] = [rows[a] EXCEPT !.private = private]
    BY <1>2, <2>2, <2>3, <2>4
  <2>6. rows'[a].private = private
    BY <2>3, <2>5 DEF Row
  <2>7. ~private
    BY <1>2, <2>6
  <2>. QED
    BY <2>1, <2>4, <2>7 DEF At, b, private
<1>3. ASSUME RegIInv, RegIInv', [Next]_vars, NEW a \in Shown' \ Shown, rows[a] # None
      PROVE  \E h \in Handler : /\ At(h, "flags")
                                /\ handler[h].agent = a
                                /\ handler[h].flag \in {"public", "default"}
  <2>1. Shown' = {b \in Agent : rows'[b] # None /\ ~rows'[b].private}
    BY ShownIsPublicNext
  <2>2. a \in Agent /\ rows'[a] # None /\ ~rows'[a].private /\ rows[a].private
    BY <1>3, <2>1, ShownIsPublic
  <2>3. ~KeepsPrivate
    BY <1>3, <2>2 DEF KeepsPrivate
  <2>4. PICK h \in Handler : SetFlags(h)
    BY <1>1, <1>3, <2>3
  <2>. QED
    BY <1>2, <1>3, <2>2, <2>4
<1>4. RegIInv /\ RegIInv' /\ [Next]_vars =>
        [\A a \in Shown' \ Shown :
           rows[a] # None => \E h \in Handler : /\ At(h, "flags")
                                               /\ handler[h].agent = a
                                               /\ handler[h].flag \in {"public", "default"}]_rows
  BY <1>3
<1>. QED
  BY <1>4, Inductive, PTL DEF Spec, PrivateUntilChanged
=============================================================================
