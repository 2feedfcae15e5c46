------------------------------ MODULE A2ABridge ------------------------------
(***************************************************************************)
(* The task store of the inbound A2A bridge                                *)
(* (internal/server/a2a_bridge.go): concurrent message/send and subscribe  *)
(* handlers, tasks/cancel and tasks/pushNotification/set calls, and the    *)
(* hourly expiry, over three sync.Maps and one atomic counter.             *)
(*                                                                         *)
(* A member of Task is one message/send request and the task it creates    *)
(* (NewTask draws a fresh UUID).  Each sync.Map or counter operation is    *)
(* one step.  A stored task is reduced to its state: handlers write whole  *)
(* clones and never change one in place.  Reads (tasks/get, the REST       *)
(* look-up, pushNotification/get) change nothing and are not actions, and  *)
(* a call by another than the creator is answered "task not found".        *)
(***************************************************************************)
EXTENDS Integers, FiniteSets

CONSTANTS
  Task,        \* message/send requests, each with the task it may create
  Canceler,    \* tasks/cancel calls
  Setter,      \* tasks/pushNotification/set calls
  MaxTasks,    \* maxA2ATasks, 10000 in the code
  Bridged,     \* s.bridges != nil
  MaxRevivals, \* a bound of the model: no clean-up once so many removed
               \* tasks have been stored again
  None         \* "no task"

ASSUME BridgeConstants ==
  /\ IsFiniteSet(Task)
  /\ MaxTasks \in Nat
  /\ MaxRevivals \in Nat
  /\ Bridged \in BOOLEAN
  /\ None \notin Task
  /\ None \notin {"accepted", "working", "completed", "failed", "canceled"}

VARIABLES
  mode,         \* a request is answered once, "sync", or as a "stream"
  pc,           \* where the handler of a request stands
  tasks,        \* a2aTasks.tasks: the state of a stored task, or None
  count,        \* a2aTasks.taskCount
  creatorIPs,   \* tasks with an entry in a2aTasks.creatorIPs
  pushConfigs,  \* tasks with an entry in a2aTasks.pushConfigs
  cancel,       \* the tasks/cancel calls
  setter,       \* the tasks/pushNotification/set calls
  old,          \* tasks created longer than maxAge ago
  todo,         \* expired tasks the running clean-up has still to visit
  sweep,        \* the task it is removing and what it removes next
  revivals      \* history: stores of a task that had been removed

vars == <<mode, pc, tasks, count, creatorIPs, pushConfigs, cancel, setter,
          old, todo, sweep, revivals>>

calls   == <<cancel, setter>>
cleaner == <<old, todo, sweep>>

Final == {"completed", "failed", "canceled"}
State == {"accepted", "working"} \cup Final
Phase == {"idle", "refused", "admitted", "uncounted", "stored", "created",
          "working", "streaming", "done"}
Stage == {"idle", "config", "creator", "count"}

Call == [phase : {"new", "loaded", "done"}, task : Task \cup {None}]

Stored    == {t \in Task : tasks[t] # None}
Reserved  == {t \in Task : pc[t] = "admitted"}
Uncounted == {t \in Task : pc[t] = "uncounted"}

TypeOK ==
  /\ mode \in [Task -> {"sync", "stream"}]
  /\ pc \in [Task -> Phase]
  /\ tasks \in [Task -> State \cup {None}]
  /\ count \in Int
  /\ creatorIPs \in SUBSET Task
  /\ pushConfigs \in SUBSET Task
  /\ cancel \in [Canceler -> Call]
  /\ setter \in [Setter -> Call]
  /\ old \in SUBSET Task
  /\ todo \in SUBSET Task
  /\ sweep \in [stage : Stage, task : Task \cup {None}]
  /\ revivals \in Nat

Init ==
  /\ mode \in [Task -> {"sync", "stream"}]
  /\ pc = [t \in Task |-> "idle"]
  /\ tasks = [t \in Task |-> None]
  /\ count = 0
  /\ creatorIPs = {}
  /\ pushConfigs = {}
  /\ cancel = [k \in Canceler |-> [phase |-> "new", task |-> None]]
  /\ setter = [k \in Setter |-> [phase |-> "new", task |-> None]]
  /\ old = {}
  /\ todo = {}
  /\ sweep = [stage |-> "idle", task |-> None]
  /\ revivals = 0

Goto(t, phase) == pc' = [pc EXCEPT ![t] = phase]

(* Variant: the clone is stored before its status is set.                  *)
PutBlank(t, state) ==
  /\ tasks' = [tasks EXCEPT ![t] = ""]
  /\ revivals' = IF tasks[t] = None THEN revivals + 1 ELSE revivals

(* updateTaskState and the per-chunk store: a new clone replaces whatever  *)
(* the map holds for the task, without looking at it.                      *)
Put(t, state) ==
  /\ tasks' = [tasks EXCEPT ![t] = state]
  /\ revivals' = IF tasks[t] = None THEN revivals + 1 ELSE revivals

-----------------------------------------------------------------------------
(* message/send: creation of the task.                                     *)

(* Bad parameters, an unknown agent, no access, the rate limit, no flusher.*)
Refuse(t) ==
  /\ pc[t] = "idle"
  /\ Goto(t, "refused")
  /\ UNCHANGED <<mode, tasks, count, creatorIPs, pushConfigs, calls, cleaner,
                 revivals>>

(* Variant: the limit is off by one.                                       *)
AdmitOneMore(t) ==
  /\ mode[t] = "sync"
  /\ pc[t] = "idle"
  /\ IF count > MaxTasks
     THEN Goto(t, "refused") /\ UNCHANGED count
     ELSE Goto(t, "admitted") /\ count' = count + 1
  /\ UNCHANGED <<mode, tasks, creatorIPs, pushConfigs, calls, cleaner,
                 revivals>>

(* The compare-and-swap loop of the synchronous handler: the check and the *)
(* increment take effect together or not at all.                           *)
Admit(t) ==
  /\ mode[t] = "sync"
  /\ pc[t] = "idle"
  /\ IF count >= MaxTasks
     THEN Goto(t, "refused") /\ UNCHANGED count
     ELSE Goto(t, "admitted") /\ count' = count + 1
  /\ UNCHANGED <<mode, tasks, creatorIPs, pushConfigs, calls, cleaner,
                 revivals>>

(* tasks.Store of the new task: after the count in the synchronous handler,*)
(* before it in the streaming one, which checks no limit.                  *)
StoreTask(t) ==
  /\ \/ pc[t] = "admitted" /\ Goto(t, "stored")
     \/ mode[t] = "stream" /\ pc[t] = "idle" /\ Goto(t, "uncounted")
  /\ tasks' = [tasks EXCEPT ![t] = "accepted"]
  /\ UNCHANGED <<mode, count, creatorIPs, pushConfigs, calls, cleaner,
                 revivals>>

CountTask(t) ==
  /\ pc[t] = "uncounted"
  /\ Goto(t, "stored")
  /\ count' = count + 1
  /\ UNCHANGED <<mode, tasks, creatorIPs, pushConfigs, calls, cleaner,
                 revivals>>

StoreCreator(t) ==
  /\ pc[t] = "stored"
  /\ Goto(t, "created")
  /\ creatorIPs' = creatorIPs \cup {t}
  /\ UNCHANGED <<mode, tasks, count, pushConfigs, calls, cleaner, revivals>>

-----------------------------------------------------------------------------
(* message/send: the exchange with the agent.                              *)

(* The streaming handler reports "working" before it looks for a bridge,   *)
(* the synchronous one after.                                              *)
Work(t) ==
  /\ pc[t] = "created"
  /\ Bridged \/ mode[t] = "stream"
  /\ Put(t, "working")
  /\ Goto(t, "working")
  /\ UNCHANGED <<mode, count, creatorIPs, pushConfigs, calls, cleaner>>

(* bridges is nil.                                                         *)
NoBridge(t) ==
  /\ ~Bridged
  /\ pc[t] = IF mode[t] = "sync" THEN "created" ELSE "working"
  /\ Put(t, "failed")
  /\ Goto(t, "done")
  /\ UNCHANGED <<mode, count, creatorIPs, pushConfigs, calls, cleaner>>

(* Variant: the early return on an error of SendStream forgets the task.   *)
OpenStreamSilent(t) ==
  /\ Bridged
  /\ pc[t] = "working"
  /\ Goto(t, "streaming") \/ Goto(t, "done")
  /\ UNCHANGED <<mode, tasks, count, creatorIPs, pushConfigs, calls, cleaner,
                 revivals>>

(* SendStream returns a channel, or an error that fails the task.          *)
OpenStream(t) ==
  /\ Bridged
  /\ pc[t] = "working"
  /\ \/ Goto(t, "streaming") /\ UNCHANGED <<tasks, revivals>>
     \/ Goto(t, "done") /\ Put(t, "failed")
  /\ UNCHANGED <<mode, count, creatorIPs, pushConfigs, calls, cleaner>>

(* The streaming handler stores a clone of its own, working, copy for      *)
(* every chunk with data; the synchronous one only collects.               *)
Chunk(t) ==
  /\ mode[t] = "stream"
  /\ pc[t] = "streaming"
  /\ Put(t, "working")
  /\ UNCHANGED <<mode, pc, count, creatorIPs, pushConfigs, calls, cleaner>>

(* An error chunk fails the task; the last chunk or the closed channel     *)
(* completes it.                                                           *)
EndStream(t) ==
  /\ pc[t] = "streaming"
  /\ \E state \in {"completed", "failed"} : Put(t, state)
  /\ Goto(t, "done")
  /\ UNCHANGED <<mode, count, creatorIPs, pushConfigs, calls, cleaner>>

-----------------------------------------------------------------------------
(* tasks/cancel and tasks/pushNotification/set: a look-up, then a store.   *)

CancelLoad(k, t) ==
  /\ cancel[k].phase = "new"
  /\ t \in Stored
  /\ cancel' = [cancel EXCEPT ![k] = [phase |-> "loaded", task |-> t]]
  /\ UNCHANGED <<mode, pc, tasks, count, creatorIPs, pushConfigs, setter,
                 cleaner, revivals>>

(* Whatever the state of the task is by now, it becomes canceled.          *)
CancelStore(k) ==
  /\ cancel[k].phase = "loaded"
  /\ Put(cancel[k].task, "canceled")
  /\ cancel' = [cancel EXCEPT ![k] = [phase |-> "done", task |-> None]]
  /\ UNCHANGED <<mode, pc, count, creatorIPs, pushConfigs, setter, cleaner>>

SetLoad(k, t) ==
  /\ setter[k].phase = "new"
  /\ t \in Stored
  /\ setter' = [setter EXCEPT ![k] = [phase |-> "loaded", task |-> t]]
  /\ UNCHANGED <<mode, pc, tasks, count, creatorIPs, pushConfigs, cancel,
                 cleaner, revivals>>

SetStore(k) ==
  /\ setter[k].phase = "loaded"
  /\ pushConfigs' = pushConfigs \cup {setter[k].task}
  /\ setter' = [setter EXCEPT ![k] = [phase |-> "done", task |-> None]]
  /\ UNCHANGED <<mode, pc, tasks, count, creatorIPs, cancel, cleaner,
                 revivals>>

-----------------------------------------------------------------------------
(* a2aBridgeCleanup.                                                       *)

(* An hour passes for a task.  Creating it takes less than that; the       *)
(* exchange with the agent may take longer, it has no time limit.          *)
Expire(t) ==
  /\ pc[t] \in {"created", "working", "streaming", "done"}
  /\ t \notin old
  /\ old' = old \cup {t}
  /\ UNCHANGED <<mode, pc, tasks, count, creatorIPs, pushConfigs, calls, todo,
                 sweep, revivals>>

(* Variant: the age comparison is the wrong way round.                     *)
TickYoung ==
  /\ revivals <= MaxRevivals
  /\ sweep.stage = "idle"
  /\ todo = {}
  /\ Stored \cap old # {}
  /\ todo' = Task \ old
  /\ UNCHANGED <<mode, pc, tasks, count, creatorIPs, pushConfigs, calls, old,
                 sweep, revivals>>

(* The ticker fires; the age limit is measured against this moment.        *)
Tick ==
  /\ revivals <= MaxRevivals
  /\ sweep.stage = "idle"
  /\ todo = {}
  /\ Stored \cap old # {}
  /\ todo' = old
  /\ UNCHANGED <<mode, pc, tasks, count, creatorIPs, pushConfigs, calls, old,
                 sweep, revivals>>

(* tasks.Range meets an expired task and deletes it, or finds nothing.     *)
SweepTask(t) ==
  /\ sweep.stage = "idle"
  /\ t \in todo
  /\ todo' = todo \ {t}
  /\ IF tasks[t] = None
     THEN UNCHANGED <<tasks, sweep>>
     ELSE /\ tasks' = [tasks EXCEPT ![t] = None]
          /\ sweep' = [stage |-> "config", task |-> t]
  /\ UNCHANGED <<mode, pc, count, creatorIPs, pushConfigs, calls, old,
                 revivals>>

SweepConfig ==
  /\ sweep.stage = "config"
  /\ pushConfigs' = pushConfigs \ {sweep.task}
  /\ sweep' = [sweep EXCEPT !.stage = "creator"]
  /\ UNCHANGED <<mode, pc, tasks, count, creatorIPs, calls, old, todo,
                 revivals>>

SweepCreator ==
  /\ sweep.stage = "creator"
  /\ creatorIPs' = creatorIPs \ {sweep.task}
  /\ sweep' = [sweep EXCEPT !.stage = "count"]
  /\ UNCHANGED <<mode, pc, tasks, count, pushConfigs, calls, old, todo,
                 revivals>>

(* Variant: the counter is not decremented.                                *)
SweepNoCount ==
  /\ sweep.stage = "count"
  /\ sweep' = [stage |-> "idle", task |-> None]
  /\ UNCHANGED <<mode, pc, tasks, count, creatorIPs, pushConfigs, calls, old,
                 todo, revivals>>

SweepCount ==
  /\ sweep.stage = "count"
  /\ count' = count - 1
  /\ sweep' = [stage |-> "idle", task |-> None]
  /\ UNCHANGED <<mode, pc, tasks, creatorIPs, pushConfigs, calls, old, todo,
                 revivals>>

-----------------------------------------------------------------------------
handleA2ABridgeSendMessage(t) ==
  /\ mode[t] = "sync"
  /\ \/ Refuse(t) \/ Admit(t) \/ StoreTask(t) \/ StoreCreator(t)
     \/ Work(t) \/ NoBridge(t) \/ OpenStream(t) \/ EndStream(t)

handleA2ABridgeSendSubscribe(t) ==
  /\ mode[t] = "stream"
  /\ \/ Refuse(t) \/ StoreTask(t) \/ CountTask(t) \/ StoreCreator(t)
     \/ Work(t) \/ NoBridge(t) \/ OpenStream(t) \/ Chunk(t) \/ EndStream(t)

handleA2ABridgeCancelTask(k) == CancelStore(k) \/ \E t \in Task : CancelLoad(k, t)

handleA2ABridgePushNotification(k) == SetStore(k) \/ \E t \in Task : SetLoad(k, t)

(* handleA2ABridge, by the method of the request.                          *)
Handler(t) == handleA2ABridgeSendMessage(t) \/ handleA2ABridgeSendSubscribe(t)

Caller ==
  \/ \E k \in Canceler : handleA2ABridgeCancelTask(k)
  \/ \E k \in Setter : handleA2ABridgePushNotification(k)

(* a2aBridgeCleanup                                                        *)
Cleanup ==
  \/ Tick
  \/ \E t \in Task : SweepTask(t)
  \/ SweepConfig \/ SweepCreator \/ SweepCount

Next ==
  \/ \E t \in Task : Handler(t) \/ Expire(t)
  \/ Caller
  \/ Cleanup

Spec == Init /\ [][Next]_vars

(* The clean-up goroutine lives as long as the server: its ticker fires    *)
(* again and again and its loop over the map ends.                         *)
FairSpec == Spec /\ WF_vars(Cleanup)

-----------------------------------------------------------------------------
(* Conservation: taskCount is the number of stored tasks, corrected by the *)
(* handlers between the two steps of a creation, the removal in progress,  *)
(* and the stores that brought back a removed task.  Each such revival     *)
(* costs the counter one for good, when the task expires again; nothing    *)
(* else can make it drift.                                                 *)
Removing == IF sweep.stage = "idle" THEN 0 ELSE 1

CountExact ==
  count + Cardinality(Uncounted) + revivals =
    Cardinality(Stored) + Cardinality(Reserved) + Removing

(* What the compare-and-swap loop is worth: the counter exceeds the limit  *)
(* by no more than the streaming requests, which do not pass through it.   *)
StreamsCreated ==
  {t \in Task : mode[t] = "stream" /\ pc[t] \notin {"idle", "refused"}}

LimitButForStreams == count <= MaxTasks + Cardinality(StreamsCreated)

(* A poller never waits on a task nobody works on: once the handler has    *)
(* returned, the stored state is final, whatever cancels and clean-ups     *)
(* raced with the handler's last store.                                    *)
FinishedIsFinal ==
  \A t \in Task : pc[t] = "done" => tasks[t] \in Final \cup {None}

(* An expired task whose handler has returned leaves the store.            *)
ExpiredIsRemoved ==
  \A t \in Task : (t \in old /\ pc[t] = "done") ~> (tasks[t] = None)

(* The handler says that too many in-flight tasks are rejected.            *)
InFlightLimit == count <= MaxTasks
=============================================================================
