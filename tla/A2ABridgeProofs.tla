-------------------------- MODULE A2ABridgeProofs --------------------------
(***************************************************************************)
(* Safety of the A2A task store for any requests, callers and limit.       *)
(***************************************************************************)
EXTENDS A2ABridge, FiniteSetTheorems, TLAPS

(* A task is in the store only after its handler put it there, a caller    *)
(* holds only such tasks, and the clean-up removes one task at a time.     *)
StoreInv ==
  /\ \A t \in Task :
       /\ pc[t] \in {"idle", "refused", "admitted"} => tasks[t] = None
       /\ pc[t] = "uncounted" => mode[t] = "stream"
       /\ pc[t] = "admitted" => mode[t] = "sync"
  /\ \A k \in Canceler : cancel[k].phase = "loaded" =>
       /\ cancel[k].task \in Task
       /\ pc[cancel[k].task] \notin {"idle", "refused", "admitted"}
  /\ \A k \in Setter : setter[k].phase = "loaded" => setter[k].task \in Task
  /\ sweep.stage # "idle" => sweep.task \in Task

StreamsCounted ==
  {t \in Task : /\ mode[t] = "stream"
                /\ pc[t] \notin {"idle", "refused", "uncounted"}}

(* The streams whose CountTask is done account for what exceeds the limit. *)
LimitInv == count <= MaxTasks + Cardinality(StreamsCounted)

IInv == TypeOK /\ StoreInv /\ FinishedIsFinal

-----------------------------------------------------------------------------
(* Counting one task more or less.                                         *)
LEMMA CardAdd ==
  ASSUME NEW S \in SUBSET Task, NEW x \in Task
  PROVE  /\ Cardinality(S) \in Nat
         /\ x \notin S => Cardinality(S \cup {x}) = Cardinality(S) + 1
         /\ x \in S => Cardinality(S \cup {x}) = Cardinality(S)
         /\ x \in S => Cardinality(S \ {x}) = Cardinality(S) - 1
<1>1. IsFiniteSet(S)
  BY BridgeConstants, FS_Subset
<1>2. Cardinality(S) \in Nat
  BY <1>1, FS_CardinalityType
<1>3. x \in S => S \cup {x} = S
  OBVIOUS
<1>4. x \notin S => Cardinality(S \cup {x}) = Cardinality(S) + 1
  BY <1>1, FS_AddElement
<1>5. x \in S => Cardinality(S \ {x}) = Cardinality(S) - 1
  BY <1>1, FS_RemoveElement
<1>. QED
  BY <1>2, <1>3, <1>4, <1>5

-----------------------------------------------------------------------------
(* The store starts empty.                                                 *)
LEMMA InitInv == Init => IInv /\ CountExact /\ LimitInv
<1>. SUFFICES ASSUME Init PROVE IInv /\ CountExact /\ LimitInv
  OBVIOUS
<1>1. IInv
  BY BridgeConstants
  DEF Init, IInv, TypeOK, StoreInv, FinishedIsFinal, Phase, Stage, State, Call
<1>2. Stored = {} /\ Reserved = {} /\ Uncounted = {} /\ StreamsCounted = {}
  BY DEF Init, Stored, Reserved, Uncounted, StreamsCounted
<1>3. Cardinality({}) = 0
  BY FS_EmptySet
<1>4. CountExact
  BY <1>2, <1>3 DEF Init, CountExact, Removing
<1>5. LimitInv
  BY <1>2, <1>3, BridgeConstants DEF Init, LimitInv
<1>. QED
  BY <1>1, <1>4, <1>5

(* Every step of a handler, a caller or the clean-up preserves IInv.       *)
LEMMA StepInv == ASSUME IInv, [Next]_vars PROVE IInv'
<1>. USE BridgeConstants
     DEF IInv, TypeOK, StoreInv, FinishedIsFinal, Phase, Stage, State, Final,
         Call, Stored, calls, cleaner
<1>1. ASSUME NEW t \in Task, Refuse(t)
      PROVE  IInv'
  BY <1>1 DEF Refuse, Goto
<1>2. ASSUME NEW t \in Task, Admit(t)
      PROVE  IInv'
  BY <1>2 DEF Admit, Goto
<1>3. ASSUME NEW t \in Task, StoreTask(t)
      PROVE  IInv'
  BY <1>3 DEF StoreTask, Goto
<1>4. ASSUME NEW t \in Task, CountTask(t)
      PROVE  IInv'
  BY <1>4 DEF CountTask, Goto
<1>5. ASSUME NEW t \in Task, StoreCreator(t)
      PROVE  IInv'
  BY <1>5 DEF StoreCreator, Goto
<1>6. ASSUME NEW t \in Task, Work(t)
      PROVE  IInv'
  BY <1>6 DEF Work, Goto, Put
<1>7. ASSUME NEW t \in Task, NoBridge(t)
      PROVE  IInv'
  BY <1>7 DEF NoBridge, Goto, Put
<1>8. ASSUME NEW t \in Task, OpenStream(t)
      PROVE  IInv'
  BY <1>8 DEF OpenStream, Goto, Put
<1>9. ASSUME NEW t \in Task, Chunk(t)
      PROVE  IInv'
  BY <1>9 DEF Chunk, Put
<1>10. ASSUME NEW t \in Task, EndStream(t)
      PROVE  IInv'
  BY <1>10 DEF EndStream, Goto, Put
<1>11. ASSUME NEW t \in Task, Expire(t)
      PROVE  IInv'
  BY <1>11 DEF Expire
<1>12. ASSUME NEW k \in Canceler, NEW t \in Task, CancelLoad(k, t)
      PROVE  IInv'
  BY <1>12 DEF CancelLoad
<1>13. ASSUME NEW k \in Canceler, CancelStore(k)
      PROVE  IInv'
  BY <1>13 DEF CancelStore, Put
<1>14. ASSUME NEW k \in Setter, NEW t \in Task, SetLoad(k, t)
      PROVE  IInv'
  BY <1>14 DEF SetLoad
<1>15. ASSUME NEW k \in Setter, SetStore(k)
      PROVE  IInv'
  BY <1>15 DEF SetStore
<1>16. ASSUME Tick
      PROVE  IInv'
  BY <1>16 DEF Tick
<1>17. ASSUME NEW t \in Task, SweepTask(t)
      PROVE  IInv'
  BY <1>17 DEF SweepTask
<1>18. ASSUME SweepConfig
      PROVE  IInv'
  BY <1>18 DEF SweepConfig
<1>19. ASSUME SweepCreator
      PROVE  IInv'
  BY <1>19 DEF SweepCreator
<1>20. ASSUME SweepCount
      PROVE  IInv'
  BY <1>20 DEF SweepCount
<1>21. CASE UNCHANGED vars
  BY <1>21 DEF vars
<1>. HIDE DEF IInv, TypeOK, StoreInv, FinishedIsFinal
<1>. QED
  BY <1>1, <1>2, <1>3, <1>4, <1>5, <1>6, <1>7, <1>8, <1>9, <1>10, <1>11,
     <1>12, <1>13, <1>14, <1>15, <1>16, <1>17, <1>18, <1>19, <1>20, <1>21
  DEF Next, Handler, handleA2ABridgeSendMessage, handleA2ABridgeSendSubscribe,
      Caller, handleA2ABridgeCancelTask, handleA2ABridgePushNotification,
      Cleanup

-----------------------------------------------------------------------------
(* A store either finds the task, or adds it and counts as a revival.      *)
LEMMA PutCounts ==
  ASSUME IInv, NEW t \in Task, NEW state \in State, Put(t, state)
  PROVE  Cardinality(Stored') - Cardinality(Stored) = revivals' - revivals
<1>1. Stored' = Stored \cup {t}
  BY BridgeConstants DEF IInv, TypeOK, Put, Stored, State, Final
<1>2. /\ t \in Stored => revivals' = revivals
      /\ t \notin Stored => revivals' = revivals + 1
  BY DEF Put, Stored
<1>3. Stored \in SUBSET Task
  BY DEF Stored
<1>4. revivals \in Nat
  BY DEF IInv, TypeOK
<1>5. Cardinality(Stored) \in Nat
  BY <1>3, CardAdd
<1>6. CASE t \in Stored
  <2>1. Cardinality(Stored') = Cardinality(Stored)
    BY <1>1, <1>3, <1>6, CardAdd
  <2>. QED
    BY <1>2, <1>4, <1>5, <1>6, <2>1
<1>7. CASE t \notin Stored
  <2>1. Cardinality(Stored') = Cardinality(Stored) + 1
    BY <1>1, <1>3, <1>7, CardAdd
  <2>. QED
    BY <1>2, <1>4, <1>5, <1>7, <2>1
<1>. QED
  BY <1>6, <1>7

(* CountExact is kept by every step.                                       *)
LEMMA CountStep == ASSUME IInv, CountExact, [Next]_vars PROVE CountExact'
<1>. DEFINE U == Cardinality(Uncounted)
            R == Cardinality(Reserved)
            S == Cardinality(Stored)
<1>0. /\ Uncounted \in SUBSET Task /\ Reserved \in SUBSET Task
      /\ Stored \in SUBSET Task
      /\ count \in Int /\ revivals \in Nat
      /\ Removing \in Nat
  BY DEF Uncounted, Reserved, Stored, IInv, TypeOK, Removing
<1>00. U \in Nat /\ R \in Nat /\ S \in Nat
  <2>1. CASE Task = {}
    BY <1>0, <2>1, FS_EmptySet
  <2>2. CASE Task # {}
    BY <1>0, <2>2, CardAdd
  <2>. QED
    BY <2>1, <2>2
(* Steps that store nothing new and leave the counting phases alone.       *)
<1>1. ASSUME UNCHANGED <<tasks, count, revivals>>, Uncounted' = Uncounted,
             Reserved' = Reserved, Removing' = Removing
      PROVE  CountExact'
  BY <1>1 DEF CountExact, Stored
(* Steps that store a clone.                                               *)
<1>2. ASSUME NEW t \in Task, NEW state \in State, Put(t, state),
             UNCHANGED count, Uncounted' = Uncounted, Reserved' = Reserved,
             Removing' = Removing
      PROVE  CountExact'
  <2>1. S' - S = revivals' - revivals
    BY <1>2, PutCounts
  <2>2. revivals' \in Nat /\ S' \in Nat
    <3>1. revivals' \in Nat
      BY <1>0, <1>2 DEF Put
    <3>2. Stored' \in SUBSET Task
      BY DEF Stored
    <3>. QED
      BY <3>1, <3>2, <1>2, CardAdd
  <2>. QED
    BY <1>0, <1>00, <1>2, <2>1, <2>2 DEF CountExact
<1>3. ASSUME NEW t \in Task, Handler(t)
      PROVE  CountExact'
  <2>1. CASE Refuse(t)
    <3>1. Uncounted' = Uncounted /\ Reserved' = Reserved
      BY <2>1 DEF Refuse, Goto, Uncounted, Reserved, IInv, TypeOK
    <3>. QED
      BY <1>1, <2>1, <3>1 DEF Refuse, cleaner, Removing
  <2>2. CASE Admit(t)
    <3>1. CASE count >= MaxTasks
      <4>1. Uncounted' = Uncounted /\ Reserved' = Reserved
        BY <2>2, <3>1 DEF Admit, Goto, Uncounted, Reserved, IInv, TypeOK
      <4>. QED
        BY <1>1, <2>2, <3>1, <4>1 DEF Admit, cleaner, Removing
    <3>2. CASE ~(count >= MaxTasks)
      <4>1. /\ Uncounted' = Uncounted
            /\ t \notin Reserved /\ Reserved' = Reserved \cup {t}
            /\ Stored' = Stored
            /\ Removing' = Removing /\ revivals' = revivals
            /\ count' = count + 1
        BY <2>2, <3>2 DEF Admit, Goto, Uncounted, Reserved, Stored, Removing,
           cleaner, IInv, TypeOK
      <4>2. R' = R + 1
        BY <1>0, <4>1, CardAdd
      <4>. QED
        BY <1>0, <1>00, <4>1, <4>2 DEF CountExact
    <3>. QED
      BY <3>1, <3>2
  <2>3. CASE StoreTask(t)
    <3>1. /\ t \notin Stored /\ Stored' = Stored \cup {t}
          /\ Removing' = Removing /\ revivals' = revivals /\ count' = count
      BY <2>3, BridgeConstants
      DEF StoreTask, Stored, Removing, cleaner, IInv, TypeOK, StoreInv
    <3>2. S' = S + 1
      BY <1>0, <3>1, CardAdd
    <3>3. CASE pc[t] = "admitted"
      <4>1. /\ Uncounted' = Uncounted
            /\ t \in Reserved /\ Reserved' = Reserved \ {t}
        BY <2>3, <3>3 DEF StoreTask, Goto, Uncounted, Reserved, IInv, TypeOK
      <4>2. R' = R - 1
        BY <1>0, <4>1, CardAdd
      <4>. QED
        BY <1>0, <1>00, <3>1, <3>2, <4>1, <4>2 DEF CountExact
    <3>4. CASE pc[t] = "idle"
      <4>1. /\ Reserved' = Reserved
            /\ t \notin Uncounted /\ Uncounted' = Uncounted \cup {t}
        BY <2>3, <3>4 DEF StoreTask, Goto, Uncounted, Reserved, IInv, TypeOK
      <4>2. U' = U + 1
        BY <1>0, <4>1, CardAdd
      <4>. QED
        BY <1>0, <1>00, <3>1, <3>2, <4>1, <4>2 DEF CountExact
    <3>. QED
      BY <2>3, <3>3, <3>4 DEF StoreTask
  <2>4. CASE CountTask(t)
    <3>1. /\ t \in Uncounted /\ Uncounted' = Uncounted \ {t}
          /\ Reserved' = Reserved /\ Stored' = Stored
          /\ Removing' = Removing /\ revivals' = revivals
          /\ count' = count + 1
      BY <2>4 DEF CountTask, Goto, Uncounted, Reserved, Stored, Removing,
         cleaner, IInv, TypeOK
    <3>2. U' = U - 1
      BY <1>0, <3>1, CardAdd
    <3>. QED
      BY <1>0, <1>00, <3>1, <3>2 DEF CountExact
  <2>5. CASE StoreCreator(t)
    <3>1. Uncounted' = Uncounted /\ Reserved' = Reserved
      BY <2>5 DEF StoreCreator, Goto, Uncounted, Reserved, IInv, TypeOK
    <3>. QED
      BY <1>1, <2>5, <3>1 DEF StoreCreator, cleaner, Removing
  <2>6. CASE \/ Work(t) \/ NoBridge(t) \/ Chunk(t) \/ EndStream(t)
    <3>1. PICK state \in State : Put(t, state)
      BY <2>6 DEF Work, NoBridge, Chunk, EndStream, State, Final
    <3>2. /\ Uncounted' = Uncounted /\ Reserved' = Reserved
          /\ Removing' = Removing /\ count' = count
      BY <2>6 DEF Work, NoBridge, Chunk, EndStream, Goto, Uncounted, Reserved,
         Removing, cleaner, IInv, TypeOK
    <3>. QED
      BY <1>2, <3>1, <3>2
  <2>7. CASE OpenStream(t)
    <3>1. /\ Uncounted' = Uncounted /\ Reserved' = Reserved
          /\ Removing' = Removing /\ count' = count
      BY <2>7 DEF OpenStream, Goto, Uncounted, Reserved, Removing, cleaner,
         IInv, TypeOK
    <3>2. Put(t, "failed") \/ UNCHANGED <<tasks, revivals>>
      BY <2>7 DEF OpenStream
    <3>. QED
      BY <1>1, <1>2, <3>1, <3>2 DEF State, Final
  <2>. QED
    BY <1>3, <2>1, <2>2, <2>3, <2>4, <2>5, <2>6, <2>7 DEF Handler,
       handleA2ABridgeSendMessage, handleA2ABridgeSendSubscribe
<1>4. ASSUME NEW t \in Task, Expire(t)
      PROVE  CountExact'
  BY <1>1, <1>4 DEF Expire, Uncounted, Reserved, Removing
<1>5. CASE Caller
  <2>1. Uncounted' = Uncounted /\ Reserved' = Reserved /\ Removing' = Removing
    BY <1>5 DEF Caller, handleA2ABridgeCancelTask,
       handleA2ABridgePushNotification, CancelLoad, CancelStore, SetLoad,
       SetStore, Uncounted, Reserved, Removing, cleaner
  <2>2. ASSUME NEW k \in Canceler, CancelStore(k)
        PROVE  CountExact'
    BY <1>2, <2>1, <2>2 DEF CancelStore, IInv, StoreInv, State, Final
  <2>3. ASSUME UNCHANGED <<tasks, count, revivals>>
        PROVE  CountExact'
    BY <1>1, <2>1, <2>3
  <2>. QED
    BY <1>5, <2>2, <2>3 DEF Caller, handleA2ABridgeCancelTask,
       handleA2ABridgePushNotification, CancelLoad, SetLoad, SetStore
<1>6. CASE Cleanup
  <2>1. Uncounted' = Uncounted /\ Reserved' = Reserved /\ revivals' = revivals
    BY <1>6 DEF Cleanup, Tick, SweepTask, SweepConfig, SweepCreator,
       SweepCount, Uncounted, Reserved
  <2>2. ASSUME NEW t \in Task, SweepTask(t), tasks[t] # None
        PROVE  CountExact'
    <3>1. /\ t \in Stored /\ Stored' = Stored \ {t}
          /\ Removing = 0 /\ Removing' = 1 /\ count' = count
      BY <2>2 DEF SweepTask, Stored, Removing, IInv, TypeOK
    <3>2. S' = S - 1
      BY <1>0, <3>1, CardAdd
    <3>. QED
      BY <1>0, <1>00, <2>1, <3>1, <3>2 DEF CountExact
  <2>3. CASE SweepCount
    <3>1. /\ Stored' = Stored /\ Removing = 1 /\ Removing' = 0
          /\ count' = count - 1
      BY <2>3 DEF SweepCount, Stored, Removing
    <3>. QED
      BY <1>0, <1>00, <2>1, <3>1 DEF CountExact
  <2>4. ASSUME UNCHANGED <<tasks, count, revivals>>, Removing' = Removing
        PROVE  CountExact'
    BY <1>1, <2>1, <2>4
  <2>5. ASSUME NEW t \in Task, SweepTask(t), tasks[t] = None
        PROVE  CountExact'
    BY <2>1, <2>4, <2>5 DEF SweepTask, Removing
  <2>6. CASE Tick \/ SweepConfig \/ SweepCreator
    BY <2>1, <2>4, <2>6 DEF Tick, SweepConfig, SweepCreator, Removing, IInv,
       TypeOK
  <2>. QED
    BY <1>6, <2>2, <2>3, <2>5, <2>6 DEF Cleanup
<1>7. CASE UNCHANGED vars
  BY <1>1, <1>7 DEF vars, Uncounted, Reserved, Removing
<1>. QED
  BY <1>3, <1>4, <1>5, <1>6, <1>7 DEF Next

(* Only a stream passes the limit, and it is counted as one.               *)
LEMMA LimitStep == ASSUME IInv, LimitInv, [Next]_vars PROVE LimitInv'
<1>. USE BridgeConstants DEF IInv, TypeOK
<1>0. StreamsCounted \in SUBSET Task /\ StreamsCounted' \in SUBSET Task
  BY DEF StreamsCounted
<1>1. ASSUME count' <= count, StreamsCounted' = StreamsCounted, count' \in Int
      PROVE  LimitInv'
  <2>1. Cardinality(StreamsCounted) \in Nat
    BY <1>0, FS_Subset, FS_CardinalityType
  <2>. QED
    BY <1>1, <2>1 DEF LimitInv
<1>2. ASSUME NEW t \in Task, Admit(t)
      PROVE  LimitInv'
  <2>1. StreamsCounted' = StreamsCounted
    BY <1>2 DEF Admit, Goto, StreamsCounted
  <2>2. Cardinality(StreamsCounted) \in Nat
    BY <1>0, FS_Subset, FS_CardinalityType
  <2>. QED
    BY <1>2, <2>1, <2>2 DEF Admit, LimitInv
<1>3. ASSUME NEW t \in Task, CountTask(t)
      PROVE  LimitInv'
  <2>1. /\ t \notin StreamsCounted
        /\ StreamsCounted' = StreamsCounted \cup {t}
        /\ count' = count + 1
    BY <1>3 DEF CountTask, Goto, StreamsCounted, StoreInv
  <2>2. /\ Cardinality(StreamsCounted) \in Nat
        /\ Cardinality(StreamsCounted') = Cardinality(StreamsCounted) + 1
    BY <1>0, <2>1, CardAdd
  <2>. QED
    BY <2>1, <2>2 DEF LimitInv
<1>4. ASSUME NEW t \in Task,
             \/ Refuse(t) \/ StoreTask(t) \/ StoreCreator(t) \/ Work(t)
             \/ NoBridge(t) \/ OpenStream(t) \/ Chunk(t) \/ EndStream(t)
             \/ Expire(t)
      PROVE  LimitInv'
  <2>1. StreamsCounted' = StreamsCounted
    BY <1>4 DEF Refuse, StoreTask, StoreCreator, Work, NoBridge, OpenStream,
       Chunk, EndStream, Expire, Goto, StreamsCounted, StoreInv
  <2>2. count' = count
    BY <1>4 DEF Refuse, StoreTask, StoreCreator, Work, NoBridge, OpenStream,
       Chunk, EndStream, Expire
  <2>. QED
    BY <1>1, <2>1, <2>2
<1>5. CASE Caller \/ Cleanup \/ UNCHANGED vars
  <2>1. StreamsCounted' = StreamsCounted
    BY <1>5 DEF Caller, handleA2ABridgeCancelTask, handleA2ABridgePushNotification,
       CancelLoad, CancelStore, SetLoad, SetStore, Cleanup,
       Tick, SweepTask, SweepConfig, SweepCreator, SweepCount, vars,
       StreamsCounted
  <2>2. count' \in {count, count - 1}
    BY <1>5 DEF Caller, handleA2ABridgeCancelTask, handleA2ABridgePushNotification,
       CancelLoad, CancelStore, SetLoad, SetStore, Cleanup,
       Tick, SweepTask, SweepConfig, SweepCreator, SweepCount, vars
  <2>. QED
    BY <1>1, <2>1, <2>2
<1>. QED
  BY <1>2, <1>3, <1>4, <1>5 DEF Next, Handler,
     handleA2ABridgeSendMessage, handleA2ABridgeSendSubscribe

-----------------------------------------------------------------------------
(* The three invariants hold in every reachable state of the bridge.       *)
THEOREM Inductive == Spec => [](IInv /\ CountExact /\ LimitInv)
  BY InitInv, StepInv, CountStep, LimitStep, PTL DEF Spec

(* Every variable of the bridge keeps to its type.                         *)
THEOREM TypeCorrect == Spec => []TypeOK
<1>1. IInv => TypeOK
  BY DEF IInv
<1>. QED
  BY <1>1, Inductive, PTL

(* taskCount is the number of stored tasks but for the corrections that    *)
(* CountExact names: only a store of a removed task makes it drift.        *)
THEOREM Conservation == Spec => []CountExact
  BY Inductive, PTL

(* A handler that returned leaves no task unfinished, whatever cancels and *)
(* clean-ups raced with it.                                                *)
THEOREM Finished == Spec => []FinishedIsFinal
<1>1. IInv => FinishedIsFinal
  BY DEF IInv
<1>. QED
  BY <1>1, Inductive, PTL

(* The compare-and-swap loop keeps taskCount within maxA2ATasks, counting  *)
(* out the streaming requests, which do not pass through it.               *)
THEOREM Limited == Spec => []LimitButForStreams
<1>1. IInv /\ LimitInv => LimitButForStreams
  <2>. SUFFICES ASSUME IInv, LimitInv PROVE LimitButForStreams
    OBVIOUS
  <2>1. /\ StreamsCounted \subseteq StreamsCreated
        /\ IsFiniteSet(StreamsCreated)
    BY BridgeConstants, FS_Subset DEF StreamsCounted, StreamsCreated
  <2>2. /\ Cardinality(StreamsCounted) <= Cardinality(StreamsCreated)
        /\ Cardinality(StreamsCounted) \in Nat
        /\ Cardinality(StreamsCreated) \in Nat
    BY <2>1, FS_Subset, FS_CardinalityType
  <2>. QED
    BY <2>2, BridgeConstants DEF LimitInv, LimitButForStreams, IInv, TypeOK
<1>. QED
  BY <1>1, Inductive, PTL
=============================================================================
