---------------------------- MODULE BridgeProofs ----------------------------
(***************************************************************************)
(* Proofs about the bridges: the counters beside the maps of the inbound  *)
(* ACP and MCP bridges and of the outbound adapters follow what is in the *)
(* maps, and the limit that is checked with such a counter is overshot by *)
(* concurrent requests only.                                              *)
(***************************************************************************)
EXTENDS ACPRuns, MCPBridge, OutboundBridges, FiniteSetTheorems, TLAPS

(* Counting a set that gains a member it did not have, or loses one.       *)
LEMMA CountOneIn ==
  ASSUME NEW S, IsFiniteSet(S), NEW x, x \notin S
  PROVE  /\ IsFiniteSet(S \cup {x}) /\ Cardinality(S) \in Nat
         /\ Cardinality(S \cup {x}) = Cardinality(S) + 1
  BY FS_AddElement, FS_CardinalityType

LEMMA CountOneOut ==
  ASSUME NEW S, IsFiniteSet(S), NEW x, x \in S
  PROVE  /\ IsFiniteSet(S \ {x}) /\ Cardinality(S) \in Nat
         /\ Cardinality(S \ {x}) = Cardinality(S) - 1
  BY FS_RemoveElement, FS_CardinalityType

-----------------------------------------------------------------------------
(* The inbound ACP bridge (server/acp_bridge.go).                          *)
-----------------------------------------------------------------------------
(* A run that its goroutine has not stored is not there and nobody cancels *)
(* it, so a later store of a missing run is one that comes after a sweep.  *)
NotYetStored ==
  /\ \A r \in Run : runs[r] # None => Begun(r)
  /\ \A h \in Handler : canceling[h] # None => Begun(canceling[h])

ACPIInv ==
  /\ ACPTypeOK
  /\ NotYetStored
  /\ IsFiniteSet(Stored) /\ IsFiniteSet(Uncounted)
  /\ RunsCounted

LEMMA ACPStart == ACPInit => ACPIInv
<1>. SUFFICES ASSUME ACPInit PROVE ACPIInv
  OBVIOUS
<1>1. Idle \in Worker /\ Idle.at = "none"
  BY DEF Idle, Worker, Mode
<1>2. ACPTypeOK
  BY <1>1 DEF ACPInit, ACPTypeOK
<1>3. NotYetStored
  BY <1>1 DEF ACPInit, NotYetStored
<1>4. Stored = {} /\ Uncounted = {}
  BY <1>1 DEF ACPInit, Stored, Uncounted
<1>5. Cardinality({}) = 0 /\ IsFiniteSet({})
  BY FS_EmptySet
<1>6. RunsCounted
  BY <1>4, <1>5 DEF ACPInit, RunsCounted
<1>. QED
  BY <1>2, <1>3, <1>4, <1>5, <1>6 DEF ACPIInv

(* The goroutine of one run moves on and leaves the count of the runs as   *)
(* it is: the run was begun and is not about to be counted.                *)
LEMMA WorkerMoves ==
  ASSUME ACPTypeOK, NEW r \in Run, NEW w \in Worker,
         worker' = [worker EXCEPT ![r] = w],
         Begun(r) => w.at \notin {"none", "store"},
         worker[r].at # "count", w.at # "count"
  PROVE  /\ worker' \in [Run -> Worker]
         /\ Uncounted' = Uncounted
         /\ \A s \in Run : Begun(s) => Begun(s)'
<1>1. worker'[r] = w /\ \A s \in Run \ {r} : worker'[s] = worker[s]
  BY DEF ACPTypeOK
<1>2. worker' \in [Run -> Worker]
  BY DEF ACPTypeOK
<1>3. Uncounted' = Uncounted
  BY <1>1 DEF Uncounted
<1>4. \A s \in Run : Begun(s) => Begun(s)'
  BY <1>1 DEF Begun
<1>. QED
  BY <1>2, <1>3, <1>4

(* Who stores a run that was begun: an entry that comes back is counted as *)
(* revived.                                                                *)
LEMMA Stores ==
  ASSUME ACPIInv, NEW r \in Run, Begun(r), NEW status \in RunStatus,
         StoreRun(r, status)
  PROVE  /\ runs' \in [Run -> RunStatus \cup {None}] /\ revived' \in Nat
         /\ runs'[r] = status /\ \A s \in Run \ {r} : runs'[s] = runs[s]
         /\ IsFiniteSet(Stored') /\ Cardinality(Stored') \in Int
         /\ Cardinality(Stored') - revived' = Cardinality(Stored) - revived
<1>1. /\ runs' = [runs EXCEPT ![r] = status] /\ status # None
      /\ runs \in [Run -> RunStatus \cup {None}] /\ revived \in Nat
      /\ IsFiniteSet(Stored)
  BY NoneIsNoStatus DEF StoreRun, ACPIInv, ACPTypeOK
<1>2. /\ runs' \in [Run -> RunStatus \cup {None}]
      /\ runs'[r] = status /\ \A s \in Run \ {r} : runs'[s] = runs[s]
  BY <1>1
<1>3. Cardinality(Stored) \in Nat
  BY <1>1, FS_CardinalityType
<1>4. CASE runs[r] = None
  <2>1. revived' = revived + 1
    BY <1>4 DEF StoreRun
  <2>2. Stored' = Stored \cup {r} /\ r \notin Stored
    BY <1>1, <1>2, <1>4 DEF Stored
  <2>3. IsFiniteSet(Stored') /\ Cardinality(Stored') = Cardinality(Stored) + 1
    BY <1>1, <2>2, CountOneIn
  <2>. QED
    BY <1>1, <1>2, <1>3, <2>1, <2>3
<1>5. CASE runs[r] # None
  <2>1. revived' = revived
    BY <1>5 DEF StoreRun
  <2>2. Stored' = Stored
    BY <1>1, <1>2, <1>5 DEF Stored
  <2>. QED
    BY <1>1, <1>2, <1>3, <2>1, <2>2
<1>. QED
  BY <1>4, <1>5

(* The invariant of a step that stores a run and moves nobody to or from   *)
(* the counting.                                                           *)
LEMMA StoredKeeps ==
  ASSUME ACPIInv, NEW r \in Run, Begun(r), NEW status \in RunStatus,
         StoreRun(r, status), UNCHANGED <<runCount, creatorIPs, sweep>>,
         worker' \in [Run -> Worker], Uncounted' = Uncounted,
         \A s \in Run : Begun(s) => Begun(s)',
         \/ UNCHANGED canceling
         \/ \E h \in Handler : canceling' = [canceling EXCEPT ![h] = None]
  PROVE  ACPIInv'
<1>1. /\ runs' \in [Run -> RunStatus \cup {None}] /\ revived' \in Nat
      /\ \A s \in Run \ {r} : runs'[s] = runs[s]
      /\ IsFiniteSet(Stored') /\ Cardinality(Stored') \in Int
      /\ Cardinality(Stored') - revived' = Cardinality(Stored) - revived
  BY Stores
<1>2. canceling' \in [Handler -> Run \cup {None}]
  BY DEF ACPIInv, ACPTypeOK
<1>3. \A h \in Handler : canceling'[h] \in {canceling[h], None}
  BY DEF ACPIInv, ACPTypeOK
<1>4. ACPTypeOK'
  BY <1>1, <1>2 DEF ACPIInv, ACPTypeOK
<1>5. \A s \in Run : runs'[s] # None => Begun(s)'
  BY <1>1 DEF ACPIInv, NotYetStored
<1>6. \A h \in Handler : (canceling[h] # None => Begun(canceling[h]))'
  BY <1>3 DEF ACPIInv, ACPTypeOK, NotYetStored
<1>7. /\ Cardinality(Stored) \in Nat /\ Cardinality(Uncounted) \in Nat
      /\ runCount \in Int /\ revived \in Nat
  BY FS_CardinalityType DEF ACPIInv, ACPTypeOK
<1>8. RunsCounted'
  BY <1>1, <1>7 DEF ACPIInv, RunsCounted
<1>. QED
  BY <1>1, <1>4, <1>5, <1>6, <1>8 DEF ACPIInv, NotYetStored

(* The invariant of a step of one goroutine that stores nothing.           *)
LEMMA MovedKeeps ==
  ASSUME ACPIInv, UNCHANGED <<runs, runCount, canceling, sweep, revived>>,
         creatorIPs' \subseteq Run, worker' \in [Run -> Worker], Uncounted' = Uncounted,
         \A s \in Run : Begun(s) => Begun(s)'
  PROVE  ACPIInv'
<1>1. ACPTypeOK'
  BY DEF ACPIInv, ACPTypeOK
<1>2. NotYetStored'
  BY DEF ACPIInv, ACPTypeOK, NotYetStored
<1>3. Stored' = Stored /\ RunsCounted'
  BY DEF ACPIInv, Stored, RunsCounted
<1>. QED
  BY <1>1, <1>2, <1>3 DEF ACPIInv

LEMMA ACPStep == ACPIInv /\ [ACPNext]_<<acpVars, faults>> => ACPIInv'
<1>. SUFFICES ASSUME ACPIInv, [ACPNext]_<<acpVars, faults>> PROVE ACPIInv'
  OBVIOUS
<1>0. /\ ACPTypeOK /\ NotYetStored /\ IsFiniteSet(Stored) /\ IsFiniteSet(Uncounted)
      /\ RunsCounted /\ \A r \in Run : worker[r] \in Worker
      /\ Cardinality(Stored) \in Nat /\ Cardinality(Uncounted) \in Nat
      /\ runCount \in Int /\ revived \in Nat
  BY FS_CardinalityType DEF ACPIInv, ACPTypeOK
<1>1. ASSUME NEW r \in Run, NEW mode \in Mode, Admit(r, mode)
      PROVE  ACPIInv'
  <2>. DEFINE w == [Idle EXCEPT !.mode = mode, !.at = "store"]
  <2>1. w \in Worker /\ w.at = "store"
    BY DEF Worker, Idle
  <2>2. worker' = [worker EXCEPT ![r] = w] /\ worker[r].at = "none"
    BY <1>1 DEF Admit
  <2>. HIDE DEF w
  <2>3. /\ worker' \in [Run -> Worker] /\ Uncounted' = Uncounted
        /\ \A s \in Run : Begun(s) => Begun(s)'
    BY <1>0, <2>1, <2>2, WorkerMoves DEF Begun
  <2>. QED
    BY <1>0, <1>1, <2>3, MovedKeeps DEF Admit, ACPTypeOK
<1>2. ASSUME NEW r \in Run, CreateRun(r)
      PROVE  ACPIInv'
  <2>. DEFINE w == [worker[r] EXCEPT !.at = "count"]
  <2>1. w \in Worker /\ w.at = "count"
    BY <1>0 DEF Worker
  <2>2. /\ worker' = [worker EXCEPT ![r] = w] /\ worker[r].at = "store"
        /\ runs' = [runs EXCEPT ![r] = "created"]
        /\ UNCHANGED <<runCount, creatorIPs, canceling, sweep>>
    BY <1>2 DEF CreateRun, Goto, StoreRun
  <2>. HIDE DEF w
  <2>3. /\ worker' \in [Run -> Worker] /\ worker'[r] = w
        /\ \A s \in Run \ {r} : worker'[s] = worker[s]
    BY <1>0, <2>1, <2>2 DEF ACPTypeOK
  <2>4. "created" # None /\ "created" \in RunStatus
    BY NoneIsNoStatus DEF RunStatus
  <2>5. runs[r] = None
    BY <1>0, <2>2 DEF NotYetStored, Begun
  <2>6. revived' = revived
    BY <1>2, <2>2, <2>5 DEF CreateRun, StoreRun, Begun
  <2>7. Stored' = Stored \cup {r} /\ r \notin Stored
    BY <1>0, <2>2, <2>4, <2>5 DEF Stored, ACPTypeOK
  <2>8. Uncounted' = Uncounted \cup {r} /\ r \notin Uncounted
    BY <2>1, <2>2, <2>3 DEF Uncounted
  <2>9. /\ IsFiniteSet(Stored') /\ Cardinality(Stored') = Cardinality(Stored) + 1
        /\ IsFiniteSet(Uncounted') /\ Cardinality(Uncounted') = Cardinality(Uncounted) + 1
    BY <1>0, <2>7, <2>8, CountOneIn
  <2>10. RunsCounted'
    BY <1>0, <2>2, <2>6, <2>9 DEF RunsCounted
  <2>11. ACPTypeOK'
    BY <1>0, <2>2, <2>3, <2>4, <2>6 DEF ACPTypeOK
  <2>12. NotYetStored'
    BY <1>0, <2>1, <2>2, <2>3 DEF NotYetStored, Begun, ACPTypeOK
  <2>. QED
    BY <2>9, <2>10, <2>11, <2>12 DEF ACPIInv
<1>3. ASSUME NEW r \in Run, CountRun(r)
      PROVE  ACPIInv'
  <2>. DEFINE w == [worker[r] EXCEPT !.at = "own"]
  <2>1. w \in Worker /\ w.at = "own"
    BY <1>0 DEF Worker
  <2>2. /\ worker' = [worker EXCEPT ![r] = w] /\ worker[r].at = "count"
        /\ runCount' = runCount + 1
        /\ UNCHANGED <<runs, creatorIPs, canceling, sweep, revived>>
    BY <1>3 DEF CountRun, Goto
  <2>. HIDE DEF w
  <2>3. /\ worker' \in [Run -> Worker] /\ worker'[r] = w
        /\ \A s \in Run \ {r} : worker'[s] = worker[s]
    BY <1>0, <2>1, <2>2 DEF ACPTypeOK
  <2>4. Uncounted' = Uncounted \ {r} /\ r \in Uncounted /\ Stored' = Stored
    BY <2>1, <2>2, <2>3 DEF Uncounted, Stored
  <2>5. /\ IsFiniteSet(Uncounted') /\ Cardinality(Uncounted') = Cardinality(Uncounted) - 1
    BY <1>0, <2>4, CountOneOut
  <2>6. RunsCounted'
    BY <1>0, <2>2, <2>4, <2>5 DEF RunsCounted
  <2>7. ACPTypeOK'
    BY <1>0, <2>2, <2>3 DEF ACPTypeOK
  <2>8. NotYetStored'
    BY <1>0, <2>1, <2>2, <2>3 DEF NotYetStored, Begun, ACPTypeOK
  <2>. QED
    BY <1>0, <2>4, <2>5, <2>6, <2>7, <2>8 DEF ACPIInv
<1>4. ASSUME NEW r \in Run, NEW w \in Worker, worker' = [worker EXCEPT ![r] = w],
             Begun(r), w.at \notin {"none", "store", "count"}, worker[r].at # "count"
      PROVE  /\ worker' \in [Run -> Worker] /\ Uncounted' = Uncounted
             /\ \A s \in Run : Begun(s) => Begun(s)'
  BY <1>0, <1>4, WorkerMoves
<1>5. ASSUME NEW r \in Run, OwnRun(r)
      PROVE  ACPIInv'
  <2>. DEFINE w == [worker[r] EXCEPT !.at = "start"]
  <2>1. w \in Worker /\ w.at = "start"
    BY <1>0 DEF Worker
  <2>2. worker' = [worker EXCEPT ![r] = w] /\ worker[r].at = "own"
    BY <1>5 DEF OwnRun, Goto
  <2>. HIDE DEF w
  <2>3. creatorIPs' \subseteq Run
    BY <1>0, <1>5 DEF OwnRun, ACPTypeOK
  <2>4. UNCHANGED <<runs, runCount, canceling, sweep, revived>>
    BY <1>5 DEF OwnRun
  <2>. QED
    BY <1>4, <2>1, <2>2, <2>3, <2>4, MovedKeeps DEF Begun
<1>6. ASSUME NEW r \in Run, StartRun(r)
      PROVE  ACPIInv'
  <2>. DEFINE w == [worker[r] EXCEPT !.at = "send"]
  <2>1. w \in Worker /\ w.at = "send"
    BY <1>0 DEF Worker
  <2>2. /\ worker' = [worker EXCEPT ![r] = w] /\ worker[r].at = "start"
        /\ StoreRun(r, "in-progress") /\ UNCHANGED <<runCount, creatorIPs, canceling, sweep>>
    BY <1>6 DEF StartRun, Goto
  <2>. HIDE DEF w
  <2>3. Begun(r) /\ "in-progress" \in RunStatus
    BY <2>2 DEF Begun, RunStatus
  <2>. QED
    BY <1>4, <2>1, <2>2, <2>3, StoredKeeps
<1>7. ASSUME NEW r \in Run, OpenRunStream(r)
      PROVE  ACPIInv'
  <2>. DEFINE w == [worker[r] EXCEPT !.at = "reply"]
  <2>1. w \in Worker /\ w.at = "reply"
    BY <1>0 DEF Worker
  <2>2. /\ worker' = [worker EXCEPT ![r] = w] /\ worker[r].at = "send"
        /\ UNCHANGED <<runs, runCount, creatorIPs, canceling, sweep, revived>>
    BY <1>7 DEF OpenRunStream, Goto
  <2>. HIDE DEF w
  <2>. QED
    BY <1>0, <1>4, <2>1, <2>2, MovedKeeps DEF Begun, ACPTypeOK
<1>8. ASSUME NEW r \in Run, OpenFails(r) \/ FinishRun(r)
      PROVE  ACPIInv'
  <2>. DEFINE w == [Idle EXCEPT !.at = "over"]
  <2>1. w \in Worker /\ w.at = "over"
    BY DEF Worker, Idle, Mode
  <2>2. /\ worker' = [worker EXCEPT ![r] = w] /\ worker[r].at \in {"send", "finish"}
        /\ UNCHANGED <<runCount, creatorIPs, canceling, sweep>>
    BY <1>8 DEF OpenFails, FinishRun, EndRun
  <2>. HIDE DEF w
  <2>3. PICK status \in RunStatus : StoreRun(r, status)
    BY <1>0, <1>8 DEF OpenFails, FinishRun, Worker, RunStatus, Ended
  <2>4. Begun(r)
    BY <2>2 DEF Begun
  <2>. QED
    BY <1>4, <2>1, <2>2, <2>3, <2>4, StoredKeeps
<1>9. ASSUME NEW r \in Run, Chunk(r)
      PROVE  ACPIInv'
  <2>1. /\ worker[r].at = "reply" /\ StoreRun(r, "in-progress")
        /\ UNCHANGED <<worker, runCount, creatorIPs, canceling, sweep>>
    BY <1>9 DEF Chunk
  <2>2. Begun(r) /\ "in-progress" \in RunStatus
    BY <2>1 DEF Begun, RunStatus
  <2>3. /\ worker' \in [Run -> Worker] /\ Uncounted' = Uncounted
        /\ \A s \in Run : Begun(s) => Begun(s)'
    BY <1>0, <2>1 DEF Uncounted, Begun, ACPTypeOK
  <2>. QED
    BY <2>1, <2>2, <2>3, StoredKeeps
<1>10. ASSUME NEW r \in Run, EndOfReply(r)
       PROVE  ACPIInv'
  <2>1. PICK result \in Ended :
          worker' = [worker EXCEPT ![r].at = "finish", ![r].result = result]
    BY <1>10 DEF EndOfReply
  <2>. DEFINE w == [worker[r] EXCEPT !.at = "finish", !.result = result]
  <2>2. w \in Worker /\ w.at = "finish"
    BY <1>0 DEF Worker, Ended
  <2>3. /\ worker' = [worker EXCEPT ![r] = w] /\ worker[r].at = "reply"
        /\ UNCHANGED <<runs, runCount, creatorIPs, canceling, sweep, revived>>
    BY <1>10, <2>1 DEF EndOfReply
  <2>. HIDE DEF w
  <2>. QED
    BY <1>0, <1>4, <2>2, <2>3, MovedKeeps DEF Begun, ACPTypeOK
<1>11. ASSUME NEW h \in Handler, NEW r \in Run, CancelLoad(h, r)
       PROVE  ACPIInv'
  <2>1. /\ canceling' = [canceling EXCEPT ![h] = r] /\ runs[r] # None
        /\ UNCHANGED <<runs, runCount, creatorIPs, worker, sweep, revived>>
    BY <1>11 DEF CancelLoad
  <2>2. ACPTypeOK' /\ NotYetStored'
    BY <1>0, <2>1 DEF ACPTypeOK, NotYetStored, Begun
  <2>3. Stored' = Stored /\ Uncounted' = Uncounted /\ RunsCounted'
    BY <1>0, <2>1 DEF Stored, Uncounted, RunsCounted
  <2>. QED
    BY <1>0, <2>2, <2>3 DEF ACPIInv
<1>12. ASSUME NEW h \in Handler, CancelStore(h)
       PROVE  ACPIInv'
  <2>1. /\ canceling[h] # None /\ canceling' = [canceling EXCEPT ![h] = None]
        /\ StoreRun(canceling[h], "cancelled")
        /\ UNCHANGED <<runCount, creatorIPs, worker, sweep>>
    BY <1>12 DEF CancelStore
  <2>2. PICK r \in Run : r = canceling[h]
    BY <1>0, <2>1 DEF ACPTypeOK
  <2>3. Begun(r) /\ StoreRun(r, "cancelled") /\ "cancelled" \in RunStatus
    BY <1>0, <2>1, <2>2 DEF NotYetStored, RunStatus
  <2>4. /\ worker' \in [Run -> Worker] /\ Uncounted' = Uncounted
        /\ \A s \in Run : Begun(s) => Begun(s)'
    BY <1>0, <2>1 DEF Uncounted, Begun, ACPTypeOK
  <2>. QED
    BY <2>1, <2>3, <2>4, StoredKeeps
<1>13. ASSUME NEW r \in Run, SweepRun(r)
       PROVE  ACPIInv'
  <2>1. /\ sweep.at = "range" /\ runs[r] # None
        /\ runs' = [runs EXCEPT ![r] = None]
        /\ sweep' = [at |-> "creator", run |-> r]
        /\ UNCHANGED <<runCount, creatorIPs, worker, canceling, revived>>
    BY <1>13 DEF SweepRun
  <2>2. Stored' = Stored \ {r} /\ r \in Stored /\ Uncounted' = Uncounted
    BY <1>0, <2>1 DEF Stored, Uncounted, ACPTypeOK
  <2>3. /\ IsFiniteSet(Stored') /\ Cardinality(Stored') = Cardinality(Stored) - 1
    BY <1>0, <2>2, CountOneOut
  <2>4. ACPTypeOK' /\ NotYetStored'
    BY <1>0, <2>1 DEF ACPTypeOK, NotYetStored, Begun
  <2>5. RunsCounted'
    BY <1>0, <2>1, <2>2, <2>3 DEF RunsCounted
  <2>. QED
    BY <1>0, <2>2, <2>3, <2>4, <2>5 DEF ACPIInv
<1>14. ASSUME SweepCreator \/ SweepCount
       PROVE  ACPIInv'
  <2>1. /\ sweep.at # "range" /\ UNCHANGED <<runs, worker, canceling, revived>>
        /\ creatorIPs' \subseteq Run /\ sweep' \in [at : {"range", "creator", "count"}, run : Run \cup {None}]
        /\ \/ runCount' = runCount /\ sweep'.at # "range"
           \/ runCount' = runCount - 1 /\ sweep'.at = "range"
    BY <1>0, <1>14 DEF SweepCreator, SweepCount, ACPTypeOK
  <2>2. ACPTypeOK' /\ NotYetStored'
    BY <1>0, <2>1 DEF ACPTypeOK, NotYetStored, Begun
  <2>3. Stored' = Stored /\ Uncounted' = Uncounted /\ RunsCounted'
    BY <1>0, <2>1 DEF Stored, Uncounted, RunsCounted
  <2>. QED
    BY <1>0, <2>2, <2>3 DEF ACPIInv
<1>15. CASE UNCHANGED <<acpVars, faults>>
  BY <1>0, <1>15 DEF acpVars, ACPIInv, ACPTypeOK, NotYetStored, Begun, Stored,
     Uncounted, RunsCounted
<1>. QED
  BY <1>1, <1>2, <1>3, <1>5, <1>6, <1>7, <1>8, <1>9, <1>10, <1>11, <1>12, <1>13,
     <1>14, <1>15
  DEF ACPNext, handleACPBridgeCreateRun, handleACPBridgeSync, handleACPBridgeStream,
      handleACPBridgeAsync, Execute, handleACPBridgeCancelRun, acpBridgeCleanup

LEMMA ACPInductive == ACPSpec => []ACPIInv
  BY ACPStart, ACPStep, PTL DEF ACPSpec

(* The runs, their goroutines and the counter stay well formed.            *)
THEOREM RunTypes == ACPSpec => []ACPTypeOK
<1>1. ACPIInv => ACPTypeOK
  BY DEF ACPIInv
<1>. QED
  BY <1>1, ACPInductive, PTL

(* The counter follows the map of runs for any number of runs, cancel      *)
(* requests and late stores (handleACPBridgeCreateRun, acpBridgeCleanup).  *)
THEOREM RunCountSafe == ACPSpec => []RunsCounted
<1>1. ACPIInv => RunsCounted
  BY DEF ACPIInv
<1>. QED
  BY <1>1, ACPInductive, PTL

(* A run whose goroutine is over changes only by a cancel or the sweep.    *)
THEOREM FinalSafe == ACPSpec => EndedIsFinal
<1>1. ASSUME ACPIInv, [ACPNext]_<<acpVars, faults>>
      PROVE  [\A r \in Run : worker[r].at = "over" /\ runs'[r] # runs[r] =>
                runs'[r] \in {"cancelled", None}]_runs
  <2>. SUFFICES ASSUME NEW r \in Run, worker[r].at = "over", runs'[r] # runs[r]
                PROVE  runs'[r] \in {"cancelled", None}
    OBVIOUS
  <2>0. runs \in [Run -> RunStatus \cup {None}]
    BY <1>1 DEF ACPIInv, ACPTypeOK
  <2>1. ASSUME NEW s \in Run,
               \/ \E mode \in Mode : Admit(s, mode)
               \/ CreateRun(s) \/ CountRun(s) \/ OwnRun(s) \/ Execute(s) \/ Chunk(s)
        PROVE  runs'[r] = runs[r]
    <3>1. /\ worker[s].at # "over" 
          /\ runs' = runs \/ \E status : runs' = [runs EXCEPT ![s] = status]
      BY <2>1 DEF Admit, CreateRun, CountRun, OwnRun, Execute, StartRun, OpenRunStream,
         OpenFails, EndOfReply, FinishRun, Chunk, StoreRun
    <3>. QED
      BY <2>0, <3>1
  <2>2. ASSUME NEW h \in Handler, handleACPBridgeCancelRun(h)
        PROVE  runs'[r] \in {runs[r], "cancelled"}
    BY <2>0, <2>2 DEF handleACPBridgeCancelRun, CancelLoad, CancelStore, StoreRun
  <2>3. ASSUME acpBridgeCleanup
        PROVE  runs'[r] \in {runs[r], None}
    BY <2>0, <2>3 DEF acpBridgeCleanup, SweepRun, SweepCreator, SweepCount
  <2>4. ASSUME UNCHANGED <<acpVars, faults>>
        PROVE  runs'[r] = runs[r]
    BY <2>4 DEF acpVars
  <2>. QED
    BY <1>1, <2>1, <2>2, <2>3, <2>4
    DEF ACPNext, handleACPBridgeCreateRun, handleACPBridgeSync, handleACPBridgeStream,
        handleACPBridgeAsync
<1>. QED
  BY <1>1, ACPInductive, PTL DEF ACPSpec, EndedIsFinal

-----------------------------------------------------------------------------
(* The inbound MCP bridge (server/mcp_bridge.go).                          *)
-----------------------------------------------------------------------------
(* Requests that have stored their session and not counted it.             *)
BeingCounted == {h \in Handler : mcpHandler[h].at = "count"}

(* A session about to be stored is new and nobody else's.                  *)
SessionsApart ==
  \A h \in Handler : mcpHandler[h].at = "store" =>
    /\ mcpHandler[h].session \in McpSession \ mcpSessions
    /\ \A g \in Handler \ {h} : mcpHandler[g].session # mcpHandler[h].session

(* The counter is behind by the sessions not counted in, and ahead by the  *)
(* one that is not counted out.                                            *)
CounterInv ==
  sessionCount + Cardinality(BeingCounted)
    = Cardinality(mcpSessions) + (IF mcpSweep = None THEN 0 ELSE 1)

MCPIInv ==
  /\ MCPTypeOK /\ IsFiniteSet(mcpSessions)
  /\ SessionsApart /\ CounterInv /\ SessionsBounded

(* The requests at a stage are among the handlers.                         *)
LEMMA HandlersFinite ==
  /\ IsFiniteSet(Admitted) /\ Cardinality(Admitted) \in Nat
  /\ IsFiniteSet(BeingCounted) /\ Cardinality(BeingCounted) \in Nat
  /\ Cardinality(Handler) \in Nat
<1>1. Admitted \subseteq Handler /\ BeingCounted \subseteq Handler
  BY DEF Admitted, BeingCounted
<1>. QED
  BY <1>1, FinitelyManyHandlers, FS_Subset, FS_CardinalityType

(* A request that does neither, with those that do, is among the handlers. *)
LEMMA OneMoreHandler ==
  ASSUME NEW h \in Handler, h \notin Admitted \cup BeingCounted
  PROVE  Cardinality(Admitted) + Cardinality(BeingCounted) + 1 <= Cardinality(Handler)
<1>. DEFINE both == Admitted \cup BeingCounted
<1>1. Admitted \cap BeingCounted = {} /\ both \subseteq Handler
  BY DEF Admitted, BeingCounted
<1>2. /\ IsFiniteSet(both)
      /\ Cardinality(both) = Cardinality(Admitted) + Cardinality(BeingCounted)
                             - Cardinality(Admitted \cap BeingCounted)
  BY HandlersFinite, FS_Union
<1>3. Cardinality(Admitted \cap BeingCounted) = 0
  BY <1>1, FS_EmptySet
<1>4. /\ IsFiniteSet(both \cup {h}) /\ Cardinality(both \cup {h}) = Cardinality(both) + 1
  BY <1>2, CountOneIn
<1>5. Cardinality(both \cup {h}) <= Cardinality(Handler)
  BY <1>1, FinitelyManyHandlers, FS_Subset
<1>. HIDE DEF both
<1>. QED
  BY <1>2, <1>3, <1>4, <1>5, HandlersFinite

LEMMA MCPStart == MCPInit => MCPIInv
<1>. SUFFICES ASSUME MCPInit PROVE MCPIInv
  OBVIOUS
<1>1. \A h \in Handler : mcpHandler[h] = McpIdle /\ McpIdle.at = "idle"
  BY DEF MCPInit, McpIdle
<1>2. MCPTypeOK
  BY DEF MCPInit, MCPTypeOK, McpIdle, McpStage
<1>3. SessionsApart /\ BeingCounted = {} /\ Admitted = {}
  BY <1>1 DEF SessionsApart, BeingCounted, Admitted
<1>4. IsFiniteSet({}) /\ Cardinality({}) = 0
  BY FS_EmptySet
<1>5. CounterInv
  BY <1>3, <1>4 DEF MCPInit, CounterInv
<1>6. SessionsBounded
  BY <1>3, <1>4, HandlersFinite, MaxSessionsIsPositive DEF MCPInit, SessionsBounded
<1>. QED
  BY <1>2, <1>3, <1>4, <1>5, <1>6 DEF MCPInit, MCPIInv

(* A step of one request that is not about the sessions, or of the sweep.  *)
LEMMA SessionsStay ==
  ASSUME MCPIInv, MCPTypeOK', UNCHANGED <<mcpSessions, sessionCount, mcpSweep>>,
         \A h \in Handler :
           /\ mcpHandler'[h].at = "store" <=> mcpHandler[h].at = "store"
           /\ mcpHandler'[h].at = "count" <=> mcpHandler[h].at = "count"
           /\ mcpHandler'[h].session = mcpHandler[h].session
              \/ mcpHandler'[h].session = None
           /\ mcpHandler[h].at = "store" => mcpHandler'[h].session = mcpHandler[h].session
  PROVE  MCPIInv'
<1>1. Admitted' = Admitted /\ BeingCounted' = BeingCounted
  BY DEF Admitted, BeingCounted
<1>2. SessionsApart'
  BY NoneIsNoMcpSession DEF MCPIInv, SessionsApart
<1>3. CounterInv' /\ SessionsBounded'
  BY <1>1 DEF MCPIInv, CounterInv, SessionsBounded
<1>. QED
  BY <1>2, <1>3 DEF MCPIInv

LEMMA MCPStep == MCPIInv /\ [MCPNext]_<<mcpVars, faults>> => MCPIInv'
<1>. SUFFICES ASSUME MCPIInv, [MCPNext]_<<mcpVars, faults>> PROVE MCPIInv'
  OBVIOUS
<1>. DEFINE HandlerRow == [at : McpStage, session : McpSession \cup {None}, failed : BOOLEAN]
<1>0. /\ MCPTypeOK /\ IsFiniteSet(mcpSessions) /\ SessionsApart /\ CounterInv
      /\ SessionsBounded /\ \A h \in Handler : mcpHandler[h] \in HandlerRow
      /\ Cardinality(mcpSessions) \in Nat /\ sessionCount \in Int /\ MaxSessions \in Nat
  BY FS_CardinalityType, MaxSessionsIsPositive DEF MCPIInv, MCPTypeOK
<1>1. ASSUME NEW h \in Handler, NEW s \in McpSession, Initialize(h, s)
      PROVE  MCPIInv'
  <2>. DEFINE w == [McpIdle EXCEPT !.at = "store", !.session = s]
  <2>1. w \in HandlerRow /\ w.at = "store" /\ w.session = s
    BY DEF McpIdle, McpStage
  <2>2. /\ mcpHandler' = [mcpHandler EXCEPT ![h] = w] /\ mcpHandler[h].at = "idle"
        /\ s \notin mcpSessions /\ \A g \in Handler : mcpHandler[g].session # s
        /\ sessionCount < MaxSessions
        /\ UNCHANGED <<mcpSessions, sessionCount, mcpOld, mcpSweep>>
    BY <1>1 DEF Initialize, Unused, BelowLimit
  <2>. HIDE DEF w
  <2>3. /\ mcpHandler' \in [Handler -> HandlerRow] /\ mcpHandler'[h] = w
        /\ \A g \in Handler \ {h} : mcpHandler'[g] = mcpHandler[g]
    BY <1>0, <2>1, <2>2 DEF MCPTypeOK
  <2>4. MCPTypeOK'
    BY <1>0, <2>2, <2>3 DEF MCPTypeOK
  <2>5. SessionsApart'
    BY <1>0, <2>1, <2>2, <2>3 DEF SessionsApart
  <2>6. h \notin Admitted \cup BeingCounted /\ BeingCounted' = BeingCounted
        /\ Admitted' = Admitted \cup {h}
    BY <2>1, <2>2, <2>3 DEF Admitted, BeingCounted
  <2>7. Cardinality(Admitted') = Cardinality(Admitted) + 1
    BY <2>6, HandlersFinite, CountOneIn
  <2>8. CounterInv'
    BY <1>0, <2>2, <2>6 DEF CounterInv
  <2>9. Cardinality(Admitted) + Cardinality(BeingCounted) + 1 <= Cardinality(Handler)
    BY <2>6, OneMoreHandler
  <2>10. Cardinality(mcpSessions) <= MaxSessions + Cardinality(BeingCounted) - 1
    BY <1>0, <2>2, HandlersFinite DEF CounterInv
  <2>11. SessionsBounded'
    BY <1>0, <2>2, <2>7, <2>9, <2>10, HandlersFinite DEF SessionsBounded
  <2>. QED
    BY <1>0, <2>2, <2>4, <2>5, <2>8, <2>11 DEF MCPIInv
<1>2. ASSUME NEW h \in Handler, StoreSession(h)
      PROVE  MCPIInv'
  <2>. DEFINE w == [mcpHandler[h] EXCEPT !.at = "count"]
              s == mcpHandler[h].session
  <2>1. w \in HandlerRow /\ w.at = "count" /\ w.session = s
    BY <1>0 DEF McpStage
  <2>2. /\ mcpHandler' = [mcpHandler EXCEPT ![h] = w] /\ mcpHandler[h].at = "store"
        /\ mcpSessions' = mcpSessions \cup {s}
        /\ UNCHANGED <<sessionCount, mcpOld, mcpSweep>>
    BY <1>2 DEF StoreSession, McpGoto
  <2>3. /\ s \in McpSession \ mcpSessions
        /\ \A g \in Handler \ {h} : mcpHandler[g].session # s
    BY <1>0, <2>2 DEF SessionsApart
  <2>. HIDE DEF w, s
  <2>4. /\ mcpHandler' \in [Handler -> HandlerRow] /\ mcpHandler'[h] = w
        /\ \A g \in Handler \ {h} : mcpHandler'[g] = mcpHandler[g]
    BY <1>0, <2>1, <2>2 DEF MCPTypeOK
  <2>5. MCPTypeOK'
    BY <1>0, <2>2, <2>3, <2>4 DEF MCPTypeOK
  <2>6. SessionsApart'
    BY <1>0, <2>1, <2>2, <2>3, <2>4 DEF SessionsApart
  <2>7. /\ Admitted' = Admitted \ {h} /\ h \in Admitted
        /\ BeingCounted' = BeingCounted \cup {h} /\ h \notin BeingCounted
    BY <2>1, <2>2, <2>4 DEF Admitted, BeingCounted
  <2>8. /\ Cardinality(Admitted') = Cardinality(Admitted) - 1
        /\ Cardinality(BeingCounted') = Cardinality(BeingCounted) + 1
        /\ IsFiniteSet(mcpSessions')
        /\ Cardinality(mcpSessions') = Cardinality(mcpSessions) + 1
    BY <1>0, <2>2, <2>3, <2>7, HandlersFinite, CountOneIn, CountOneOut
  <2>9. CounterInv'
    BY <1>0, <2>2, <2>8, HandlersFinite DEF CounterInv
  <2>10. SessionsBounded'
    BY <1>0, <2>8, HandlersFinite DEF SessionsBounded
  <2>. QED
    BY <2>5, <2>6, <2>8, <2>9, <2>10 DEF MCPIInv
<1>3. ASSUME NEW h \in Handler, CountSession(h)
      PROVE  MCPIInv'
  <2>1. McpIdle \in HandlerRow /\ McpIdle.at = "idle" /\ McpIdle.session = None
    BY DEF McpIdle, McpStage
  <2>2. /\ mcpHandler' = [mcpHandler EXCEPT ![h] = McpIdle] /\ mcpHandler[h].at = "count"
        /\ sessionCount' = sessionCount + 1
        /\ UNCHANGED <<mcpSessions, mcpOld, mcpSweep>>
    BY <1>3 DEF CountSession
  <2>3. /\ mcpHandler' \in [Handler -> HandlerRow] /\ mcpHandler'[h] = McpIdle
        /\ \A g \in Handler \ {h} : mcpHandler'[g] = mcpHandler[g]
    BY <1>0, <2>1, <2>2 DEF MCPTypeOK
  <2>4. MCPTypeOK'
    BY <1>0, <2>2, <2>3 DEF MCPTypeOK
  <2>5. SessionsApart'
    BY <1>0, <2>1, <2>2, <2>3, NoneIsNoMcpSession DEF SessionsApart
  <2>6. /\ Admitted' = Admitted
        /\ BeingCounted' = BeingCounted \ {h} /\ h \in BeingCounted
    BY <2>1, <2>2, <2>3 DEF Admitted, BeingCounted
  <2>7. Cardinality(BeingCounted') = Cardinality(BeingCounted) - 1
    BY <2>6, HandlersFinite, CountOneOut
  <2>8. CounterInv' /\ SessionsBounded'
    BY <1>0, <2>2, <2>6, <2>7, HandlersFinite DEF CounterInv, SessionsBounded
  <2>. QED
    BY <1>0, <2>2, <2>4, <2>5, <2>8 DEF MCPIInv
<1>4. ASSUME NEW h \in Handler, NEW w \in HandlerRow, mcpHandler' = [mcpHandler EXCEPT ![h] = w],
             w.at \notin {"store", "count"}, w.session \in {None, mcpHandler[h].session},
             mcpHandler[h].at \notin {"store", "count"},
             UNCHANGED <<mcpSessions, sessionCount, mcpOld, mcpSweep>>
      PROVE  MCPIInv'
  <2>1. /\ mcpHandler' \in [Handler -> HandlerRow] /\ mcpHandler'[h] = w
        /\ \A g \in Handler \ {h} : mcpHandler'[g] = mcpHandler[g]
    BY <1>0, <1>4 DEF MCPTypeOK
  <2>2. MCPTypeOK'
    BY <1>0, <1>4, <2>1 DEF MCPTypeOK
  <2>. QED
    BY <1>4, <2>1, <2>2, SessionsStay
<1>5. ASSUME NEW h \in Handler, ToolsCall(h)
      PROVE  MCPIInv'
  <2>. DEFINE w == [McpIdle EXCEPT !.at = "send"]
  <2>1. w \in HandlerRow /\ w.at = "send" /\ w.session = None
    BY DEF McpIdle, McpStage
  <2>. HIDE DEF w
  <2>2. mcpHandler' = [mcpHandler EXCEPT ![h] = w]
    BY <1>5 DEF ToolsCall, w
  <2>. QED
    BY <1>4, <1>5, <2>1, <2>2 DEF ToolsCall
<1>6. ASSUME NEW h \in Handler, NEW stage \in McpStage \ {"store", "count"},
             NEW failed \in BOOLEAN,
             mcpHandler' = [mcpHandler EXCEPT ![h].at = stage, ![h].failed = failed],
             mcpHandler[h].at \notin {"store", "count"},
             UNCHANGED <<mcpSessions, sessionCount, mcpOld, mcpSweep>>
      PROVE  MCPIInv'
  <2>. DEFINE w == [mcpHandler[h] EXCEPT !.at = stage, !.failed = failed]
  <2>1. w \in HandlerRow /\ w.at = stage /\ w.session = mcpHandler[h].session
    BY <1>0
  <2>2. mcpHandler' = [mcpHandler EXCEPT ![h] = w]
    BY <1>6
  <2>. HIDE DEF w
  <2>. QED
    BY <1>4, <1>6, <2>1, <2>2
<1>7. ASSUME NEW h \in Handler, NEW stage \in McpStage \ {"store", "count"}, McpGoto(h, stage),
             mcpHandler[h].at \notin {"store", "count"},
             UNCHANGED <<mcpSessions, sessionCount, mcpOld, mcpSweep>>
      PROVE  MCPIInv'
  <2>. DEFINE w == [mcpHandler[h] EXCEPT !.at = stage]
  <2>1. w \in HandlerRow /\ w.at = stage /\ w.session = mcpHandler[h].session
    BY <1>0
  <2>2. mcpHandler' = [mcpHandler EXCEPT ![h] = w]
    BY <1>7 DEF McpGoto
  <2>. HIDE DEF w
  <2>. QED
    BY <1>4, <1>7, <2>1, <2>2
<1>8. ASSUME NEW h \in Handler,
             \/ Refused(h) \/ Opened(h) \/ ReplyEnds(h) \/ RecordCall(h) \/ Answer(h)
      PROVE  MCPIInv'
  <2>1. CASE Refused(h)
    BY <1>6, <2>1 DEF Refused, McpStage
  <2>2. CASE Opened(h)
    BY <1>7, <2>2 DEF Opened, McpStage
  <2>3. CASE ReplyEnds(h)
    BY <1>6, <2>3 DEF ReplyEnds, McpStage
  <2>4. CASE RecordCall(h)
    BY <1>7, <2>4 DEF RecordCall, McpStage
  <2>5. CASE Answer(h)
    BY <1>7, <2>5 DEF Answer, McpStage
  <2>. QED
    BY <1>8, <2>1, <2>2, <2>3, <2>4, <2>5
<1>9. ASSUME NEW h \in Handler, CallEvent(h)
      PROVE  MCPIInv'
  <2>1. McpIdle \in HandlerRow /\ McpIdle.at = "idle" /\ McpIdle.session = None
    BY DEF McpIdle, McpStage
  <2>. QED
    BY <1>4, <1>9, <2>1 DEF CallEvent
<1>10. ASSUME NEW s \in McpSession, SessionAges(s)
       PROVE  MCPIInv'
  <2>1. UNCHANGED <<mcpSessions, sessionCount, mcpSweep, mcpHandler>> /\ MCPTypeOK'
    BY <1>0, <1>10 DEF SessionAges, MCPTypeOK
  <2>. QED
    BY <2>1, SessionsStay
<1>11. ASSUME NEW s \in McpSession, SweepSession(s)
       PROVE  MCPIInv'
  <2>1. /\ mcpSweep = None /\ s \in mcpSessions /\ mcpSessions' = mcpSessions \ {s}
        /\ mcpSweep' = s /\ s # None /\ UNCHANGED <<sessionCount, mcpHandler>>
    BY <1>11, NoneIsNoMcpSession DEF SweepSession
  <2>2. MCPTypeOK'
    BY <1>0, <1>11 DEF SweepSession, MCPTypeOK
  <2>3. /\ IsFiniteSet(mcpSessions')
        /\ Cardinality(mcpSessions') = Cardinality(mcpSessions) - 1
    BY <1>0, <2>1, CountOneOut
  <2>4. Admitted' = Admitted /\ BeingCounted' = BeingCounted /\ SessionsApart'
    BY <1>0, <2>1 DEF Admitted, BeingCounted, SessionsApart
  <2>5. CounterInv' /\ SessionsBounded'
    BY <1>0, <2>1, <2>3, <2>4, HandlersFinite DEF CounterInv, SessionsBounded
  <2>. QED
    BY <2>2, <2>3, <2>4, <2>5 DEF MCPIInv
<1>12. CASE SweepSessionCount
  <2>1. /\ mcpSweep # None /\ mcpSweep' = None /\ sessionCount' = sessionCount - 1
        /\ UNCHANGED <<mcpSessions, mcpOld, mcpHandler>>
    BY <1>12 DEF SweepSessionCount
  <2>2. MCPTypeOK' /\ SessionsApart'
    BY <1>0, <2>1 DEF MCPTypeOK, SessionsApart
  <2>3. Admitted' = Admitted /\ BeingCounted' = BeingCounted
    BY <2>1 DEF Admitted, BeingCounted
  <2>4. CounterInv' /\ SessionsBounded'
    BY <1>0, <2>1, <2>3, HandlersFinite DEF CounterInv, SessionsBounded
  <2>. QED
    BY <1>0, <2>1, <2>2, <2>4 DEF MCPIInv
<1>13. CASE UNCHANGED <<mcpVars, faults>>
  BY <1>0, <1>13, SessionsStay DEF mcpVars, MCPTypeOK
<1>. QED
  BY <1>1, <1>2, <1>3, <1>5, <1>8, <1>9, <1>10, <1>11, <1>12, <1>13
  DEF MCPNext, handleMCPBridgeInitialize, handleMCPBridgeToolsCall, mcpBridgeCleanup

LEMMA MCPInductive == MCPSpec => []MCPIInv
  BY MCPStart, MCPStep, PTL DEF MCPSpec

(* The sessions and the requests stay well formed.                         *)
THEOREM SessionTableTypes == MCPSpec => []MCPTypeOK
<1>1. MCPIInv => MCPTypeOK
  BY DEF MCPIInv
<1>. QED
  BY <1>1, MCPInductive, PTL

(* The sessions kept exceed the limit by fewer than the requests that run  *)
(* at the same time, for any number of them (handleMCPBridgeInitialize).   *)
THEOREM SessionLimitSafe == MCPSpec => []SessionsBounded
<1>1. MCPIInv => SessionsBounded
  BY DEF MCPIInv
<1>. QED
  BY <1>1, MCPInductive, PTL

-----------------------------------------------------------------------------
(* The outbound adapters (internal/bridge).                                *)
-----------------------------------------------------------------------------
(* Sends that have stored a new entry and not counted it, and the entries  *)
(* that Sends stored.                                                      *)
ToCount(p) == {e \in Envelope : At(e, "count") /\ sending[e].proto = p}
Own(p) == tracked[p] \ arrived[p]

(* A send past its post knows its task, run or endpoint.                   *)
KeyOK(w) ==
  w.at \in {"init", "session", "call", "track", "replace", "count", "push"}
    => w.key \in Remote

(* The account of one adapter.                                             *)
Balanced(p) ==
  /\ IsFiniteSet(ToCount(p)) /\ IsFiniteSet(Own(p))
  /\ trackCount[p] + Cardinality(ToCount(p)) = Cardinality(Own(p))

OutIInv ==
  /\ OutTypeOK
  /\ \A e \in Envelope : KeyOK(sending[e])
  /\ \A p \in Proto : arrived[p] \subseteq tracked[p] /\ Balanced(p)

LEMMA OutStart == OutInit => OutIInv
<1>. SUFFICES ASSUME OutInit PROVE OutIInv
  OBVIOUS
<1>1. Unsent \in Sending /\ Unsent.at = "none"
  BY DEF Unsent, Sending, Proto
<1>2. OutTypeOK
  BY <1>1, InboxCapacity DEF OutInit, OutTypeOK, Proto
<1>3. \A e \in Envelope : KeyOK(sending[e])
  BY <1>1 DEF OutInit, KeyOK
<1>4. IsFiniteSet({}) /\ Cardinality({}) = 0
  BY FS_EmptySet
<1>5. ASSUME NEW p \in Proto
      PROVE  arrived[p] \subseteq tracked[p] /\ Balanced(p)
  <2>1. ToCount(p) = {} /\ Own(p) = {} /\ trackCount[p] = 0
    BY <1>1 DEF OutInit, ToCount, Own, At
  <2>. QED
    BY <1>4, <2>1 DEF OutInit, Balanced
<1>. QED
  BY <1>2, <1>3, <1>5 DEF OutIInv

(* A send moves on and neither stores nor counts an entry.                 *)
LEMMA SendMoves ==
  ASSUME OutIInv, NEW e \in Envelope, NEW w \in Sending, KeyOK(w),
         sending' = [sending EXCEPT ![e] = w], ~At(e, "count"), w.at # "count",
         UNCHANGED <<tracked, trackCount, arrived>>,
         named' \subseteq tracked["mcp"], inbox' \in [Proto -> 0..InboxSize],
         closed' \subseteq Proto
  PROVE  OutIInv'
<1>1. /\ sending' \in [Envelope -> Sending] /\ sending'[e] = w
      /\ \A f \in Envelope \ {e} : sending'[f] = sending[f]
  BY DEF OutIInv, OutTypeOK
<1>2. OutTypeOK'
  BY <1>1 DEF OutIInv, OutTypeOK
<1>3. \A f \in Envelope : KeyOK(sending'[f])
  BY <1>1 DEF OutIInv
<1>4. ASSUME NEW p \in Proto
      PROVE  (arrived[p] \subseteq tracked[p] /\ Balanced(p))'
  <2>1. ToCount(p)' = ToCount(p)
    BY <1>1 DEF ToCount, At
  <2>2. Own(p)' = Own(p)
    BY DEF Own
  <2>. QED
    BY <2>1, <2>2 DEF OutIInv, Balanced
<1>. QED
  BY <1>2, <1>3, <1>4 DEF OutIInv, KeyOK

(* Nothing but an inbox, an arrival or the list of closed adapters changes. *)
LEMMA SendsStay ==
  ASSUME OutIInv, UNCHANGED <<sending, trackCount, named>>,
         tracked' \in [Proto -> SUBSET Remote], arrived' \in [Proto -> SUBSET Remote],
         \A p \in Proto : /\ arrived'[p] \subseteq tracked'[p]
                          /\ tracked[p] \subseteq tracked'[p]
                          /\ tracked'[p] \ arrived'[p] = tracked[p] \ arrived[p],
         inbox' \in [Proto -> 0..InboxSize], closed' \subseteq Proto
  PROVE  OutIInv'
<1>1. OutTypeOK'
  BY DEF OutIInv, OutTypeOK, Proto
<1>2. \A e \in Envelope : KeyOK(sending'[e])
  BY DEF OutIInv
<1>3. ASSUME NEW p \in Proto
      PROVE  (arrived[p] \subseteq tracked[p] /\ Balanced(p))'
  <2>1. ToCount(p)' = ToCount(p) /\ Own(p)' = Own(p)
    BY DEF ToCount, At, Own
  <2>. QED
    BY <2>1 DEF OutIInv, Balanced
<1>. QED
  BY <1>1, <1>2, <1>3 DEF OutIInv, KeyOK

(* A new entry and an end of an adapter's queue of responses.              *)
LEMMA OfferedInbox ==
  ASSUME OutTypeOK, NEW p \in Proto
  PROVE  Offered(p) \in [Proto -> 0..InboxSize]
<1>1. inbox \in [Proto -> 0..InboxSize] /\ InboxSize \in Nat
  BY InboxCapacity DEF OutTypeOK
<1>2. (IF inbox[p] < InboxSize THEN inbox[p] + 1 ELSE inbox[p]) \in 0..InboxSize
  BY <1>1
<1>. QED
  BY <1>1, <1>2 DEF Offered

(* LoadOrStore: the entry is there, or it is new and will be counted.      *)
LEMMA TrackKeeps ==
  ASSUME OutIInv, NEW e \in Envelope, Track(e)
  PROVE  OutIInv'
<1>. DEFINE stage == IF sending[e].key \in tracked[sending[e].proto] THEN "replace" ELSE "count"
            w == [sending[e] EXCEPT !.at = stage]
<1>0. /\ OutTypeOK /\ sending[e] \in Sending /\ sending[e].at \in {"track", "session"}
      /\ \A f \in Envelope : KeyOK(sending[f])
      /\ \A p \in Proto : arrived[p] \subseteq tracked[p] /\ Balanced(p)
  BY DEF OutIInv, OutTypeOK, Track
<1>1. PICK p \in Proto, k \in Remote : sending[e].proto = p /\ sending[e].key = k
  BY <1>0 DEF Sending, KeyOK
<1>2. /\ w \in Sending /\ w.at = stage /\ w.proto = p /\ w.key = k
      /\ stage \in {"replace", "count"}
      /\ stage = "replace" <=> k \in tracked[p]
  BY <1>0, <1>1 DEF Sending
<1>3. /\ sending' = [sending EXCEPT ![e] = w]
      /\ tracked' = [tracked EXCEPT ![p] = tracked[p] \cup {k}]
      /\ UNCHANGED <<trackCount, arrived, named, inbox, closed>>
  BY <1>1 DEF Track, OutGoto
<1>. HIDE DEF w, stage
<1>4. /\ sending' \in [Envelope -> Sending] /\ sending'[e] = w
      /\ \A f \in Envelope \ {e} : sending'[f] = sending[f]
  BY <1>0, <1>2, <1>3 DEF OutTypeOK
<1>5. /\ tracked' \in [Proto -> SUBSET Remote] /\ tracked'[p] = tracked[p] \cup {k}
      /\ \A q \in Proto \ {p} : tracked'[q] = tracked[q]
      /\ \A q \in Proto : tracked[q] \subseteq tracked'[q]
  BY <1>0, <1>3 DEF OutTypeOK
<1>6. OutTypeOK'
  BY <1>0, <1>3, <1>4, <1>5 DEF OutTypeOK, Proto
<1>7. \A f \in Envelope : KeyOK(sending'[f])
  BY <1>0, <1>1, <1>2, <1>4 DEF KeyOK
<1>8. ASSUME NEW q \in Proto \ {p}
      PROVE  (arrived[q] \subseteq tracked[q] /\ Balanced(q))'
  <2>1. ToCount(q)' = ToCount(q) /\ Own(q)' = Own(q)
    BY <1>1, <1>2, <1>3, <1>4, <1>5 DEF ToCount, At, Own
  <2>. QED
    BY <1>0, <1>3, <1>5, <2>1 DEF Balanced
<1>9. arrived'[p] \subseteq tracked'[p]
  BY <1>0, <1>3, <1>5
<1>10. Balanced(p)'
  <2>1. CASE k \in tracked[p]
    <3>1. ToCount(p)' = ToCount(p)
      BY <1>0, <1>2, <1>4, <2>1 DEF ToCount, At
    <3>2. Own(p)' = Own(p)
      BY <1>3, <1>5, <2>1 DEF Own
    <3>. QED
      BY <1>0, <1>3, <3>1, <3>2 DEF Balanced
  <2>2. CASE k \notin tracked[p]
    <3>1. ToCount(p)' = ToCount(p) \cup {e} /\ e \notin ToCount(p)
      BY <1>0, <1>2, <1>4, <2>2 DEF ToCount, At
    <3>2. Own(p)' = Own(p) \cup {k} /\ k \notin Own(p)
      BY <1>0, <1>3, <1>5, <2>2 DEF Own
    <3>3. /\ IsFiniteSet(ToCount(p)') /\ Cardinality(ToCount(p)') = Cardinality(ToCount(p)) + 1
          /\ IsFiniteSet(Own(p)') /\ Cardinality(Own(p)') = Cardinality(Own(p)) + 1
          /\ Cardinality(ToCount(p)) \in Nat /\ Cardinality(Own(p)) \in Nat
      BY <1>0, <3>1, <3>2, CountOneIn DEF Balanced
    <3>4. trackCount[p] \in Nat
      BY <1>0 DEF OutTypeOK
    <3>. QED
      BY <1>0, <1>3, <3>3, <3>4 DEF Balanced
  <2>. QED
    BY <2>1, <2>2
<1>. QED
  BY <1>6, <1>7, <1>8, <1>9, <1>10 DEF OutIInv, KeyOK

(* A stored entry is counted.                                              *)
LEMMA CountKeepsBalance ==
  ASSUME OutIInv, NEW e \in Envelope, CountTracked(e)
  PROVE  OutIInv'
<1>. DEFINE w == [sending[e] EXCEPT !.at = Tracked(e)]
<1>0. /\ OutTypeOK /\ sending[e] \in Sending /\ At(e, "count")
      /\ \A f \in Envelope : KeyOK(sending[f])
      /\ \A p \in Proto : arrived[p] \subseteq tracked[p] /\ Balanced(p)
  BY DEF OutIInv, OutTypeOK, CountTracked
<1>1. PICK p \in Proto, k \in Remote : sending[e].proto = p /\ sending[e].key = k
  BY <1>0 DEF Sending, KeyOK, At
<1>2. /\ w \in Sending /\ w.at \in {"call", "push"} /\ w.proto = p /\ w.key = k
  BY <1>0, <1>1 DEF Sending, Tracked
<1>3. /\ sending' = [sending EXCEPT ![e] = w]
      /\ trackCount' = [trackCount EXCEPT ![p] = trackCount[p] + 1]
      /\ UNCHANGED <<tracked, arrived, named, inbox, closed>>
  BY <1>1 DEF CountTracked, OutGoto
<1>. HIDE DEF w
<1>4. /\ sending' \in [Envelope -> Sending] /\ sending'[e] = w
      /\ \A f \in Envelope \ {e} : sending'[f] = sending[f]
  BY <1>0, <1>2, <1>3 DEF OutTypeOK
<1>5. /\ trackCount' \in [Proto -> Nat] /\ trackCount'[p] = trackCount[p] + 1
      /\ \A q \in Proto \ {p} : trackCount'[q] = trackCount[q]
  BY <1>0, <1>3 DEF OutTypeOK
<1>6. OutTypeOK'
  BY <1>0, <1>3, <1>4, <1>5 DEF OutTypeOK
<1>7. \A f \in Envelope : KeyOK(sending'[f])
  BY <1>0, <1>1, <1>2, <1>4 DEF KeyOK
<1>8. \A q \in Proto : Own(q)' = Own(q)
  BY <1>3 DEF Own
<1>9. ASSUME NEW q \in Proto \ {p}
      PROVE  Balanced(q)'
  <2>1. ToCount(q)' = ToCount(q)
    BY <1>1, <1>2, <1>4 DEF ToCount, At
  <2>. QED
    BY <1>0, <1>5, <1>8, <2>1 DEF Balanced
<1>10. Balanced(p)'
  <2>1. ToCount(p)' = ToCount(p) \ {e} /\ e \in ToCount(p)
    BY <1>0, <1>1, <1>2, <1>4 DEF ToCount, At
  <2>2. /\ IsFiniteSet(ToCount(p)') /\ Cardinality(ToCount(p)') = Cardinality(ToCount(p)) - 1
        /\ Cardinality(ToCount(p)) \in Nat /\ Cardinality(Own(p)) \in Nat
    BY <1>0, <2>1, CountOneOut, FS_CardinalityType DEF Balanced
  <2>3. trackCount[p] \in Nat
    BY <1>0 DEF OutTypeOK
  <2>. QED
    BY <1>0, <1>5, <1>8, <2>2, <2>3 DEF Balanced
<1>11. \A q \in Proto : arrived'[q] \subseteq tracked'[q]
  BY <1>0, <1>3
<1>. QED
  BY <1>6, <1>7, <1>9, <1>10, <1>11 DEF OutIInv, KeyOK

(* Steps of a send that move it and name a session, offer a response or    *)
(* end it, each with its record.                                           *)
LEMMA SendSteps ==
  ASSUME OutIInv, NEW e \in Envelope,
         \/ Handle(e) \/ Dispatch(e) \/ StreamA2A(e) \/ Unaddressed(e) \/ Post(e)
         \/ InitSession(e) \/ CallRemote(e) \/ Replace(e) \/ Push(e) \/ NothingToPush(e)
  PROVE  OutIInv'
<1>0. /\ OutTypeOK /\ sending[e] \in Sending /\ KeyOK(sending[e])
  BY DEF OutIInv, OutTypeOK
<1>1. UNCHANGED <<tracked, trackCount, arrived>> /\ ~At(e, "count")
  BY DEF Handle, HandleBridgeSend, HandleInvoke, HandleInbound, Dispatch, StreamA2A,
     Unaddressed, Post, InitSession, CallRemote, Replace, Push, NothingToPush, At
<1>2. named' \subseteq tracked["mcp"]
  <2>1. named \subseteq tracked["mcp"]
    BY <1>0 DEF OutTypeOK
  <2>. QED
    BY <2>1 DEF Handle, HandleBridgeSend, HandleInvoke, HandleInbound, Dispatch, StreamA2A,
       Unaddressed, Post, InitSession, NameSession, CallRemote, Replace, Push, NothingToPush
<1>3. closed' \subseteq Proto
  BY <1>0 DEF Handle, HandleBridgeSend, HandleInvoke, HandleInbound, Dispatch, StreamA2A,
     Unaddressed, Post, InitSession, CallRemote, Replace, Push, NothingToPush, OutTypeOK
<1>4. inbox' \in [Proto -> 0..InboxSize]
  <2>1. sending[e].proto \in Proto /\ inbox \in [Proto -> 0..InboxSize]
    BY <1>0 DEF Sending, OutTypeOK
  <2>2. inbox' = inbox \/ inbox' = Offered(sending[e].proto)
    BY DEF Handle, HandleBridgeSend, HandleInvoke, HandleInbound, Dispatch, StreamA2A,
       Unaddressed, Post, InitSession, CallRemote, Replace, Push, NothingToPush
  <2>. QED
    BY <1>0, <2>1, <2>2, OfferedInbox
<1>. DEFINE Moves(w) == /\ w \in Sending /\ KeyOK(w) /\ w.at # "count"
                        /\ sending' = [sending EXCEPT ![e] = w]
<1>5. ASSUME NEW p \in Proto, NEW supplied \in BOOLEAN, NEW stream \in BOOLEAN,
             \/ HandleBridgeSend(e, p, supplied) \/ HandleInvoke(e, p, supplied, stream)
             \/ HandleInbound(e, p)
      PROVE  \E w : Moves(w)
  <2>1. CASE HandleBridgeSend(e, p, supplied)
    <3>. DEFINE w == [Unsent EXCEPT !.proto = p, !.at = "dispatch",
                                    !.endpoint = supplied \/ p \in Served]
    <3>1. w \in Sending /\ w.at = "dispatch"
      BY DEF Unsent, Sending
    <3>. QED
      BY <2>1, <3>1 DEF HandleBridgeSend, KeyOK
  <2>2. CASE HandleInvoke(e, p, supplied, stream)
    <3>. DEFINE w == [Unsent EXCEPT !.proto = p, !.at = "dispatch",
                                    !.endpoint = supplied, !.stream = stream]
    <3>1. w \in Sending /\ w.at = "dispatch"
      BY DEF Unsent, Sending
    <3>. QED
      BY <2>2, <3>1 DEF HandleInvoke, KeyOK
  <2>3. CASE HandleInbound(e, p)
    <3>. DEFINE w == [Unsent EXCEPT !.proto = p, !.at = "dispatch", !.stream = TRUE]
    <3>1. w \in Sending /\ w.at = "dispatch"
      BY DEF Unsent, Sending
    <3>. QED
      BY <2>3, <3>1 DEF HandleInbound, KeyOK
  <2>. QED
    BY <1>5, <2>1, <2>2, <2>3
<1>6. ASSUME NEW result \in {"sent", "failed", "unaddressed", "panic"}, OutEnd(e, result)
      PROVE  \E w : Moves(w)
  <2>. DEFINE w == [Unsent EXCEPT !.at = result]
  <2>1. w \in Sending /\ w.at = result
    BY DEF Unsent, Sending, Proto
  <2>. QED
    BY <1>6, <2>1 DEF KeyOK, OutEnd
<1>7. ASSUME NEW stage, OutGoto(e, stage),
             \/ stage \in {"open", "post"}
             \/ stage \in {"session", "call", "push", "track"}
                /\ sending[e].at \in {"init", "call", "replace"}
      PROVE  \E w : Moves(w)
  <2>. DEFINE w == [sending[e] EXCEPT !.at = stage]
  <2>1. w \in Sending /\ w.at = stage /\ w.key = sending[e].key
    BY <1>0, <1>7 DEF Sending
  <2>2. sending' = [sending EXCEPT ![e] = w]
    BY <1>7 DEF OutGoto
  <2>. HIDE DEF w
  <2>3. KeyOK(w) /\ w.at # "count"
    BY <1>0, <1>7, <2>1 DEF KeyOK
  <2>. QED
    BY <2>1, <2>2, <2>3
<1>8. ASSUME Post(e)
      PROVE  \E w : Moves(w)
  <2>1. PICK k \in Remote :
        sending' = [sending EXCEPT ![e] =
          [Unsent EXCEPT !.proto = sending[e].proto, !.key = k,
             !.at = IF sending[e].proto # "mcp" \/ k \in tracked["mcp"]
                    THEN "call" ELSE "init"]]
    BY <1>8 DEF Post
  <2>. DEFINE w == [Unsent EXCEPT !.proto = sending[e].proto, !.key = k,
                     !.at = IF sending[e].proto # "mcp" \/ k \in tracked["mcp"]
                            THEN "call" ELSE "init"]
  <2>2. w \in Sending /\ w.at \in {"call", "init"} /\ w.key = k
    BY <1>0 DEF Unsent, Sending
  <2>. QED
    BY <2>1, <2>2 DEF KeyOK
<1>9. \E w : Moves(w)
  <2>. HIDE DEF Moves
  <2>1. CASE Handle(e)
    BY <1>5, <2>1 DEF Handle
  <2>2. CASE Dispatch(e)
    BY <1>6, <1>7, <2>2 DEF Dispatch
  <2>3. CASE StreamA2A(e) \/ Unaddressed(e) \/ NothingToPush(e)
    BY <1>6, <2>3 DEF StreamA2A, Unaddressed, NothingToPush
  <2>4. CASE Push(e)
    BY <1>6, <2>4 DEF Push
  <2>5. CASE InitSession(e)
    BY <1>6, <1>7, <2>5 DEF InitSession, At
  <2>6. CASE CallRemote(e)
    BY <1>6, <1>7, <2>6 DEF CallRemote, At
  <2>7. CASE Replace(e)
    BY <1>7, <2>7 DEF Replace, At, Tracked
  <2>. QED
    BY <1>8, <2>1, <2>2, <2>3, <2>4, <2>5, <2>6, <2>7
<1>. QED
  BY <1>1, <1>2, <1>3, <1>4, <1>9, SendMoves

LEMMA OutStep == OutIInv /\ [OutNext]_<<outVars, faults>> => OutIInv'
<1>. SUFFICES ASSUME OutIInv, [OutNext]_<<outVars, faults>> PROVE OutIInv'
  OBVIOUS
<1>0. OutTypeOK /\ \A p \in Proto : arrived[p] \subseteq tracked[p]
  BY DEF OutIInv
<1>1. ASSUME NEW p \in Proto, NEW k \in Remote, Arrive(p, k)
      PROVE  OutIInv'
  <2>1. inbox' \in [Proto -> 0..InboxSize] /\ closed' \subseteq Proto
    BY <1>0, <1>1, OfferedInbox DEF Arrive, OutTypeOK
  <2>2. UNCHANGED <<sending, trackCount, named>>
    BY <1>1 DEF Arrive
  <2>3. \/ UNCHANGED <<tracked, arrived>>
        \/ /\ tracked' = [tracked EXCEPT ![p] = tracked[p] \cup {k}]
           /\ arrived' = [arrived EXCEPT ![p] = arrived[p] \cup {k}]
           /\ k \notin tracked[p]
    BY <1>1 DEF Arrive
  <2>4. /\ tracked' \in [Proto -> SUBSET Remote] /\ arrived' \in [Proto -> SUBSET Remote]
        /\ \A q \in Proto : /\ arrived'[q] \subseteq tracked'[q]
                            /\ tracked[q] \subseteq tracked'[q]
                            /\ tracked'[q] \ arrived'[q] = tracked[q] \ arrived[q]
    BY <1>0, <2>3 DEF OutTypeOK
  <2>. QED
    BY <2>1, <2>2, <2>4, SendsStay
<1>2. ASSUME NEW p \in Proto, CloseAdapter(p)
      PROVE  OutIInv'
  BY <1>0, <1>2, SendsStay DEF CloseAdapter, OutTypeOK
<1>3. CASE UNCHANGED <<outVars, faults>>
  BY <1>0, <1>3, SendsStay DEF outVars, OutTypeOK
<1>. QED
  BY <1>1, <1>2, <1>3, SendSteps, TrackKeeps, CountKeepsBalance
  DEF OutNext, SendA2A, SendACP, SendMCP, getOrInitSession

LEMMA OutInductive == OutSpec => []OutIInv
  BY OutStart, OutStep, PTL DEF OutSpec

(* The sends, the adapters' tables and their inboxes stay well formed.     *)
THEOREM OutTypes == OutSpec => []OutTypeOK
<1>1. OutIInv => OutTypeOK
  BY DEF OutIInv
<1>. QED
  BY <1>1, OutInductive, PTL

(* What an adapter counts is what its Sends stored, for any number of      *)
(* sends of the same task, run or endpoint at the same time (LoadOrStore). *)
THEOREM TrackSafe == OutSpec => []TrackedIsCounted
<1>1. OutIInv => TrackedIsCounted
  BY DEF OutIInv, TrackedIsCounted, Balanced, ToCount, Own
<1>. QED
  BY <1>1, OutInductive, PTL

=============================================================================
