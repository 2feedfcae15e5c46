-------------------------------- MODULE ACPRuns -----------------------------
(***************************************************************************)
(* The inbound ACP bridge: runs that foreign ACP clients create, kept in   *)
(* two sync.Maps and counted by an atomic counter that the maps know       *)
(* nothing of.  A run is served by its own goroutine (the request's, or    *)
(* for an asynchronous run a goroutine of the server with a five minute    *)
(* context); a cancel request and the hourly sweep touch the same entry.   *)
(* The goroutine works on its own copy of the run and stores it again and  *)
(* again, so what others did to the entry in between is overwritten.       *)
(***************************************************************************)
EXTENDS Platform, Integers

CONSTANTS
  Run,        \* run ids
  MaxRuns,    \* maxACPRuns, 10000 in the code
  MaxRevived  \* bound: stores of a swept run in one behaviour

ASSUME MaxRunsIsPositive == MaxRuns \in Nat \ {0}
ASSUME RevivedBound == MaxRevived \in Nat

VARIABLES
  runs,        \* acpRuns.runs: the status of a stored run
  runCount,    \* acpRuns.runCount
  creatorIPs,  \* runs whose creator's address is stored
  worker,      \* the goroutine of a run: [mode, at, result]
  canceling,   \* run a cancel request has loaded and will store
  sweep,       \* the clean-up: [at, run]
  revived      \* times an entry was stored after a sweep had removed it

acpVars ==
  <<runs, runCount, creatorIPs, worker, canceling, sweep, revived>>

Ended == {"completed", "failed"}
RunStatus == {"created", "in-progress", "cancelled"} \cup Ended

ASSUME NoneIsNoStatus == None \notin RunStatus

Mode == {"sync", "stream", "async"}
Worker ==
  [mode : Mode, result : {"completed", "failed"},
   at : {"none", "store", "count", "own", "start", "send", "reply", "finish",
         "over"}]
Idle == [mode |-> "sync", result |-> "failed", at |-> "none"]

ACPInit ==
  /\ runs = [r \in Run |-> None]
  /\ runCount = 0
  /\ creatorIPs = {}
  /\ worker = [r \in Run |-> Idle]
  /\ canceling = [h \in Handler |-> None]
  /\ sweep = [at |-> "range", run |-> None]
  /\ revived = 0

Begun(r) == worker[r].at \notin {"none", "store"}
Goto(r, stage) == worker' = [worker EXCEPT ![r].at = stage]
EndRun(r) == worker' = [worker EXCEPT ![r] = [Idle EXCEPT !.at = "over"]]

(* Store replaces the entry, or brings it back when a sweep removed it.     *)
StoreRun(r, status) ==
  /\ runs' = [runs EXCEPT ![r] = status]
  /\ revived' = IF runs[r] = None /\ Begun(r) THEN revived + 1 ELSE revived
  /\ revived' <= MaxRevived

(* The check of the limit; the run is stored and counted in later steps.    *)
Admit(r, mode) ==
  /\ worker[r].at = "none"
  /\ runCount < MaxRuns
  /\ worker' =
       [worker EXCEPT ![r] = [Idle EXCEPT !.mode = mode, !.at = "store"]]
  /\ UNCHANGED <<runs, runCount, creatorIPs, canceling, sweep, revived>>

CreateRun(r) ==
  /\ worker[r].at = "store"
  /\ StoreRun(r, "created")
  /\ Goto(r, "count")
  /\ UNCHANGED <<runCount, creatorIPs, canceling, sweep>>

CountRun(r) ==
  /\ worker[r].at = "count"
  /\ runCount' = runCount + 1
  /\ Goto(r, "own")
  /\ UNCHANGED <<runs, creatorIPs, canceling, sweep, revived>>

OwnRun(r) ==
  /\ worker[r].at = "own"
  /\ creatorIPs' = creatorIPs \cup {r}
  /\ Goto(r, "start")
  /\ UNCHANGED <<runs, runCount, canceling, sweep, revived>>

StartRun(r) ==
  /\ worker[r].at = "start"
  /\ StoreRun(r, "in-progress")
  /\ Goto(r, "send")
  /\ UNCHANGED <<runCount, creatorIPs, canceling, sweep>>

(* SendStream opens a stream of chunks, or refuses.  The row of the         *)
(* invocation log and the reputation event of a run (Reputation) are no     *)
(* steps: nothing of the bridge reads them.                                 *)
OpenRunStream(r) ==
  /\ worker[r].at = "send"
  /\ Goto(r, "reply")
  /\ UNCHANGED <<runs, runCount, creatorIPs, canceling, sweep, revived>>

OpenFails(r) ==
  /\ worker[r].at = "send"
  /\ StoreRun(r, "failed")
  /\ EndRun(r)
  /\ UNCHANGED <<runCount, creatorIPs, canceling, sweep>>

(* A streaming run stores every partial output, still in progress.          *)
Chunk(r) ==
  /\ worker[r].at = "reply" /\ worker[r].mode = "stream"
  /\ StoreRun(r, "in-progress")
  /\ UNCHANGED <<worker, runCount, creatorIPs, canceling, sweep>>

EndOfReply(r) ==
  /\ worker[r].at = "reply"
  /\ \E result \in Ended :
        worker' = [worker EXCEPT ![r].at = "finish", ![r].result = result]
  /\ UNCHANGED <<runs, runCount, creatorIPs, canceling, sweep, revived>>

FinishRun(r) ==
  /\ worker[r].at = "finish"
  /\ StoreRun(r, worker[r].result)
  /\ EndRun(r)
  /\ UNCHANGED <<runCount, creatorIPs, canceling, sweep>>

(* A cancel loads the run and stores a cancelled copy of it, whatever the   *)
(* run's status and its goroutine.                                          *)
CancelLoad(h, r) ==
  /\ canceling[h] = None
  /\ runs[r] # None
  /\ canceling' = [canceling EXCEPT ![h] = r]
  /\ UNCHANGED <<runs, runCount, creatorIPs, worker, sweep, revived>>

(* Variant: the run is to go on until it notices.                           *)
CancelStoreAsked(h) ==
  /\ canceling[h] # None
  /\ StoreRun(canceling[h], "in-progress")
  /\ canceling' = [canceling EXCEPT ![h] = None]
  /\ UNCHANGED <<runCount, creatorIPs, worker, sweep>>

CancelStore(h) ==
  /\ canceling[h] # None
  /\ StoreRun(canceling[h], "cancelled")
  /\ canceling' = [canceling EXCEPT ![h] = None]
  /\ UNCHANGED <<runCount, creatorIPs, worker, sweep>>

(* A run is old maxAge after it was created; an asynchronous one is cut off *)
(* long before that, a client may wait for any time.                        *)
Old(r) ==
  /\ worker[r].mode = "async" => worker[r].at = "over"
  /\ worker[r].at \notin {"count", "own", "start"}

(* The sweep removes an old run, its creator, and then counts it out.       *)
SweepRun(r) ==
  /\ sweep.at = "range"
  /\ runs[r] # None /\ Old(r)
  /\ runs' = [runs EXCEPT ![r] = None]
  /\ sweep' = [at |-> "creator", run |-> r]
  /\ UNCHANGED <<runCount, creatorIPs, worker, canceling, revived>>

SweepCreator ==
  /\ sweep.at = "creator"
  /\ creatorIPs' = creatorIPs \ {sweep.run}
  /\ sweep' = [sweep EXCEPT !.at = "count"]
  /\ UNCHANGED <<runs, runCount, worker, canceling, revived>>

(* Variant: the run is not counted out.                                     *)
SweepForgetsCount ==
  /\ sweep.at = "count"
  /\ sweep' = [at |-> "range", run |-> None]
  /\ UNCHANGED <<runs, runCount, creatorIPs, worker, canceling, revived>>

SweepCount ==
  /\ sweep.at = "count"
  /\ runCount' = runCount - 1
  /\ sweep' = [at |-> "range", run |-> None]
  /\ UNCHANGED <<runs, creatorIPs, worker, canceling, revived>>

handleACPBridgeCreateRun(r) ==
  (\E mode \in Mode : Admit(r, mode)) \/ CreateRun(r) \/ CountRun(r) \/ OwnRun(r)

(* What the three modes have in common; they differ in who waits for the    *)
(* run, and only a streaming one stores partial outputs.                    *)
Execute(r) ==
  \/ StartRun(r) \/ OpenRunStream(r) \/ OpenFails(r) \/ EndOfReply(r) \/ FinishRun(r)

handleACPBridgeSync(r) == worker[r].mode = "sync" /\ Execute(r)
handleACPBridgeStream(r) ==
  worker[r].mode = "stream" /\ (Execute(r) \/ Chunk(r))
handleACPBridgeAsync(r) == worker[r].mode = "async" /\ Execute(r)

handleACPBridgeCancelRun(h) ==
  (\E r \in Run : CancelLoad(h, r)) \/ CancelStore(h)

acpBridgeCleanup == (\E r \in Run : SweepRun(r)) \/ SweepCreator \/ SweepCount

ACPNext ==
  /\ UNCHANGED faults
  /\ \/ \E r \in Run :
           \/ handleACPBridgeCreateRun(r) \/ handleACPBridgeSync(r)
           \/ handleACPBridgeStream(r) \/ handleACPBridgeAsync(r)
     \/ \E h \in Handler : handleACPBridgeCancelRun(h)
     \/ acpBridgeCleanup

ACPSpec == ACPInit /\ faults = 0 /\ [][ACPNext]_<<acpVars, faults>>

-----------------------------------------------------------------------------
(* Types.                                                                   *)
ACPTypeOK ==
  /\ runs \in [Run -> RunStatus \cup {None}]
  /\ runCount \in Int
  /\ creatorIPs \subseteq Run
  /\ worker \in [Run -> Worker]
  /\ canceling \in [Handler -> Run \cup {None}]
  /\ sweep \in [at : {"range", "creator", "count"}, run : Run \cup {None}]
  /\ revived \in Nat

Stored == {r \in Run : runs[r] # None}
Uncounted == {r \in Run : worker[r].at = "count"}

(* The counter that bounds the bridge's memory follows the map: it differs  *)
(* only by the runs stored and not yet counted, a removal not yet counted,  *)
(* and the entries a late store brought back after the sweep had counted    *)
(* them out (acp_bridge.go:111-113, 587-590).                               *)
RunsCounted ==
  runCount + Cardinality(Uncounted) + revived =
    Cardinality(Stored) + (IF sweep.at = "range" THEN 0 ELSE 1)

(* Once its goroutine is over, a run changes only by a cancel or the sweep:  *)
(* nobody sees a finished run go back to work (acp_bridge.go:190-219, 454).  *)
EndedIsFinal ==
  [][\A r \in Run :
       worker[r].at = "over" /\ runs'[r] # runs[r] =>
         runs'[r] \in {"cancelled", None}]_runs

=============================================================================
