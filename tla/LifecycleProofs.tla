----------------------------- MODULE LifecycleProofs -----------------------------
(***************************************************************************)
(* Proofs about the life of the process: whatever the configuration turns  *)
(* on and whichever goroutine is late or fails, main starts and stops the  *)
(* services in order.                                                      *)
(***************************************************************************)
EXTENDS Lifecycle, TLAPS

Before == {"load", "migrate", "wire", "version check"}
Running == {"version check", "routes", "launch", "up", "cancel", "stop", "wait"}
Down == {"close", "exited"}
AtRest == {"off", "over"}

(* How far main is tells which goroutines there are, what is open and what  *)
(* was cancelled.                                                           *)
Placed ==
  /\ main \in Before \cup {"aborted"} => launched = 0
  /\ main = "routes" => launched = 1
  /\ main = "launch" => launched \in {1, 2, 3}
  /\ launched < 3 => jobs["http"] = "off"
  /\ launched = 0 => \A j \in Job : jobs[j] = "off"
  /\ main \in {"migrate", "wire"} => opened = {"store"}
  /\ main \in Running => opened = {"store", "bridges"}
  /\ main \in Down => \A j \in Job : jobs[j] \in AtRest
  /\ main \in {"stop", "wait"} => ctxDone
  /\ main = "wait" => srvClosed

(* The services main holds are those of the configuration.                  *)
Held ==
  /\ main \in {"load", "migrate"} => ready = {}
  /\ main = "wire" => ready = WithTables \ (Optional \ wanted)
  /\ main \in Running =>
       ready = (WithTables \ (Optional \ wanted))
                 \cup (wanted \cap {"signaling", "retention", "version check"})
  /\ main \in {"launch", "up"} => routed = ready \cap Gated

(* The server's goroutine sends one error, in its last step.                *)
OneError ==
  /\ jobs["http"] # "wait"
  /\ jobs["http"] # "over" => errCh = 0

LifeIInv == LifeTypeOK /\ Placed /\ Held /\ OneError

(* The order of the launches, and the goroutines by name.                   *)
LEMMA LaunchOrder ==
  /\ DOMAIN Launches = {1, 2, 3, 4} /\ Len(Launches) = 4
  /\ Launches[1] = {"version check"}
  /\ Launches[2] = {"heartbeat", "codes", "retention", "notices"}
  /\ Launches[3] = {"http"}
  /\ Launches[4] = {"broadcast"}
  BY DEF Launches

LEMMA Jobs ==
  Job = {"version check", "heartbeat", "codes", "retention", "notices", "http",
         "broadcast"}
<1>1. Job = Launches[1] \cup Launches[2] \cup Launches[3] \cup Launches[4]
  BY LaunchOrder DEF Job
<1>. QED
  BY <1>1, LaunchOrder

LEMMA LifeInitially == LifeInit => LifeIInv
<1>. SUFFICES ASSUME LifeInit PROVE LifeIInv
  BY DEF LifeIInv
<1>1. LifeTypeOK
  <2>1. main \in MainStage /\ wanted \subseteq Optional
    BY DEF LifeInit, MainStage
  <2>2. jobs \in [Job -> JobStage]
    BY DEF LifeInit, JobStage
  <2>3. launched \in 0..4 /\ errCh \in 0..1
    BY DEF LifeInit
  <2>. QED
    BY <2>1, <2>2, <2>3 DEF LifeInit, LifeTypeOK
<1>2. Placed
  <2>1. main = "load" /\ launched = 0 /\ (\A j \in Job : jobs[j] = "off")
    BY DEF LifeInit
  <2>. QED
    BY <2>1, Jobs DEF Placed, Running, Before, Down
<1>3. Held /\ OneError
  BY Jobs DEF LifeInit, Held, OneError, Running
<1>. QED
  BY <1>1, <1>2, <1>3 DEF LifeIInv

(* A launch starts the goroutines of its place in the order, and no other.  *)
LEMMA LaunchStarts ==
  ASSUME jobs \in [Job -> JobStage], launched \in 0..3, Launch
  PROVE  /\ launched' = launched + 1
         /\ jobs' \in [Job -> JobStage]
         /\ launched # 2 => jobs'["http"] = jobs["http"]
         /\ launched = 2 => jobs'["http"] = "work"
<1>1. \A j \in Job : FirstStage(j) \in {"work", "events", "wait"}
  BY Jobs DEF FirstStage
<1>2. launched' = launched + 1 /\ jobs' \in [Job -> JobStage]
  BY <1>1 DEF Launch, JobStage
<1>3. ASSUME launched # 2
      PROVE  jobs'["http"] = jobs["http"]
  <2>1. "http" \notin Launches[1] /\ "http" \notin Launches[2] /\ "http" \notin Launches[4]
    BY LaunchOrder
  <2>2. launched + 1 = 1 \/ launched + 1 = 2 \/ launched + 1 = 4
    BY <1>3
  <2>3. "http" \notin Launches[launched + 1]
    BY <2>1, <2>2
  <2>. QED
    BY <2>3, Jobs DEF Launch
<1>4. ASSUME launched = 2
      PROVE  jobs'["http"] = "work"
  <2>1. FirstStage("http") = "work"
    BY DEF FirstStage
  <2>2. "http" \in Launches[launched + 1]
    <3>1. launched + 1 = 3
      BY <1>4
    <3>. QED
      BY <3>1, LaunchOrder
  <2>3. "http" \in Job
    BY Jobs
  <2>4. jobs'["http"] = FirstStage("http")
    BY <2>2, <2>3, Zenon DEF Launch
  <2>. QED
    BY <2>1, <2>4
<1>. QED
  BY <1>2, <1>3, <1>4

(* A background step moves one goroutine that is not idle, and the server's *)
(* goroutine sends its error with its last one.                             *)
LEMMA JobMoves ==
  ASSUME jobs \in [Job -> JobStage], errCh \in 0..1, OneError, Background
  PROVE  \E j \in Job, s \in JobStage :
           /\ jobs[j] \notin AtRest
           /\ jobs' = [jobs EXCEPT ![j] = s]
           /\ j = "http" => s # "wait"
           /\ j = "http" /\ s = "over" => errCh = 0 /\ errCh' = 1
           /\ j # "http" \/ s # "over" => errCh' = errCh
<1>. USE DEF JobGoto, JobStage, AtRest
<1>1. ASSUME NEW j \in Job, JobTicks(j)
      PROVE  /\ jobs[j] = "wait" /\ errCh' = errCh
             /\ \E s \in {"work", "events"} : jobs' = [jobs EXCEPT ![j] = s]
  BY <1>1 DEF JobTicks
<1>2. ASSUME NEW j \in Job, Quit(j)
      PROVE  /\ jobs[j] = "wait" /\ j # "http" /\ errCh' = errCh
             /\ jobs' = [jobs EXCEPT ![j] = "over"]
  BY <1>2 DEF Quit, OneError
<1>3. ASSUME NEW j \in Job, WorkEnds(j)
      PROVE  /\ jobs[j] = "work" /\ j # "http" /\ errCh' = errCh
             /\ \E s \in {"over", "wait"} : jobs' = [jobs EXCEPT ![j] = s]
  BY <1>3 DEF WorkEnds, Ticks
<1>4. CASE Prune
  BY <1>4, Jobs DEF Prune
<1>5. CASE Listen
  BY <1>5, Jobs DEF Listen
<1>6. CASE ListenEnds
  BY <1>6, Jobs DEF ListenEnds
<1>7. CASE SendError
  <2>1. errCh = 0 /\ errCh' = 1
    BY <1>7 DEF SendError, ErrChHasRoom
  <2>2. jobs["http"] = "send" /\ jobs' = [jobs EXCEPT !["http"] = "over"]
    BY <1>7 DEF SendError
  <2>. QED
    BY <2>1, <2>2, Jobs
<1>. QED
  BY <1>1, <1>2, <1>3, <1>4, <1>5, <1>6, <1>7 DEF Background

(* What main holds follows the configuration, through every step.           *)
LEMMA HeldStep == ASSUME LifeTypeOK, Held, StartUp \/ Background \/ ShutDown PROVE Held'
<1>1. CASE StartUp
  BY <1>1
  DEF LifeTypeOK, Held, StartUp, OpenStore, Abort, InitServices, Wire,
      LaunchVersionCheck, RegisterRoutes, LaunchNext, configured, stopping,
      MainGoto, Running
<1>2. CASE Background
  BY <1>2
  DEF Held, Background, JobTicks, Quit, WorkEnds, Prune, Listen, ListenEnds,
      SendError, configured
<1>3. CASE ShutDown
  BY <1>3
  DEF Held, ShutDown, Signal, ServerError, Cancel, Stop, CloseBridges, CloseStore,
      configured, MainGoto, Running
<1>. QED
  BY <1>1, <1>2, <1>3

(* A goroutine works only between its launch and main's wait for it; none   *)
(* starts by itself.                                                        *)
LEMMA BackgroundStep == ASSUME LifeIInv, Background PROVE LifeIInv'
<1>1. UNCHANGED <<wanted, main, ready, routed, launched, ctxDone, srvClosed,
                  sweeping, opened>>
  BY DEF Background, JobTicks, Quit, WorkEnds, Prune, Listen, ListenEnds, SendError,
     configured, stopping
<1>2. PICK j \in Job, s \in JobStage :
        /\ jobs[j] \notin AtRest
        /\ jobs' = [jobs EXCEPT ![j] = s]
        /\ j = "http" => s # "wait"
        /\ j = "http" /\ s = "over" => errCh = 0 /\ errCh' = 1
        /\ j # "http" \/ s # "over" => errCh' = errCh
  BY JobMoves DEF LifeIInv, LifeTypeOK
<1>3. jobs \in [Job -> JobStage] /\ jobs' \in [Job -> JobStage]
  BY <1>2 DEF LifeIInv, LifeTypeOK
<1>4. LifeTypeOK'
  <2>1. errCh' \in 0..1
    BY <1>2 DEF LifeIInv, LifeTypeOK
  <2>. QED
    BY <1>1, <1>3, <2>1 DEF LifeIInv, LifeTypeOK
<1>5. OneError'
  <2>1. CASE j = "http"
    BY <1>2, <1>3, <2>1 DEF LifeIInv, OneError, AtRest
  <2>2. CASE j # "http"
    BY <1>2, <1>3, <2>2, Jobs DEF LifeIInv, OneError
  <2>. QED
    BY <2>1, <2>2
<1>6. Placed'
  <2>1. launched # 0 /\ main \notin Down
    BY <1>2 DEF LifeIInv, Placed, AtRest
  <2>2. launched < 3 => j # "http"
    BY <1>2 DEF LifeIInv, Placed, AtRest
  <2>3. launched < 3 => jobs'["http"] = "off"
    BY <1>2, <1>3, <2>2, Jobs DEF LifeIInv, Placed
  <2>. QED
    BY <1>1, <2>1, <2>3 DEF LifeIInv, Placed
<1>. QED
  BY <1>4, <1>5, <1>6, HeldStep DEF LifeIInv

(* Start-up: the goroutines come after the services they use.               *)
LEMMA StartUpStep == ASSUME LifeIInv, StartUp PROVE LifeIInv'
<1>. USE DEF configured, stopping, MainGoto
<1>1. CASE OpenStore \/ Abort \/ InitServices \/ Wire \/ RegisterRoutes
  <2>1. /\ UNCHANGED <<jobs, launched, errCh, ctxDone, srvClosed>>
        /\ sweeping' \in {sweeping, TRUE}
    BY <1>1 DEF OpenStore, Abort, InitServices, Wire, RegisterRoutes
  <2>2. main' \in MainStage /\ wanted' \subseteq Optional
    BY <1>1
    DEF OpenStore, Abort, InitServices, Wire, RegisterRoutes, LifeIInv, LifeTypeOK,
        MainStage
  <2>3. routed' \subseteq ready' /\ ready' \subseteq WithTables \cup Optional
    BY <1>1
    DEF OpenStore, Abort, InitServices, Wire, RegisterRoutes, LifeIInv, LifeTypeOK,
        Held
  <2>4. opened' \subseteq {"store", "bridges"}
    BY <1>1
    DEF OpenStore, Abort, InitServices, Wire, RegisterRoutes, LifeIInv, LifeTypeOK
  <2>5. LifeTypeOK'
    BY <2>1, <2>2, <2>3, <2>4 DEF LifeIInv, LifeTypeOK
  <2>6. Placed'
    <3>1. main' \in {"migrate", "aborted", "wire", "version check", "launch"}
      BY <1>1 DEF OpenStore, Abort, InitServices, Wire, RegisterRoutes
    <3>2. main' = "launch" => launched = 1
      BY <1>1
      DEF OpenStore, Abort, InitServices, Wire, RegisterRoutes, LifeIInv, Placed
    <3>3. main' # "launch" => launched = 0
      BY <1>1
      DEF OpenStore, Abort, InitServices, Wire, RegisterRoutes, LifeIInv, Placed,
          Before
    <3>4. /\ main' \in {"migrate", "wire"} => opened' = {"store"}
          /\ main' \in {"version check", "launch"} => opened' = {"store", "bridges"}
      BY <1>1
      DEF OpenStore, Abort, InitServices, Wire, RegisterRoutes, LifeIInv, LifeTypeOK,
          Placed, Running
    <3>. QED
      BY <2>1, <3>1, <3>2, <3>3, <3>4
      DEF LifeIInv, Placed, Before, Running, Down
  <2>. QED
    BY <2>1, <2>5, <2>6, HeldStep DEF LifeIInv, OneError
<1>2. CASE LaunchVersionCheck \/ LaunchNext
  <2>1. /\ Launch /\ launched \in 0..3
        /\ \/ main = "version check" /\ launched = 0 /\ main' = "routes"
           \/ main = "launch" /\ launched \in {1, 2, 3} /\ main' \in {"launch", "up"}
    <3>1. Launch
      BY <1>2 DEF LaunchVersionCheck, LaunchNext
    <3>2. \/ main = "version check" /\ main' = "routes"
          \/ main = "launch" /\ main' \in {"launch", "up"}
      BY <1>2 DEF LaunchVersionCheck, LaunchNext
    <3>3. /\ main = "version check" => launched = 0
          /\ main = "launch" => launched \in {1, 2, 3}
      BY DEF LifeIInv, Placed, Before
    <3>4. CASE main = "version check"
      <4>1. launched = 0
        BY <3>3, <3>4
      <4>2. launched \in 0..3
        BY <4>1
      <4>. QED
        BY <3>1, <3>2, <3>4, <4>1, <4>2
    <3>5. CASE main = "launch"
      <4>1. launched \in {1, 2, 3}
        BY <3>3, <3>5
      <4>2. launched \in 0..3
        BY <4>1
      <4>. QED
        BY <3>1, <3>2, <3>5, <4>1, <4>2
    <3>. QED
      BY <3>2, <3>4, <3>5
  <2>2. UNCHANGED <<wanted, ready, routed, ctxDone, srvClosed, sweeping, errCh, opened>>
    BY <1>2 DEF LaunchVersionCheck, LaunchNext
  <2>3. /\ launched' = launched + 1
        /\ jobs' \in [Job -> JobStage]
        /\ launched # 2 => jobs'["http"] = jobs["http"]
        /\ launched = 2 => jobs'["http"] = "work"
    BY <2>1, LaunchStarts DEF LifeIInv, LifeTypeOK
  <2>4. LifeTypeOK'
    <3>1. main' \in MainStage
      BY <2>1 DEF MainStage
    <3>2. launched' \in 0..4
      <4>1. launched \in 0..3
        BY <2>1
      <4>. QED
        BY <2>3, <4>1
    <3>. QED
      BY <2>2, <2>3, <3>1, <3>2 DEF LifeIInv, LifeTypeOK
  <2>5. Placed'
    <3>1. ASSUME main = "launch", main' = "launch"
          PROVE  launched' \in {1, 2, 3}
      <4>1. launched + 1 # 4
        BY <1>2, <3>1, LaunchOrder DEF LaunchVersionCheck, LaunchNext
      <4>2. launched \in {1, 2, 3}
        BY <2>1, <3>1
      <4>3. launched' = launched + 1
        BY <2>3
      <4>. QED
        BY <4>1, <4>2, <4>3
    <3>2. ASSUME main = "version check" PROVE launched' = 1
      <4>1. launched = 0 /\ launched' = launched + 1
        BY <2>1, <2>3, <3>2
      <4>. QED
        BY <4>1
    <3>3. launched' # 0 /\ (launched' < 3 => jobs'["http"] = "off")
      <4>1. launched \in 0..3
        BY <2>1
      <4>2. launched' # 0 /\ (launched' < 3 => launched < 2)
        BY <2>3, <4>1
      <4>3. launched < 2 => launched # 2 /\ launched < 3
        BY <4>1
      <4>. QED
        BY <2>3, <4>2, <4>3 DEF LifeIInv, Placed
    <3>4. opened' = {"store", "bridges"}
      BY <2>1, <2>2 DEF LifeIInv, Placed, Running
    <3>. QED
      BY <2>1, <3>1, <3>2, <3>3, <3>4 DEF Placed, Before, Running, Down
  <2>6. OneError'
    <3>1. CASE launched = 2
      BY <2>2, <2>3, <3>1 DEF LifeIInv, Placed, OneError
    <3>2. CASE launched # 2
      BY <2>2, <2>3, <3>2 DEF LifeIInv, OneError
    <3>. QED
      BY <3>1, <3>2
  <2>. QED
    BY <2>4, <2>5, <2>6, HeldStep DEF LifeIInv
<1>. QED
  BY <1>1, <1>2 DEF StartUp

(* Shutdown: main closes what the goroutines use after they are over.       *)
LEMMA ShutDownStep == ASSUME LifeIInv, ShutDown PROVE LifeIInv'
<1>. USE DEF ShutDown, Signal, ServerError, Cancel, Stop, CloseBridges, CloseStore,
         MainGoto, configured, stopping
<1>1. UNCHANGED <<wanted, ready, routed, jobs, launched>>
  OBVIOUS
<1>2. main' \in {"cancel", "stop", "wait", "close", "exited"}
  OBVIOUS
<1>3. errCh' \in 0..1 /\ (errCh = 0 => errCh' = 0)
  BY DEF LifeIInv, LifeTypeOK
<1>4. LifeTypeOK'
  <2>1. main' \in MainStage
    BY <1>2 DEF MainStage
  <2>2. /\ ctxDone' \in BOOLEAN /\ srvClosed' \in BOOLEAN /\ sweeping' \in BOOLEAN
        /\ opened' \subseteq {"store", "bridges"}
    BY DEF LifeIInv, LifeTypeOK
  <2>. HIDE DEF ShutDown, Signal, ServerError, Cancel, Stop, CloseBridges, CloseStore
  <2>. QED
    BY <1>1, <1>3, <2>1, <2>2 DEF LifeIInv, LifeTypeOK
<1>5. Placed'
  <2>1. main' \in Down => \A j \in Job : jobs[j] \in AtRest
    BY DEF LifeIInv, Placed, Down, AtRest
  <2>2. main' \in {"cancel", "stop", "wait"} => opened' = {"store", "bridges"}
    BY DEF LifeIInv, Placed, Running
  <2>3. (main' \in {"stop", "wait"} => ctxDone') /\ (main' = "wait" => srvClosed')
    BY DEF LifeIInv, Placed
  <2>. HIDE DEF ShutDown, Signal, ServerError, Cancel, Stop, CloseBridges, CloseStore
  <2>. QED
    BY <1>1, <1>2, <2>1, <2>2, <2>3 DEF LifeIInv, Placed, Before, Running, Down
<1>6. OneError'
  BY <1>1, <1>3 DEF LifeIInv, OneError
<1>. QED
  BY <1>4, <1>5, <1>6, HeldStep DEF LifeIInv

LEMMA LifeStep == LifeIInv /\ [LifeNext]_<<lifeVars, faults>> => LifeIInv'
<1>. SUFFICES ASSUME LifeIInv, [LifeNext]_<<lifeVars, faults>>
              PROVE  LifeIInv'
  OBVIOUS
<1>1. CASE UNCHANGED lifeVars
  <2>1. LifeTypeOK'
    BY <1>1 DEF lifeVars, LifeIInv, LifeTypeOK
  <2>2. Placed'
    BY <1>1 DEF lifeVars, LifeIInv, Placed
  <2>3. Held' /\ OneError'
    BY <1>1 DEF lifeVars, LifeIInv, Held, OneError
  <2>. QED
    BY <2>1, <2>2, <2>3 DEF LifeIInv
<1>. QED
  BY <1>1, StartUpStep, BackgroundStep, ShutDownStep DEF LifeNext

LEMMA LifeInvariant == LifeSpec => []LifeIInv
  BY LifeInitially, LifeStep, PTL DEF LifeSpec

(* What main, the channel and the goroutines can hold.                      *)
THEOREM LifecycleTypes == LifeSpec => []LifeTypeOK
<1>1. LifeIInv => LifeTypeOK
  BY DEF LifeIInv
<1>. QED
  BY <1>1, LifeInvariant, PTL

(* The process starts and stops in order: no goroutine works on a closed    *)
(* store, none is lost to os.Exit, and main's wait can end                  *)
(* (main.go:488-490, 622-681).                                              *)
THEOREM StartsAndStopsInOrder == LifeSpec => []LifecycleInOrder
<1>1. LifeIInv => LifecycleInOrder
  <2>. SUFFICES ASSUME LifeIInv PROVE LifecycleInOrder
    OBVIOUS
  <2>. USE DEF LifeIInv
  <2>1. RoutesFollowServices
    BY DEF RoutesFollowServices, Held, LifeTypeOK, Running, WithTables, Optional,
       Gated
  <2>2. OpenWhileUsed
    BY DEF OpenWhileUsed, Placed, LifeTypeOK, MainStage, Before, Running, Down, AtRest
  <2>3. AbortsAlone
    BY DEF AbortsAlone, Placed
  <2>4. WaitCanEnd
    <3>1. jobs["http"] = "send" => ErrChHasRoom
      BY DEF OneError, ErrChHasRoom
    <3>. QED
      BY <3>1 DEF WaitCanEnd, Placed
  <2>. QED
    BY <2>1, <2>2, <2>3, <2>4 DEF LifecycleInOrder
<1>. QED
  BY <1>1, LifeInvariant, PTL

=============================================================================
