------------------------------- MODULE Lifecycle -------------------------------
(***************************************************************************)
(* The life of the server process (cmd/peerclawd, main): the store is      *)
(* opened and every service migrates its tables, the HTTP server is wired  *)
(* and its routes registered, the background goroutines are launched one   *)
(* after the other, and main waits for a signal or for an error of the     *)
(* HTTP server.  Then it cancels the context, closes the server, waits for *)
(* the goroutines in the wait group and closes the bridges and the store.  *)
(*                                                                         *)
(* A step that fails before the goroutines are launched ends the process   *)
(* with os.Exit, which runs none of the deferred calls.                    *)
(***************************************************************************)
EXTENDS Platform, Sequences

VARIABLES
  wanted,    \* what the configuration turns on
  main,      \* where main is
  ready,     \* the services main holds
  routed,    \* the services whose optional routes are registered
  jobs,      \* what a background goroutine is at
  launched,  \* how many of Launches main has come to
  ctxDone,   \* ctx is cancelled
  srvClosed, \* http.Server.Close was called
  sweeping,  \* the bridges' clean-up goroutines are not cancelled
  errCh,     \* errors in the channel
  opened     \* what is open: the store, the bridges

lifeVars == <<wanted, main, ready, routed, jobs, launched, ctxDone, srvClosed,
              sweeping, errCh, opened>>

configured == <<wanted, ready, routed>>
stopping == <<ctxDone, srvClosed, sweeping>>

(* The services that have tables, and what the configuration may leave out. *)
WithTables == {"reputation", "verification", "user auth", "invocation", "review",
               "claim token", "contacts", "contact request", "user ACL", "admin audit",
               "notification"}
Optional == {"user auth", "notification", "version check", "retention", "signaling"}

(* The background goroutines, in the order main launches them (the ones     *)
(* that tick in one step), and the service each is launched for.            *)
Launches == <<{"version check"}, {"heartbeat", "codes", "retention", "notices"},
              {"http"}, {"broadcast"}>>
Job == UNION {Launches[i] : i \in DOMAIN Launches}
JobFor(j) == CASE j = "heartbeat" -> "reputation"
               [] j = "codes"     -> "user auth"
               [] j = "notices"   -> "notification"
               [] j = "broadcast" -> "signaling"
               [] OTHER           -> j

MainStage == {"load", "migrate", "wire", "version check", "routes", "launch",
              "up", "cancel", "stop", "wait", "close", "exited", "aborted"}
JobStage == {"off", "wait", "work", "events", "invocations", "reports", "listen",
             "send", "over"}

LifeInit ==
  /\ wanted = {}
  /\ main = "load"
  /\ ready = {} /\ routed = {}
  /\ jobs = [j \in Job |-> "off"] /\ launched = 0
  /\ ctxDone = FALSE /\ srvClosed = FALSE /\ sweeping = FALSE
  /\ errCh = 0
  /\ opened = {}

MainGoto(from, to) == main = from /\ main' = to
JobGoto(j, from, to) == jobs[j] = from /\ jobs' = [jobs EXCEPT ![j] = to]

-----------------------------------------------------------------------------
(* Start-up: the configuration is read; then telemetry and the database.    *)
OpenStore ==
  /\ MainGoto("load", "migrate")
  /\ wanted' \in SUBSET Optional
  /\ opened' = {"store"}
  /\ UNCHANGED <<stopping, ready, routed, jobs, launched, errCh>>

(* os.Exit(1)                                                               *)
Abort ==
  /\ main \in {"load", "migrate", "wire"}
  /\ main' = "aborted"
  /\ UNCHANGED <<configured, stopping, jobs, launched, errCh, opened>>

(* Each service migrates its tables and is made; user authentication and    *)
(* notifications only if they are turned on.                                *)
InitServices ==
  /\ MainGoto("migrate", "wire")
  /\ ready' = WithTables \ (Optional \ wanted)
  /\ UNCHANGED <<stopping, wanted, routed, jobs, launched, errCh, opened>>

(* Registry, routing table, bridges, hub, federation and limiters; a DNS    *)
(* discovery that fails is logged.                                          *)
Wire ==
  /\ MainGoto("wire", "version check")
  /\ ready' = ready \cup (wanted \cap {"signaling", "retention", "version check"})
  /\ opened' = opened \cup {"bridges"}
  /\ UNCHANGED <<stopping, wanted, routed, jobs, launched, errCh>>

(* What a goroutine does first: the version is fetched, and the retention   *)
(* pass made, before the first tick; the server listens; the others wait.   *)
FirstStage(j) == CASE j \in {"version check", "http"} -> "work"
                   [] j = "retention"                 -> "events"
                   [] OTHER                           -> "wait"

Launch ==
  /\ launched' = launched + 1
  /\ jobs' = [j \in Job |->
       IF j \in Launches[launched + 1] /\ (j = "http" \/ JobFor(j) \in ready)
       THEN FirstStage(j) ELSE jobs[j]]

(* SetVersionCheck and its goroutine come before the routes.                *)
LaunchVersionCheck ==
  /\ MainGoto("version check", "routes")
  /\ Launch
  /\ UNCHANGED <<configured, stopping, errCh, opened>>

(* The services whose routes are registered only if they are set.           *)
Gated == {"signaling", "claim token", "contacts", "contact request", "notification"}

(* RegisterRoutes; the clean-ups of the bridges are started.                *)
RegisterRoutes ==
  /\ MainGoto("routes", "launch")
  /\ routed' = ready \cap Gated
  /\ sweeping' = TRUE
  /\ UNCHANGED <<wanted, ready, jobs, launched, ctxDone, srvClosed, errCh,
                 opened>>

LaunchNext ==
  /\ main = "launch"
  /\ Launch
  /\ main' = IF launched + 1 = Len(Launches) THEN "up" ELSE main
  /\ UNCHANGED <<configured, stopping, errCh, opened>>

-----------------------------------------------------------------------------
(* The background goroutines.  A select with a tick and a cancelled context *)
(* takes either.                                                            *)
Ticks == {"version check", "heartbeat", "codes", "notices", "broadcast"}

JobTicks(j) ==
  /\ \/ j \in Ticks /\ JobGoto(j, "wait", "work")
     \/ j = "retention" /\ JobGoto(j, "wait", "events")
  /\ UNCHANGED <<configured, stopping, main, launched, errCh, opened>>

Quit(j) ==
  /\ ctxDone
  /\ JobGoto(j, "wait", "over")
  /\ UNCHANGED <<configured, stopping, main, launched, errCh, opened>>

(* The work ends, well or in an error that is logged: the fetch, the check  *)
(* of the heartbeats, the statement.  The broadcast is made once.           *)
WorkEnds(j) ==
  /\ j \in Ticks
  /\ JobGoto(j, "work", IF j = "broadcast" THEN "over" ELSE "wait")
  /\ UNCHANGED <<configured, stopping, main, launched, errCh, opened>>

(* retention.Service.RunOnce: one table after the other; the first failure  *)
(* ends the pass.                                                           *)
Prune ==
  /\ \/ JobGoto("retention", "events", "invocations")
     \/ JobGoto("retention", "invocations", "reports")
     \/ jobs["retention"] \in {"events", "invocations", "reports"}
          /\ jobs' = [jobs EXCEPT !["retention"] = "wait"]
  /\ UNCHANGED <<configured, stopping, main, launched, errCh, opened>>

(* HTTPServer.Start: ListenAndServe refuses at once when the server was     *)
(* closed before, fails when the address is taken, and returns when the     *)
(* server is closed or the listener fails.                                  *)
Listen ==
  /\ ~srvClosed
  /\ JobGoto("http", "work", "listen")
  /\ UNCHANGED <<configured, stopping, main, launched, errCh, opened>>

ListenEnds ==
  /\ jobs["http"] \in {"work", "listen"}
  /\ jobs' = [jobs EXCEPT !["http"] = "send"]
  /\ UNCHANGED <<configured, stopping, main, launched, errCh, opened>>

(* Variant: errCh has no buffer, the send waits for main's select.          *)
ErrChUnbuffered == main = "up"

(* make(chan error, 1)                                                      *)
ErrChHasRoom == errCh < 1

SendError ==
  /\ ErrChHasRoom
  /\ JobGoto("http", "send", "over")
  /\ errCh' = errCh + 1
  /\ UNCHANGED <<configured, stopping, main, launched, opened>>

-----------------------------------------------------------------------------
(* Shutdown: a signal, or an error of the server.                           *)
Signal ==
  /\ MainGoto("up", "cancel")
  /\ UNCHANGED <<configured, stopping, jobs, launched, errCh, opened>>

ServerError ==
  /\ errCh > 0
  /\ MainGoto("up", "cancel")
  /\ errCh' = errCh - 1
  /\ UNCHANGED <<configured, stopping, jobs, launched, opened>>

Cancel ==
  /\ MainGoto("cancel", "stop")
  /\ ctxDone' = TRUE
  /\ UNCHANGED <<configured, jobs, launched, srvClosed, sweeping, errCh, opened>>

(* HTTPServer.Stop                                                          *)
Stop ==
  /\ MainGoto("stop", "wait")
  /\ srvClosed' = TRUE
  /\ sweeping' = FALSE
  /\ UNCHANGED <<configured, jobs, launched, ctxDone, errCh, opened>>

(* wg.Wait; the bridges, then, deferred, the store.                         *)
CloseBridges ==
  /\ \A j \in Job : jobs[j] \in {"off", "over"}
  /\ MainGoto("wait", "close")
  /\ opened' = opened \ {"bridges"}
  /\ UNCHANGED <<configured, stopping, jobs, launched, errCh>>

CloseStore ==
  /\ MainGoto("close", "exited")
  /\ opened' = opened \ {"store"}
  /\ UNCHANGED <<configured, stopping, jobs, launched, errCh>>

-----------------------------------------------------------------------------
StartUp == \/ OpenStore \/ Abort \/ InitServices \/ Wire
           \/ LaunchVersionCheck \/ RegisterRoutes \/ LaunchNext
Background == \/ \E j \in Job : JobTicks(j) \/ Quit(j) \/ WorkEnds(j)
              \/ Prune \/ Listen \/ ListenEnds \/ SendError
ShutDown == Signal \/ ServerError \/ Cancel \/ Stop \/ CloseBridges \/ CloseStore

LifeNext == UNCHANGED faults /\ (StartUp \/ Background \/ ShutDown)

LifeSpec == LifeInit /\ faults = 0 /\ [][LifeNext]_<<lifeVars, faults>>

-----------------------------------------------------------------------------
(* Types.                                                                   *)
LifeTypeOK ==
  /\ wanted \subseteq Optional
  /\ main \in MainStage
  /\ routed \subseteq ready /\ ready \subseteq WithTables \cup Optional
  /\ jobs \in [Job -> JobStage]
  /\ launched \in 0..4
  /\ ctxDone \in BOOLEAN /\ srvClosed \in BOOLEAN /\ sweeping \in BOOLEAN
  /\ errCh \in 0..1
  /\ opened \subseteq {"store", "bridges"}

(* The optional routes of a server that is up are those of the configured   *)
(* services (main.go:488, "after all services are configured").             *)
RoutesFollowServices ==
  main = "up" => routed = Gated \ (Optional \ wanted)

(* A goroutine of the wait group finds the store and the bridges open as    *)
(* long as it lives, also the one that starts or fails while main shuts     *)
(* down.                                                                    *)
OpenWhileUsed ==
  \A j \in Job : jobs[j] \notin {"off", "over"} => opened = {"store", "bridges"}

(* os.Exit ends no goroutine in the middle of its work.                     *)
AbortsAlone == main = "aborted" => \A j \in Job : jobs[j] = "off"

(* While main waits for the goroutines nobody receives from errCh: none of  *)
(* them may be left that needs main to go on.                               *)
WaitCanEnd ==
  main = "wait" =>
    /\ ctxDone /\ srvClosed
    /\ jobs["http"] = "send" => ErrChHasRoom

(* The process starts and stops in order, whichever goroutine fails or is   *)
(* late and whatever ends main's wait (main.go:488-490, 622-681).           *)
LifecycleInOrder ==
  RoutesFollowServices /\ OpenWhileUsed /\ AbortsAlone /\ WaitCanEnd

=============================================================================
