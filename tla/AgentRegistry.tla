----------------------------- MODULE AgentRegistry -----------------------------
(***************************************************************************)
(* How an agent comes to be, changes and goes: the registry and its store  *)
(* (internal/registry), the routing table (internal/router), the handlers  *)
(* that write both (internal/server: http.go, provider_handler.go,         *)
(* admin_agent_handler.go) and the heartbeat checker (cmd/peerclawd).      *)
(*                                                                         *)
(* The routing table is a store of its own, in memory, beside the rows.    *)
(***************************************************************************)
EXTENDS Platform

CONSTANT Protocol \* protocols an agent may speak

VARIABLES
  rows,       \* table agents: the row of an agent, or None
  routes,     \* the protocols an agent has an entry for in the routing table
  handler,    \* what a goroutine is at
  todo,       \* the checker's staleAgents it has not come to yet
  registered, \* history: the agents that were registered
  registrant, \* history: the user an agent was registered for
  overlap,    \* history: agents deleted while another handler wrote them
  restarted   \* history: agents registered before a restart

vars == <<rows, routes, handler, todo, registered, registrant,
          overlap, restarted, faults>>
history == <<registered, registrant, overlap, restarted>>

(* What SQLiteStore.Get returns of a row: the owner in the metadata, the   *)
(* protocols, and status with last_heartbeat ("stale": online, but the     *)
(* last heartbeat is more than 5 minutes old; "away": any status but       *)
(* online).                                                                *)
Protocols == (SUBSET Protocol) \ {{}}
Card == [owner : User \cup {None}, speaks : Protocols,
         state : {"online", "stale", "away"}]

(* A row has access flags and a column for the owner besides, which a Card *)
(* does not carry.                                                         *)
Row == [owner : User \cup {None}, speaks : Protocols,
        state : {"online", "stale", "away"}, private : BOOLEAN,
        ownerColumn : User \cup {None}]

ASSUME NoneIsNoRow == None \notin Row

(* What a request says of the visibility: nothing of the access flags, one *)
(* of its values, or only another flag; and what a handler writes then     *)
(* that found the agent public, or could not read its flags.               *)
Flag == {"keep", "private", "public", "other", "default"}

Task == [at : {"idle", "route", "read flags", "flags", "put", "delete",
               "unroute", "merge", "write"},
         agent : Agent \cup {None},  \* the agent it works on
         owner : User \cup {None},   \* the owner in the metadata it writes
         card  : Card \cup {None},   \* the card it read
         flag  : Flag]

Idle == [at |-> "idle", agent |-> None, owner |-> None, card |-> None,
         flag |-> "keep"]

TypeOK ==
  /\ rows \in [Agent -> Row \cup {None}]
  /\ routes \in [Agent -> SUBSET Protocol]
  /\ handler \in [Handler -> Task]
  /\ todo \in SUBSET Agent
  /\ registered \in SUBSET Agent
  /\ registrant \in [Agent -> User \cup {None}]
  /\ overlap \in SUBSET Agent
  /\ restarted \in SUBSET Agent
  /\ faults \in 0..MaxFaults

Init ==
  /\ rows = [a \in Agent |-> None]
  /\ routes = [a \in Agent |-> {}]
  /\ handler = [h \in Handler |-> Idle]
  /\ todo = {}
  /\ registered = {}
  /\ registrant = [a \in Agent |-> None]
  /\ overlap = {}
  /\ restarted = {}
  /\ faults = 0

-----------------------------------------------------------------------------
(* What the goroutines do next.                                            *)
Start(h, task) ==
  /\ handler[h] = Idle
  /\ handler' = [handler EXCEPT ![h] = task]

Goto(h, stage) == handler' = [handler EXCEPT ![h].at = stage]
Done(h)        == handler' = [handler EXCEPT ![h] = Idle]

At(h, stage) == handler[h].at = stage

Writing(a) == \E h \in Handler :
                handler[h].agent = a /\ handler[h].at \in {"route", "put"}

-----------------------------------------------------------------------------
(* The store of agents.                                                    *)

(* Variant: the row is replaced, columns the statement does not name       *)
(* included.                                                               *)
PutReplace(a, card) ==
  rows' = [rows EXCEPT ![a] =
             [owner |-> card.owner, speaks |-> card.speaks, state |-> card.state,
              private |-> FALSE, ownerColumn |-> None]]

(* SQLiteStore.Put: an upsert that leaves the columns it does not name as  *)
(* they are, or at their defaults in a new row.                            *)
Put(a, card) ==
  rows' = [rows EXCEPT ![a] =
             [owner |-> card.owner, speaks |-> card.speaks, state |-> card.state,
              private |-> rows[a] # None /\ rows[a].private,
              ownerColumn |-> IF rows[a] = None THEN None ELSE rows[a].ownerColumn]]

(* Variant: the access flags come with the card.                           *)
GetWithFlags(a) == rows[a]

(* SQLiteStore.Get                                                         *)
Get(a) == [owner |-> rows[a].owner, speaks |-> rows[a].speaks,
           state |-> rows[a].state]

(* SQLiteStore.Delete                                                      *)
Delete(a) == rows' = [rows EXCEPT ![a] = None]

(* An UPDATE by id changes nothing when there is no such row.              *)
UpdateRow(a, new) ==
  rows' = IF rows[a] = None THEN rows ELSE [rows EXCEPT ![a] = new]

(* Variant: a heartbeat restores a row that is gone.                       *)
UpdateHeartbeatUpsert(a, s) ==
  rows' = [rows EXCEPT ![a] =
             IF rows[a] # None THEN [rows[a] EXCEPT !.state = s]
             ELSE [owner |-> registrant[a], speaks |-> Protocol, state |-> s,
                   private |-> FALSE, ownerColumn |-> None]]

(* SQLiteStore.UpdateHeartbeat: the status and last_heartbeat.             *)
UpdateHeartbeat(a, s) == UpdateRow(a, [rows[a] EXCEPT !.state = s])

(* SQLiteStore.UpdateStatus                                                *)
UpdateStatus(a, s) == UpdateRow(a, [rows[a] EXCEPT !.state = s])

(* SQLiteStore.UpdateMetadata, its UPDATE.                                 *)
UpdateMetadata(a, merged) == UpdateRow(a, [rows[a] EXCEPT !.owner = merged])

(* SQLiteStore.SetAccessFlags                                              *)
SetAccessFlags(a, flag) ==
  UpdateRow(a, [rows[a] EXCEPT !.private = flag = "private"])

(* Variant: private agents are left out, as in the directory.              *)
StalePublicAgents ==
  {a \in Agent : rows[a] # None /\ rows[a].state = "stale" /\ ~rows[a].private}

(* SQLiteStore.ListStaleOnlineAgents                                       *)
StaleOnlineAgents == {a \in Agent : rows[a] # None /\ rows[a].state = "stale"}

(* A filter and the rows that pass it: what is asked of the visibility and *)
(* of the owner, whom both look for in the column.                         *)
NoFilter == [public |-> FALSE, orOwner |-> None, owner |-> None]

Visible(a, filter) ==
  IF filter.orOwner # None
  THEN ~rows[a].private \/ rows[a].ownerColumn = filter.orOwner
  ELSE filter.public => ~rows[a].private

(* SQLiteStore.List                                                        *)
ListSQLite(filter) ==
  {a \in Agent : /\ rows[a] # None
                 /\ Visible(a, filter)
                 /\ filter.owner # None => rows[a].ownerColumn = filter.owner}

(* PostgresStore.List, which has no condition on the owner.                *)
ListPostgres(filter) == {a \in Agent : rows[a] # None /\ Visible(a, filter)}

Driver == {"sqlite", "postgres"}
List(driver, filter) ==
  IF driver = "postgres" THEN ListPostgres(filter) ELSE ListSQLite(filter)

(* HTTPServer.handleDirectory, handleConsoleDirectory and                  *)
(* handleProviderListAgents, without further conditions.                   *)
Directory(d)             == List(d, [NoFilter EXCEPT !.public = TRUE])
ConsoleDirectory(d, u)   == List(d, [NoFilter EXCEPT !.orOwner = u])
ProviderListAgents(d, u) == List(d, [NoFilter EXCEPT !.owner = u])

(* HTTPServer.handlePublicProfile: the agents it shows, if it can read     *)
(* their flags.                                                            *)
PublicProfile(a) == rows[a] # None /\ ~rows[a].private

(* HTTPServer.handleProviderGetAgent: the owner in the metadata decides.   *)
ProviderGetAgent(u, a) == rows[a] # None /\ rows[a].owner = u

(* SQLiteStore.FindByCapabilities                                          *)
FindByCapabilities(ps) ==
  {a \in Agent : rows[a] # None /\ ps \subseteq rows[a].speaks /\ rows[a].state # "away"}

(* HTTPServer.handleDiscover, for any protocol.                            *)
Discover == FindByCapabilities({})

(* Engine.Resolve: the agents it has a route to, by any protocol and by one *)
(* protocol.                                                               *)
GetRoutes(a) == routes[a]
Resolve(a) == GetRoutes(a) # {}
ResolveBy(a, p) == p \in GetRoutes(a)

-----------------------------------------------------------------------------
(* Service.Register: the row of a new agent.  The owner of the request     *)
(* overrides one in the metadata.                                          *)
NewCard(m, u, ps) == [owner |-> IF u # None THEN u ELSE m, speaks |-> ps,
                      state |-> "online"]

Register(a, m, u, ps) ==
  /\ a \notin registered
  /\ registered' = registered \cup {a}
  /\ registrant' = [registrant EXCEPT ![a] = u]
  /\ Put(a, NewCard(m, u, ps))

(* Variant: the reserved key is kept.                                      *)
KeepOwner(m) == m

(* delete(metadata, "owner_user_id")                                       *)
StripOwner(m) == None

(* HTTPServer.handleRegister                                               *)
RegisterOpen(h, a, m, ps) ==
  /\ Start(h, [Idle EXCEPT !.at = "route", !.agent = a,
                           !.card = NewCard(StripOwner(m), None, ps),
                           !.flag = "keep"])
  /\ Register(a, StripOwner(m), None, ps)
  /\ UNCHANGED <<routes, todo, overlap, restarted, faults>>

(* HTTPServer.handleProviderRegisterAgent; handleClaimAgent registers for  *)
(* the user of a claim token likewise.                                     *)
RegisterProvider(h, a, u, m, ps, flag) ==
  /\ Start(h, [Idle EXCEPT !.at = "route", !.agent = a,
                           !.card = NewCard(m, u, ps), !.flag = flag])
  /\ Register(a, m, u, ps)
  /\ UNCHANGED <<routes, todo, overlap, restarted, faults>>

(* Variant: the entries are replaced.                                      *)
SetRoutes(a, ps) == routes' = [routes EXCEPT ![a] = ps]

(* Engine.UpdateFromCard: an entry per protocol is added or updated, none  *)
(* is removed.                                                             *)
AddRoutes(a, ps) == routes' = [routes EXCEPT ![a] = @ \cup ps]

(* What follows the entries: a provider's access flags.  A registration    *)
(* writes them; an update that does not name the visibility reads it       *)
(* first, to write it back.                                                *)
AfterRoute(h) ==
  CASE handler[h].flag = "keep"  -> Idle
    [] handler[h].flag = "other" -> [handler[h] EXCEPT !.at = "read flags", !.card = None]
    [] OTHER                     -> [handler[h] EXCEPT !.at = "flags", !.card = None]

(* The handlers that register and update.                                  *)
Route(h) ==
  /\ At(h, "route")
  /\ AddRoutes(handler[h].agent, handler[h].card.speaks)
  /\ handler' = [handler EXCEPT ![h] = AfterRoute(h)]
  /\ UNCHANGED <<rows, todo, history, faults>>

(* SQLiteStore.GetAccessFlags; the default of an update when there is      *)
(* nothing to read.                                                        *)
GetAccessFlags(a) ==
  IF rows[a] # None /\ rows[a].private THEN "private" ELSE "default"

ReadFlags(h) ==
  /\ At(h, "read flags")
  /\ handler' = [handler EXCEPT ![h].at = "flags",
                                ![h].flag = GetAccessFlags(handler[h].agent)]
  /\ UNCHANGED <<rows, routes, todo, history, faults>>

(* The error of GetAccessFlags is ignored.                                 *)
ReadFlagsFails(h) ==
  /\ At(h, "read flags")
  /\ handler' = [handler EXCEPT ![h].at = "flags", ![h].flag = "default"]
  /\ Fault
  /\ UNCHANGED <<rows, routes, todo, history>>

SetFlags(h) ==
  /\ At(h, "flags")
  /\ Done(h)
  /\ SetAccessFlags(handler[h].agent, handler[h].flag)
  /\ UNCHANGED <<routes, todo, history, faults>>

(* The error of SetAccessFlags is only logged.                             *)
SetFlagsFails(h) ==
  /\ At(h, "flags")
  /\ Done(h)
  /\ Fault
  /\ UNCHANGED <<rows, routes, todo, history>>

-----------------------------------------------------------------------------
(* HTTPServer.handleProviderUpdateAgent: the card is read and the owner    *)
(* compared; then the body is, and the whole card is written back, with    *)
(* new protocols if the body names some.                                   *)
UpdateRead(h, u, a) ==
  /\ rows[a] # None
  /\ rows[a].owner = u
  /\ Start(h, [Idle EXCEPT !.at = "put", !.agent = a, !.card = Get(a)])
  /\ UNCHANGED <<rows, routes, todo, history, faults>>

UpdatePut(h, ps, flag) ==
  /\ At(h, "put")
  /\ LET card == IF ps = {} THEN handler[h].card
                 ELSE [handler[h].card EXCEPT !.speaks = ps]
     IN  /\ Put(handler[h].agent, card)
         /\ handler' = [handler EXCEPT ![h] =
                          [@ EXCEPT !.at = "route", !.card = card, !.flag = flag]]
  /\ UNCHANGED <<routes, todo, history, faults>>

(* HTTPServer.handleProviderDeleteAgent, up to the check of the owner.     *)
DeleteOwned(h, u, a) ==
  /\ rows[a] # None
  /\ rows[a].owner = u
  /\ Start(h, [Idle EXCEPT !.at = "delete", !.agent = a])
  /\ UNCHANGED <<rows, routes, todo, history, faults>>

(* Service.Deregister in a handler; the agent itself and an administrator  *)
(* get there without reading the row.                                      *)
Deregister(a, from) ==
  /\ IF rows[a] = None
     THEN /\ handler' = [handler EXCEPT ![from] = Idle]
          /\ UNCHANGED overlap
     ELSE /\ handler' = [handler EXCEPT ![from] =
                           [Idle EXCEPT !.at = "unroute", !.agent = a]]
          /\ overlap' = IF Writing(a) THEN overlap \cup {a} ELSE overlap
  /\ Delete(a)
  /\ UNCHANGED <<routes, todo, registered, registrant, restarted, faults>>

DeleteRow(h) == At(h, "delete") /\ Deregister(handler[h].agent, h)

DeleteAny(h, a) == handler[h] = Idle /\ rows[a] # None /\ Deregister(a, h)

(* Variant: the routes stay.                                               *)
KeepRoutes(h) ==
  /\ At(h, "unroute")
  /\ Done(h)
  /\ UNCHANGED <<rows, routes, todo, history, faults>>

(* Engine.RemoveAgent                                                      *)
Unroute(h) ==
  /\ At(h, "unroute")
  /\ Done(h)
  /\ routes' = [routes EXCEPT ![handler[h].agent] = {}]
  /\ UNCHANGED <<rows, todo, history, faults>>

-----------------------------------------------------------------------------
(* HTTPServer.handleHeartbeat: the status, then, if the row is there and   *)
(* the request has metadata, a merge that reads and writes.                *)
Heartbeat(h, a, s) ==
  /\ a \in registered
  /\ handler[h] = Idle
  /\ UpdateHeartbeat(a, s)
  /\ UNCHANGED <<routes, handler, todo, history, faults>>

HeartbeatMerge(h, a, s, m) ==
  /\ rows[a] # None
  /\ Start(h, [Idle EXCEPT !.at = "merge", !.agent = a, !.owner = StripOwner(m)])
  /\ UpdateHeartbeat(a, s)
  /\ UNCHANGED <<routes, todo, history, faults>>

(* The keys of the request replace those of the metadata that was read.    *)
Merge(read, m) == IF m # None THEN m ELSE read.owner

MergeRead(h) ==
  /\ At(h, "merge")
  /\ LET read == rows[handler[h].agent]
     IN  IF read = None
         THEN Done(h)
         ELSE handler' = [handler EXCEPT ![h].at = "write",
                                         ![h].owner = Merge(read, @)]
  /\ UNCHANGED <<rows, routes, todo, history, faults>>

MergeWrite(h) ==
  /\ At(h, "write")
  /\ Done(h)
  /\ UpdateMetadata(handler[h].agent, handler[h].owner)
  /\ UNCHANGED <<routes, todo, history, faults>>

-----------------------------------------------------------------------------
(* Five minutes pass without a heartbeat.                                  *)
Silence(a) ==
  /\ rows[a] # None
  /\ rows[a].state = "online"
  /\ rows' = [rows EXCEPT ![a].state = "stale"]
  /\ UNCHANGED <<routes, handler, todo, history, faults>>

(* The heartbeat checker: a query, then one agent after the other.         *)
CheckerTick ==
  /\ todo = {}
  /\ todo' = StaleOnlineAgents
  /\ UNCHANGED <<rows, routes, handler, history, faults>>

CheckerStep(a) ==
  /\ a \in todo
  /\ UpdateStatus(a, "away")
  /\ todo' = todo \ {a}
  /\ UNCHANGED <<routes, handler, history, faults>>

(* The error of SetStatus is ignored.                                      *)
CheckerStepFails(a) ==
  /\ a \in todo
  /\ todo' = todo \ {a}
  /\ Fault
  /\ UNCHANGED <<rows, routes, handler, history>>

(* The process ends and is started again: what it held in memory is gone,  *)
(* the routing table included, which nothing fills from the store.         *)
Crash ==
  /\ Fault
  /\ handler' = [h \in Handler |-> Idle]
  /\ routes' = [a \in Agent |-> {}]
  /\ todo' = {}
  /\ restarted' = registered
  /\ UNCHANGED <<rows, registered, registrant, overlap>>

-----------------------------------------------------------------------------
handleRegister(h) ==
  \/ \E a \in Agent, m \in User \cup {None}, ps \in Protocols : RegisterOpen(h, a, m, ps)
  \/ Route(h)

handleProviderRegisterAgent(h) ==
  \/ \E a \in Agent, u \in User, m \in User \cup {None}, ps \in Protocols,
        f \in {"keep", "private", "public"} : RegisterProvider(h, a, u, m, ps, f)
  \/ Route(h) \/ SetFlags(h) \/ SetFlagsFails(h)

handleProviderUpdateAgent(h) ==
  \/ \E a \in Agent, u \in User : UpdateRead(h, u, a)
  \/ \E ps \in SUBSET Protocol, f \in Flag \ {"default"} : UpdatePut(h, ps, f)
  \/ Route(h) \/ ReadFlags(h) \/ ReadFlagsFails(h) \/ SetFlags(h) \/ SetFlagsFails(h)

handleProviderDeleteAgent(h) ==
  \/ \E a \in Agent, u \in User : DeleteOwned(h, u, a)
  \/ DeleteRow(h) \/ Unroute(h)

handleDeregister(h) == (\E a \in Agent : DeleteAny(h, a)) \/ Unroute(h)

handleHeartbeat(h) ==
  \/ \E a \in Agent, s \in {"online", "away"} :
       Heartbeat(h, a, s) \/ \E m \in User \cup {None} : HeartbeatMerge(h, a, s, m)
  \/ MergeRead(h) \/ MergeWrite(h)

Serve(h) ==
  \/ handleRegister(h) \/ handleProviderRegisterAgent(h)
  \/ handleProviderUpdateAgent(h) \/ handleProviderDeleteAgent(h)
  \/ handleDeregister(h) \/ handleHeartbeat(h)

Check == CheckerTick \/ \E a \in Agent : CheckerStep(a) \/ CheckerStepFails(a)

Next ==
  \/ \E h \in Handler : Serve(h)
  \/ Check
  \/ \E a \in Agent : Silence(a)
  \/ Crash

(* The checker's goroutine runs as long as the server does; a client need  *)
(* not call, and a request need not end.                                   *)
Fairness ==
  /\ WF_vars(CheckerTick)
  /\ \A a \in Agent : WF_vars(CheckerStep(a))

Spec == Init /\ [][Next]_vars /\ Fairness

-----------------------------------------------------------------------------
(* The owner an agent was registered with is its owner for good: through   *)
(* metadata of clients that names another, rows written back late and      *)
(* merges of metadata read before (handleRegister, handleHeartbeat,        *)
(* handleProviderUpdateAgent).                                             *)
OwnerIsFixed ==
  \A a \in Agent : rows[a] # None => rows[a].owner = registrant[a]

(* A deleted agent comes back only through an update that read it before:  *)
(* heartbeats, the checker, merges and flag changes write no row.          *)
DeletedStaysDeleted ==
  [][\A a \in Agent :
       /\ a \in registered
       /\ rows[a] = None
       /\ ~\E h \in Handler : At(h, "put") /\ handler[h].agent = a
       => rows'[a] = None]_rows

(* When nobody works on an agent and no request that deleted it overlapped *)
(* one that wrote it, the routing table resolves it only if the registry   *)
(* has a row (handleDeregister, handleProviderDeleteAgent).                *)
RoutedIsRegistered ==
  \A a \in Agent : Resolve(a) => \/ rows[a] # None
                                \/ a \in overlap
                                \/ \E h \in Handler : handler[h].agent = a

(* An agent resolves by every protocol it speaks, also after updates that  *)
(* ran at the same time; the server restarting, and a deletion at the same *)
(* time, are what can take a route away (Engine.UpdateFromCard).           *)
SpokenIsRouted ==
  \A a \in Agent : \/ rows[a] = None
                   \/ \A p \in rows[a].speaks : ResolveBy(a, p)
                   \/ a \in overlap \cup restarted
                   \/ \E h \in Handler : handler[h].agent = a /\ At(h, "route")

Shown == {a \in Agent : PublicProfile(a)} \cup UNION {Directory(d) : d \in Driver}

(* The directory and the profiles come to show a registered agent only     *)
(* through a request that asks for it, or through one that asks neither    *)
(* way and read the flag while the agent was public or could not read it:  *)
(* not through updates of the card, heartbeats and merges that write their *)
(* columns late (Put, SetAccessFlags).                                     *)
PrivateUntilChanged ==
  [][\A a \in Shown' \ Shown :
       rows[a] # None => \E h \in Handler : /\ At(h, "flags")
                                           /\ handler[h].agent = a
                                           /\ handler[h].flag \in {"public", "default"}]_rows

(* A silent agent is not discovered for good: the checker is not stopped   *)
(* by agents that are gone, by failed statements or by a restart.          *)
SilentGoesAway ==
  \A a \in Agent : (rows[a] # None /\ rows[a].state = "stale")
                  ~> (a \notin Discover \/ rows[a].state = "online")

(* README.md:282, "List my agents", and provider_handler.go:541, "Unlike   *)
(* the public directory, this includes the user's own private agents.":    *)
(* with either store, an agent that its owner gets by id is in his list,   *)
(* which has no others, and in his directory.                              *)
OwnersListTheirs ==
  \A u \in User, d \in Driver :
    LET own == {a \in Agent : ProviderGetAgent(u, a)}
    IN  ProviderListAgents(d, u) = own /\ own \subseteq ConsoleDirectory(d, u)

=============================================================================
