------------------------------- MODULE Invocation -------------------------------
(***************************************************************************)
(* Who may invoke an agent, and what an invocation leaves behind: the      *)
(* access requests of users (internal/useracl, internal/server:            *)
(* useracl_handler.go), the gate, the delivery and the records of          *)
(* handleInvoke (invoke_handler.go, internal/invocation).                  *)
(*                                                                         *)
(* The agent itself, its flag and its contacts are changed by others       *)
(* (AgentRegistry, ContactRequests); here they change at any time.  A      *)
(* client may leave at any time, which cancels the context of its request: *)
(* the statements that follow fail.                                        *)
(***************************************************************************)
EXTENDS Platform

CONSTANTS
  Peer,  \* agents that invoke the others
  Grant, \* ids of access requests
  Call   \* invocations, each a goroutine

ASSUME CallersApart == Peer \cap (User \cup {None}) = {}

VARIABLES
  acl,       \* table agent_user_acl: the row of an id, or None
  present,   \* agents with a row
  open,      \* agents with playground_enabled
  listed,    \* contacts <<agent, caller>> that are not expired
  asking,    \* goroutines that submit a request: the pair and the id, or None
  call,      \* what an invocation is at
  invoked,   \* table invocations: <<call, outcome>>
  counted,   \* reputation events of invocations: <<call, outcome>>
  entitled   \* history: invocations whose caller had access since they began

invVars == <<acl, present, open, listed, asking, call, invoked, counted,
             entitled, faults>>

Caller == Peer \cup User

GrantRow == [agent : Agent, user : User,
             status : {"pending", "approved", "rejected"},
             expires : {"never", "dated", "expired"}]

CallRow == [at : {"new", "acl", "lookup", "limit", "send", "stream", "record",
                  "count", "end"},
            caller : Caller \cup {None}, agent : Agent \cup {None},
            outcome : {"none", "ok", "error"}, left : BOOLEAN]

InvTypeOK ==
  /\ acl \in [Grant -> GrantRow \cup {None}]
  /\ present \in SUBSET Agent
  /\ open \in SUBSET Agent
  /\ listed \in SUBSET (Agent \X Peer)
  /\ asking \in [Handler -> [agent : Agent, user : User, grant : Grant] \cup {None}]
  /\ call \in [Call -> CallRow]
  /\ invoked \in SUBSET (Call \X {"ok", "error"})
  /\ counted \in SUBSET (Call \X {"ok", "error"})
  /\ entitled \in SUBSET Call
  /\ faults \in 0..MaxFaults
  /\ \A f, g \in Grant :
       acl[f] # None /\ acl[g] # None
       /\ acl[f].agent = acl[g].agent /\ acl[f].user = acl[g].user => f = g

NewCall == [at |-> "new", caller |-> None, agent |-> None, outcome |-> "none",
            left |-> FALSE]

InvInit ==
  /\ acl = [g \in Grant |-> None]
  /\ present = Agent
  /\ open = {}
  /\ listed = {}
  /\ asking = [h \in Handler |-> None]
  /\ call = [c \in Call |-> NewCall]
  /\ invoked = {}
  /\ counted = {}
  /\ entitled = {}
  /\ faults = 0

aclVars  == <<acl, asking>>
callVars == <<call, invoked, counted>>
worldVars == <<present, open, listed>>

-----------------------------------------------------------------------------
(* Access requests.                                                        *)
Of(g, a, u) == acl[g] # None /\ acl[g].agent = a /\ acl[g].user = u

(* Service.SubmitRequest, its check of the row there is.                   *)
Askable(a, u) == \A g \in Grant : Of(g, a, u) => acl[g].status = "rejected"

Ask(h, a, u, g) ==
  /\ asking[h] = None
  /\ acl[g] = None
  /\ \A i \in Handler : asking[i] # None => asking[i].grant # g
  /\ asking' = [asking EXCEPT ![h] = [agent |-> a, user |-> u, grant |-> g]]

AskCheck(h, a, u, g) ==
  /\ Askable(a, u)
  /\ Ask(h, a, u, g)
  /\ UNCHANGED <<acl, worldVars, callVars, faults>>

(* The error of GetByAgentAndUser is ignored: as if there were no row.     *)
AskCheckFails(h, a, u, g) ==
  /\ Ask(h, a, u, g)
  /\ Fault
  /\ UNCHANGED <<acl, worldVars, callVars>>

(* SQLiteStore.Create: INSERT OR REPLACE; a row of the pair goes.          *)
GrantCreate(ask) ==
  acl' = [g \in Grant |->
            IF g = ask.grant
            THEN [agent |-> ask.agent, user |-> ask.user, status |-> "pending",
                  expires |-> "never"]
            ELSE IF Of(g, ask.agent, ask.user) THEN None ELSE acl[g]]

AskCreate(h) ==
  /\ asking[h] # None
  /\ GrantCreate(asking[h])
  /\ asking' = [asking EXCEPT ![h] = None]
  /\ UNCHANGED <<worldVars, callVars, faults>>

(* SQLiteStore.UpdateStatus, by id and whatever the status was.            *)
UpdateGrant(g, status, expires) ==
  /\ acl[g] # None
  /\ acl' = [acl EXCEPT ![g].status = status, ![g].expires = expires]

(* Service.Approve                                                         *)
ApproveGrant(g, expires) ==
  /\ UpdateGrant(g, "approved", expires)
  /\ UNCHANGED <<asking, worldVars, callVars, faults>>

(* Service.Reject                                                          *)
RejectGrant(g) ==
  /\ UpdateGrant(g, "rejected", "never")
  /\ UNCHANGED <<asking, worldVars, callVars, faults>>

(* Service.Revoke                                                          *)
RevokeGrant(g) ==
  /\ acl[g] # None
  /\ acl' = [acl EXCEPT ![g] = None]
  /\ UNCHANGED <<asking, worldVars, callVars, faults>>

(* The date of a grant passes.                                             *)
GrantExpires(g) ==
  /\ acl[g] # None
  /\ acl[g].expires = "dated"
  /\ acl' = [acl EXCEPT ![g].expires = "expired"]
  /\ UNCHANGED <<asking, worldVars, callVars, faults>>

-----------------------------------------------------------------------------
(* Variant: a grant that expired still counts.                             *)
AllowedForGood(a, u) == \E g \in Grant : Of(g, a, u) /\ acl[g].status = "approved"

(* SQLiteStore.IsAllowed                                                   *)
Allowed(a, u) ==
  \E g \in Grant : Of(g, a, u) /\ acl[g].status = "approved"
                   /\ acl[g].expires # "expired"

(* Who may invoke an agent at this moment, in the provider's terms.        *)
Access(a, c) ==
  \/ <<a, c>> \in listed
  \/ c \in User /\ a \in open
  \/ \E g \in Grant : Of(g, a, c) /\ acl[g].status = "approved"
                      /\ acl[g].expires \in {"never", "dated"}

CallAt(c, stage) == call[c].at = stage
CallGoto(c, stage) == call' = [call EXCEPT ![c].at = stage]

Unrecorded == UNCHANGED <<invoked, counted, aclVars, worldVars, faults>>

(* HTTPServer.handleInvoke: the first check, of an agent's contact or of   *)
(* the agent's playground flag.                                            *)
InvokeByAgent(c, a, b) ==
  /\ CallAt(c, "new")
  /\ call' = [call EXCEPT ![c] =
       [@ EXCEPT !.at = IF <<a, b>> \in listed THEN "lookup" ELSE "end",
                 !.caller = b, !.agent = a]]
  /\ Unrecorded

InvokeByUser(c, a, u) ==
  /\ CallAt(c, "new")
  /\ call' = [call EXCEPT ![c] =
       [@ EXCEPT !.at = IF a \notin present THEN "end"
                        ELSE IF a \in open THEN "lookup" ELSE "acl",
                 !.caller = u, !.agent = a]]
  /\ Unrecorded

CheckAcl(c) ==
  /\ CallAt(c, "acl")
  /\ CallGoto(c, IF Allowed(call[c].agent, call[c].caller) /\ ~call[c].left
                 THEN "lookup" ELSE "end")
  /\ Unrecorded

LookUp(c) ==
  /\ CallAt(c, "lookup")
  /\ CallGoto(c, IF call[c].agent \notin present \/ call[c].left THEN "end"
                 ELSE IF call[c].caller \in User THEN "limit" ELSE "send")
  /\ Unrecorded

(* The limiter of the user lets the invocation pass, or not.               *)
Limit(c, pass) ==
  /\ CallAt(c, "limit")
  /\ CallGoto(c, IF pass THEN "send" ELSE "end")
  /\ Unrecorded

(* bridges.Send returns, or bridges.SendStream.                            *)
Send(c, outcome) ==
  /\ CallAt(c, "send")
  /\ call' = [call EXCEPT ![c].at = "record", ![c].outcome = outcome]
  /\ Unrecorded

OpenStream(c) ==
  /\ CallAt(c, "send")
  /\ CallGoto(c, "stream")
  /\ Unrecorded

(* HTTPServer.handleInvokeSSE: the chunks come to an end, by the last one, *)
(* a closed channel or an error.                                           *)
EndStream(c, outcome) ==
  /\ CallAt(c, "stream")
  /\ call' = [call EXCEPT ![c].at = "record", ![c].outcome = outcome]
  /\ Unrecorded

(* invocation.Service.Record: a failed one is logged and forgotten.        *)
Record(c) ==
  /\ CallAt(c, "record")
  /\ CallGoto(c, "count")
  /\ invoked' = IF call[c].left THEN invoked
                ELSE invoked \cup {<<c, call[c].outcome>>}
  /\ UNCHANGED <<counted, aclVars, worldVars, faults>>

(* RecordEvent with "bridge_success" or "bridge_error".                    *)
Count(c) ==
  /\ CallAt(c, "count")
  /\ CallGoto(c, "end")
  /\ counted' = IF call[c].left THEN counted
                ELSE counted \cup {<<c, call[c].outcome>>}
  /\ UNCHANGED <<invoked, aclVars, worldVars, faults>>

(* The client closes the connection.                                       *)
Leave(c) ==
  /\ call[c].at \notin {"new", "end"}
  /\ ~call[c].left
  /\ call' = [call EXCEPT ![c].left = TRUE]
  /\ Unrecorded

-----------------------------------------------------------------------------
(* What other handlers change meanwhile.                                   *)
World ==
  /\ \/ \E a \in Agent :
          \/ open' = (open \cup {a}) \ (open \cap {a}) /\ UNCHANGED <<present, listed>>
          \/ present' = present \ {a} /\ UNCHANGED <<open, listed>>
     \/ \E a \in Agent, b \in Peer :
          /\ listed' = (listed \cup {<<a, b>>}) \ (listed \cap {<<a, b>>})
          /\ UNCHANGED <<present, open>>
  /\ UNCHANGED <<aclVars, callVars, faults>>

handleSubmitAccessRequest(h) ==
  \/ \E a \in Agent, u \in User, g \in Grant :
       AskCheck(h, a, u, g) \/ AskCheckFails(h, a, u, g)
  \/ AskCreate(h)

handleProviderUpdateAccessRequest(g) ==
  (\E e \in {"never", "dated", "expired"} : ApproveGrant(g, e)) \/ RejectGrant(g)

Conclude(c) == Record(c) \/ Count(c)

handleInvokeSSE(c) ==
  OpenStream(c) \/ (\E o \in {"ok", "error"} : EndStream(c, o)) \/ Conclude(c)

handleInvoke(c) ==
  \/ \E a \in Agent, b \in Peer : InvokeByAgent(c, a, b)
  \/ \E a \in Agent, u \in User : InvokeByUser(c, a, u)
  \/ CheckAcl(c) \/ LookUp(c)
  \/ \E pass \in BOOLEAN : Limit(c, pass)
  \/ \E o \in {"ok", "error"} : Send(c, o)
  \/ Conclude(c)

InvStep ==
  \/ \E h \in Handler : handleSubmitAccessRequest(h)
  \/ \E g \in Grant :
       handleProviderUpdateAccessRequest(g) \/ RevokeGrant(g) \/ GrantExpires(g)
  \/ \E c \in Call : handleInvoke(c) \/ handleInvokeSSE(c) \/ Leave(c)
  \/ World

(* History: a call is entitled once its caller has access, at any moment   *)
(* from its first step on.                                                 *)
Observe ==
  entitled' = {c \in Call :
    \/ c \in entitled
    \/ \E a \in Agent, b \in Caller :
         /\ call'[c].agent = a
         /\ call'[c].caller = b
         /\ call'[c].at # "end"
         /\ Access(a, b)'}

InvNext == InvStep /\ Observe

InvSpec == InvInit /\ [][InvNext]_invVars

-----------------------------------------------------------------------------
(* An invocation that reaches the bridge is one of a caller that had       *)
(* access at a moment between its arrival and its delivery, through        *)
(* whatever approvals, revocations, expiries and flag changes went on      *)
(* beside the checks; and what was delivered is recorded and counted, once *)
(* and with its outcome, when the client stays, while what was refused     *)
(* leaves nothing (handleInvoke, handleInvokeSSE).                         *)
InvokedWithAccess ==
  \A c \in Call :
    /\ call[c].at \in {"send", "stream", "record", "count"} => c \in entitled
    /\ call[c].at = "end" /\ ~call[c].left =>
         \A log \in {invoked, counted} :
           {o \in {"ok", "error"} : <<c, o>> \in log} = {call[c].outcome} \ {"none"}
    /\ call[c].outcome = "none" =>
         \A o \in {"ok", "error"} : <<c, o>> \notin invoked \cup counted

=============================================================================
