---------------------------- MODULE ContactRequests ----------------------------
(***************************************************************************)
(* Contacts, and the requests that make them: an agent asks another to be  *)
(* in contact, the other or its provider approves or rejects               *)
(* (internal/contactreq, internal/contacts, internal/server:               *)
(* contactreq_handler.go, contacts_handler.go).                            *)
(***************************************************************************)
EXTENDS Platform

CONSTANTS
  Party,   \* agents
  Request  \* ids of contact requests

ASSUME NoneIsNoRequest == None \notin Party \cup Request

VARIABLES
  requests,  \* table agent_contact_requests: the row of an id, or None
  contacts,  \* table agent_contacts: <<owner, contact>> -> the row's expiry
  decider,   \* what a goroutine is at
  dropped    \* history: contacts that were removed, or not added by a fault

reqVars == <<requests, contacts, decider, dropped, faults>>

Pairs == {p \in Party \X Party : p[1] # p[2]}

(* The UNIQUE constraint allows one row per pair.                          *)
RequestRow == [pair : Pairs, status : {"pending", "approved", "rejected"}]

(* expires_at: NULL, a date to come, a date that is past.                  *)
Expiry == {"none", "never", "dated", "expired"}

Deciding == [at : {"idle", "create", "decide", "toFrom", "fromTo"},
             request : Request \cup {None}, pair : Pairs \cup {None},
             status : {"pending", "approved", "rejected"}]

NoDecision == [at |-> "idle", request |-> None, pair |-> None,
               status |-> "pending"]

ReqTypeOK ==
  /\ requests \in [Request -> RequestRow \cup {None}]
  /\ contacts \in [Pairs -> Expiry]
  /\ decider \in [Handler -> Deciding]
  /\ dropped \in SUBSET Pairs
  /\ faults \in 0..MaxFaults
  /\ \A q, r \in Request :
       requests[q] # None /\ requests[r] # None
       /\ requests[q].pair = requests[r].pair => q = r

ReqInit ==
  /\ requests = [r \in Request |-> None]
  /\ contacts = [p \in Pairs |-> "none"]
  /\ decider = [h \in Handler |-> NoDecision]
  /\ dropped = {}
  /\ faults = 0

-----------------------------------------------------------------------------
Flip(p) == <<p[2], p[1]>>

DeciderAt(h, stage) == decider[h].at = stage

(* uuid.New: an id no request has.                                         *)
Fresh(r) ==
  /\ requests[r] = None
  /\ \A h \in Handler : decider[h].request # r

(* Service.Submit, up to the check of the row there is.                    *)
Submittable(p) ==
  \A r \in Request :
    requests[r] # None /\ requests[r].pair = p => requests[r].status = "rejected"

SubmitBy(h, r, p) ==
  /\ decider[h] = NoDecision
  /\ Fresh(r)
  /\ decider' = [decider EXCEPT ![h] =
                   [at |-> "create", request |-> r, pair |-> p,
                    status |-> "pending"]]

SubmitCheck(h, r, p) ==
  /\ Submittable(p)
  /\ SubmitBy(h, r, p)
  /\ UNCHANGED <<requests, contacts, dropped, faults>>

(* The error of GetByAgents is ignored: as if there were no row.           *)
SubmitCheckFails(h, r, p) ==
  /\ SubmitBy(h, r, p)
  /\ Fault
  /\ UNCHANGED <<requests, contacts, dropped>>

(* SQLiteStore.Create: INSERT OR REPLACE; a row of the pair goes.          *)
Create(r, p) ==
  requests' = [q \in Request |->
                 IF q = r THEN [pair |-> p, status |-> "pending"]
                 ELSE IF requests[q] # None /\ requests[q].pair = p THEN None
                 ELSE requests[q]]

SubmitCreate(h) ==
  /\ DeciderAt(h, "create")
  /\ Create(decider[h].request, decider[h].pair)
  /\ decider' = [decider EXCEPT ![h] = NoDecision]
  /\ UNCHANGED <<contacts, dropped, faults>>

-----------------------------------------------------------------------------
(* req.Status != "pending" is refused.                                     *)
Decidable(r) == requests[r].status = "pending"

(* Service.Approve and Service.Reject, called by the agent's handler and   *)
(* the provider's: the request is read and checked.                        *)
Decide(h, r, status) ==
  /\ decider[h] = NoDecision
  /\ requests[r] # None
  /\ Decidable(r)
  /\ decider' = [decider EXCEPT ![h] =
                   [at |-> "decide", request |-> r, pair |-> requests[r].pair,
                    status |-> status]]
  /\ UNCHANGED <<requests, contacts, dropped, faults>>

(* SQLiteStore.UpdateStatus, by id: no row is no error.                    *)
UpdateRequest(r, status) ==
  requests' = IF requests[r] = None THEN requests
              ELSE [requests EXCEPT ![r].status = status]

DecideWrite(h) ==
  /\ DeciderAt(h, "decide")
  /\ LET d == decider[h]
     IN  /\ UpdateRequest(d.request, d.status)
         /\ decider' = [decider EXCEPT ![h] =
              IF d.status = "approved" THEN [d EXCEPT !.at = "toFrom"]
              ELSE NoDecision]
  /\ UNCHANGED <<contacts, dropped, faults>>

(* Service.Add: a second row of the pair is refused, expired or not.       *)
Add(p, expiry) ==
  /\ contacts' = IF contacts[p] = "none" THEN [contacts EXCEPT ![p] = expiry]
                 ELSE contacts
  /\ dropped' = dropped \ {p}

(* Variant: the other direction is left out.                               *)
AddOneWay(h) ==
  /\ DeciderAt(h, "toFrom")
  /\ Add(Flip(decider[h].pair), "never")
  /\ decider' = [decider EXCEPT ![h] = NoDecision]
  /\ UNCHANGED <<requests, faults>>

(* The contacts of an approved request, one way and then the other.        *)
AddToFrom(h) ==
  /\ DeciderAt(h, "toFrom")
  /\ Add(Flip(decider[h].pair), "never")
  /\ decider' = [decider EXCEPT ![h].at = "fromTo"]
  /\ UNCHANGED <<requests, faults>>

AddFromTo(h) ==
  /\ DeciderAt(h, "fromTo")
  /\ Add(decider[h].pair, "never")
  /\ decider' = [decider EXCEPT ![h] = NoDecision]
  /\ UNCHANGED <<requests, faults>>

(* A contact that cannot be added is logged, and the handler goes on.      *)
AddFails(h) ==
  /\ Fault
  /\ \/ /\ DeciderAt(h, "toFrom")
        /\ decider' = [decider EXCEPT ![h].at = "fromTo"]
        /\ dropped' = dropped \cup {Flip(decider[h].pair)}
     \/ /\ DeciderAt(h, "fromTo")
        /\ decider' = [decider EXCEPT ![h] = NoDecision]
        /\ dropped' = dropped \cup {decider[h].pair}
  /\ UNCHANGED <<requests, contacts>>

-----------------------------------------------------------------------------
(* handleAgentAddContact and handleProviderAddContact.                     *)
AddContact(p, expiry) ==
  /\ contacts[p] = "none"
  /\ Add(p, expiry)
  /\ UNCHANGED <<requests, decider, faults>>

(* handleAgentRemoveContact and handleProviderRemoveContact.               *)
RemoveContact(p) ==
  /\ contacts[p] # "none"
  /\ contacts' = [contacts EXCEPT ![p] = "none"]
  /\ dropped' = dropped \cup {p}
  /\ UNCHANGED <<requests, decider, faults>>

(* The date of a contact passes.                                           *)
ContactExpires(p) ==
  /\ contacts[p] = "dated"
  /\ contacts' = [contacts EXCEPT ![p] = "expired"]
  /\ UNCHANGED <<requests, decider, dropped, faults>>

ReqCrash ==
  /\ Fault
  /\ decider' = [h \in Handler |-> NoDecision]
  /\ dropped' = dropped \cup
       {p \in Pairs : \E h \in Handler :
          \/ DeciderAt(h, "toFrom") /\ decider[h].pair \in {p, Flip(p)}
          \/ DeciderAt(h, "fromTo") /\ decider[h].pair = p}
  /\ UNCHANGED <<requests, contacts>>

(* Service.IsAllowed: what the hub and the invocation of agents ask.       *)
InContact(from, to) == contacts[<<to, from>>] \in {"never", "dated"}

-----------------------------------------------------------------------------
handleAgentSendContactRequest(h) ==
  \/ \E r \in Request, p \in Pairs : SubmitCheck(h, r, p) \/ SubmitCheckFails(h, r, p)
  \/ SubmitCreate(h)

handleProviderUpdateContactRequest(h) ==
  \/ \E r \in Request, s \in {"approved", "rejected"} : Decide(h, r, s)
  \/ DecideWrite(h) \/ AddToFrom(h) \/ AddFromTo(h) \/ AddFails(h)

ReqNext ==
  \/ \E h \in Handler :
       handleAgentSendContactRequest(h) \/ handleProviderUpdateContactRequest(h)
  \/ \E p \in Pairs :
       \/ \E e \in {"never", "dated", "expired"} : AddContact(p, e)
       \/ RemoveContact(p) \/ ContactExpires(p)
  \/ ReqCrash

ReqSpec == ReqInit /\ [][ReqNext]_reqVars

-----------------------------------------------------------------------------
(* An approved request has its two contacts: through decisions at the same *)
(* time, requests that replace it and contacts that were there before;     *)
(* unless one was removed since, a fault lost it, or a handler is still    *)
(* adding them (Service.Approve).                                          *)
ApprovedConnects ==
  \A r \in Request :
    requests[r] # None /\ requests[r].status = "approved" =>
      \A p \in {requests[r].pair, Flip(requests[r].pair)} :
        \/ contacts[p] # "none"
        \/ p \in dropped
        \/ \E h \in Handler : decider[h].pair = requests[r].pair
                              /\ decider[h].at \in {"toFrom", "fromTo"}

=============================================================================
