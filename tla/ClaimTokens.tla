------------------------------ MODULE ClaimTokens ------------------------------
(***************************************************************************)
(* Claim tokens: a user generates a code, an agent registers with it and   *)
(* belongs to the user (internal/claimtoken, internal/server/              *)
(* claim_handler.go).                                                      *)
(*                                                                         *)
(* What becomes of an agent later is AgentRegistry's subject; here it only *)
(* keeps the owner and the token it was registered with.  Each agent id is *)
(* drawn by at most one registration, each code by at most one request.    *)
(***************************************************************************)
EXTENDS Platform

CONSTANTS
  Newcomer,   \* ids of agents that register with a token
  Token,      \* token codes
  MaxPending  \* maxPendingTokens

ASSUME NoneIsNoToken == None \notin Token \cup Newcomer
ASSUME PendingBound == MaxPending \in Nat \ {0}

VARIABLES
  tokens,      \* table claim_tokens: the row of a code, or None
  claimed,     \* table agents: the owner and the token an agent registered
               \* with, or None
  whitelist,   \* table contacts: the pairs the handler added
  claimer,     \* what a goroutine is at
  unmarked     \* history: agents whose token a fault kept from being marked

claimVars == <<tokens, claimed, whitelist, claimer, unmarked, faults>>

TokenRow == [user : User, status : {"pending", "claimed"}, expired : BOOLEAN,
             agent : Newcomer \cup {None}]

Claim == [at : {"idle", "create", "validated", "mark", "whitelist"},
          user : User \cup {None}, token : Token \cup {None},
          agent : Newcomer \cup {None}]

ASSUME NoneIsNoClaimRow == None \notin TokenRow \cup [owner : User, token : Token]

NoClaim == [at |-> "idle", user |-> None, token |-> None, agent |-> None]

ClaimTypeOK ==
  /\ tokens \in [Token -> TokenRow \cup {None}]
  /\ claimed \in [Newcomer -> [owner : User, token : Token] \cup {None}]
  /\ whitelist \in SUBSET (Newcomer \X Newcomer)
  /\ claimer \in [Handler -> Claim]
  /\ unmarked \in SUBSET Newcomer
  /\ faults \in 0..MaxFaults

ClaimInit ==
  /\ tokens = [t \in Token |-> None]
  /\ claimed = [a \in Newcomer |-> None]
  /\ whitelist = {}
  /\ claimer = [c \in Handler |-> NoClaim]
  /\ unmarked = {}
  /\ faults = 0

-----------------------------------------------------------------------------
ClaimAt(c, stage) == claimer[c].at = stage

ClaimGoto(c, stage) == claimer' = [claimer EXCEPT ![c].at = stage]

(* Service.Generate counts the tokens of the user that can still be        *)
(* claimed.                                                                *)
Pending(u) == {t \in Token : /\ tokens[t] # None
                             /\ tokens[t].user = u
                             /\ tokens[t].status = "pending"
                             /\ ~tokens[t].expired}

(* Variant: one more is allowed.                                           *)
PendingBelowOrAt(u) == Cardinality(Pending(u)) <= MaxPending

PendingBelow(u) == Cardinality(Pending(u)) < MaxPending

(* HTTPServer.handleGenerateClaimToken, up to the count.                   *)
GenerateCheck(c, u, t) ==
  /\ claimer[c] = NoClaim
  /\ tokens[t] = None
  /\ \A d \in Handler : claimer[d].token # t
  /\ PendingBelow(u)
  /\ claimer' = [claimer EXCEPT ![c] =
                   [at |-> "create", user |-> u, token |-> t, agent |-> None]]
  /\ UNCHANGED <<tokens, claimed, whitelist, unmarked, faults>>

(* Service.Generate, from Store.Create on.                                 *)
GenerateCreate(c) ==
  /\ ClaimAt(c, "create")
  /\ claimer' = [claimer EXCEPT ![c] = NoClaim]
  /\ tokens' = [tokens EXCEPT ![claimer[c].token] =
                  [user |-> claimer[c].user, status |-> "pending",
                   expired |-> FALSE, agent |-> None]]
  /\ UNCHANGED <<claimed, whitelist, unmarked, faults>>

(* codeTTL passes; what becomes of a claimed token then is of no account.  *)
Expire(t) ==
  /\ tokens[t] # None
  /\ tokens[t].status = "pending"
  /\ ~tokens[t].expired
  /\ tokens' = [tokens EXCEPT ![t].expired = TRUE]
  /\ UNCHANGED <<claimed, whitelist, claimer, unmarked, faults>>

-----------------------------------------------------------------------------
(* Service.Validate                                                        *)
Validate(t) ==
  /\ tokens[t] # None
  /\ tokens[t].status = "pending"
  /\ ~tokens[t].expired

(* HTTPServer.handleClaimAgent, up to the check of the signature.          *)
ClaimValidate(c, t) ==
  /\ claimer[c] = NoClaim
  /\ Validate(t)
  /\ claimer' = [claimer EXCEPT ![c] = [at |-> "validated", token |-> t,
                   user |-> tokens[t].user, agent |-> None]]
  /\ UNCHANGED <<tokens, claimed, whitelist, unmarked, faults>>

(* The agent is registered for the user of the token.                      *)
ClaimRegister(c, a) ==
  /\ ClaimAt(c, "validated")
  /\ claimed[a] = None
  /\ claimed' = [claimed EXCEPT ![a] =
                   [owner |-> claimer[c].user, token |-> claimer[c].token]]
  /\ claimer' = [claimer EXCEPT ![c].at = "mark", ![c].agent = a]
  /\ UNCHANGED <<tokens, whitelist, unmarked, faults>>

(* Variant: the UPDATE asks for a token that is not expired.               *)
MarkUnexpired(t, a) ==
  tokens' = IF tokens[t].status = "pending" /\ ~tokens[t].expired
            THEN [tokens EXCEPT ![t].status = "claimed", ![t].agent = a]
            ELSE tokens

(* SQLiteStore.MarkClaimed; when it finds no pending token the error is    *)
(* only logged.                                                            *)
MarkClaimed(t, a) ==
  tokens' = IF tokens[t].status = "pending"
            THEN [tokens EXCEPT ![t].status = "claimed", ![t].agent = a]
            ELSE tokens

ClaimMark(c) ==
  /\ ClaimAt(c, "mark")
  /\ MarkClaimed(claimer[c].token, claimer[c].agent)
  /\ ClaimGoto(c, "whitelist")
  /\ UNCHANGED <<claimed, whitelist, unmarked, faults>>

ClaimMarkFails(c) ==
  /\ ClaimAt(c, "mark")
  /\ ClaimGoto(c, "whitelist")
  /\ unmarked' = unmarked \cup {claimer[c].agent}
  /\ Fault
  /\ UNCHANGED <<tokens, claimed, whitelist>>

(* SQLiteStore.Put does not write the column owner_user_id, which stays at *)
(* its default.                                                            *)
OwnerColumn(a) == None

(* SQLiteStore.List with an owner in the filter compares the column.       *)
OwnedBy(u) == {a \in Newcomer : claimed[a] # None /\ OwnerColumn(a) = u}

(* The auto-whitelist: contacts both ways with the agents of the owner;    *)
(* the routing table and the reputation follow.                            *)
ClaimWhitelist(c) ==
  /\ ClaimAt(c, "whitelist")
  /\ LET a        == claimer[c].agent
         siblings == OwnedBy(claimer[c].user) \ {a}
     IN  whitelist' = whitelist \cup ({a} \X siblings) \cup (siblings \X {a})
  /\ claimer' = [claimer EXCEPT ![c] = NoClaim]
  /\ UNCHANGED <<tokens, claimed, unmarked, faults>>

ClaimCrash ==
  /\ Fault
  /\ claimer' = [c \in Handler |-> NoClaim]
  /\ unmarked' = unmarked \cup
       {a \in Newcomer : \E c \in Handler : ClaimAt(c, "mark") /\ claimer[c].agent = a}
  /\ UNCHANGED <<tokens, claimed, whitelist>>

-----------------------------------------------------------------------------
handleGenerateClaimToken(c) ==
  (\E u \in User, t \in Token : GenerateCheck(c, u, t)) \/ GenerateCreate(c)

handleClaimAgent(c) ==
  \/ \E t \in Token : ClaimValidate(c, t)
  \/ \E a \in Newcomer : ClaimRegister(c, a)
  \/ ClaimMark(c) \/ ClaimMarkFails(c) \/ ClaimWhitelist(c)

ClaimNext ==
  \/ \E c \in Handler : handleGenerateClaimToken(c) \/ handleClaimAgent(c)
  \/ \E t \in Token : Expire(t)
  \/ ClaimCrash

ClaimSpec == ClaimInit /\ [][ClaimNext]_claimVars

-----------------------------------------------------------------------------
(* An agent registered with a token leaves the token claimed, unless its   *)
(* handler is still on the way or a fault kept it from marking it; and a   *)
(* claimed token names an agent that was registered with it, for the user  *)
(* who generated it (handleClaimAgent, MarkClaimed).                       *)
TokenSpent ==
  /\ \A a \in Newcomer :
       claimed[a] # None /\ a \notin unmarked
       => \/ tokens[claimed[a].token].status = "claimed"
          \/ \E c \in Handler : ClaimAt(c, "mark") /\ claimer[c].agent = a
  /\ \A t \in Token :
       tokens[t] # None /\ tokens[t].status = "claimed"
       => claimed[tokens[t].agent] = [owner |-> tokens[t].user, token |-> t]

(* A user's tokens that can still be claimed exceed the limit by no more   *)
(* than the requests that were counting at the same time: with the one in  *)
(* the making they are at most one per other goroutine above it            *)
(* (Service.Generate).                                                     *)
PendingBounded ==
  \A u \in User :
    Cardinality(Pending(u))
      + Cardinality({c \in Handler : ClaimAt(c, "create") /\ claimer[c].user = u})
    <= MaxPending + Cardinality(Handler) - 1

=============================================================================
