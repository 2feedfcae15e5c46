------------------------------ MODULE AccessProofs ------------------------------
(***************************************************************************)
(* Proofs about who is let in: the claiming of agents, the approval of     *)
(* contacts, the access of users to agents, their accounts, the codes sent *)
(* to them and their refresh tokens.  One part for each module, with its   *)
(* inductive invariant first; the parts share no variable but the count of *)
(* faults, and only the counting lemma is used by two of them.             *)
(***************************************************************************)
EXTENDS ClaimTokens, ContactRequests, Invocation, Accounts, EmailCodes, Sessions,
        FiniteSetTheorems, TLAPS

(* Counting the members of a set with one more, or one less.               *)
LEMMA Counting ==
  ASSUME NEW S, IsFiniteSet(S), NEW x, NEW T
  PROVE  /\ Cardinality(S) \in Nat
         /\ T \subseteq S \cup {x} =>
              /\ IsFiniteSet(T) /\ Cardinality(T) \in Nat
              /\ Cardinality(T) <= Cardinality(S) + 1
         /\ x \in S /\ T \subseteq S \ {x} => Cardinality(T) <= Cardinality(S) - 1
         /\ T \subseteq S => /\ IsFiniteSet(T) /\ Cardinality(T) \in Nat
                             /\ Cardinality(T) <= Cardinality(S)
<1>1. Cardinality(S) \in Nat
  BY FS_CardinalityType
<1>2. ASSUME T \subseteq S \cup {x}
      PROVE  /\ IsFiniteSet(T) /\ Cardinality(T) \in Nat
             /\ Cardinality(T) <= Cardinality(S) + 1
  <2>1. /\ IsFiniteSet(S \cup {x})
        /\ Cardinality(S \cup {x}) <= Cardinality(S) + 1
    BY <1>1, FS_AddElement
  <2>2. IsFiniteSet(T) /\ Cardinality(T) <= Cardinality(S \cup {x})
    BY <1>2, <2>1, FS_Subset
  <2>3. Cardinality(T) \in Nat /\ Cardinality(S \cup {x}) \in Nat
    BY <2>1, <2>2, FS_CardinalityType
  <2>. QED
    BY <1>1, <2>1, <2>2, <2>3
<1>3. ASSUME x \in S, T \subseteq S \ {x}
      PROVE  Cardinality(T) <= Cardinality(S) - 1
  <2>1. IsFiniteSet(S \ {x}) /\ Cardinality(S \ {x}) = Cardinality(S) - 1
    BY <1>3, FS_RemoveElement
  <2>. QED
    BY <1>3, <2>1, FS_Subset
<1>4. ASSUME T \subseteq S
      PROVE  /\ IsFiniteSet(T) /\ Cardinality(T) \in Nat
             /\ Cardinality(T) <= Cardinality(S)
  BY <1>4, FS_Subset, FS_CardinalityType
<1>. QED
  BY <1>1, <1>2, <1>3, <1>4

-----------------------------------------------------------------------------
(* Claim tokens and the claiming of agents (internal/claimtoken).          *)
-----------------------------------------------------------------------------
(* A code in the making is nobody else's; a claim that was validated names *)
(* a token of its user, and has registered its agent with it when it goes  *)
(* on to mark it.                                                          *)
ClaimerInv ==
  \A c \in Handler :
    /\ claimer[c].at = "create" =>
         /\ claimer[c].token \in Token /\ claimer[c].user \in User
         /\ tokens[claimer[c].token] = None
         /\ \A d \in Handler \ {c} : claimer[d].token # claimer[c].token
    /\ claimer[c].at \in {"validated", "mark"} =>
         /\ claimer[c].token \in Token /\ claimer[c].user \in User
         /\ tokens[claimer[c].token] # None
         /\ tokens[claimer[c].token].user = claimer[c].user
    /\ claimer[c].at = "mark" =>
         /\ claimer[c].agent \in Newcomer
         /\ claimed[claimer[c].agent] =
              [owner |-> claimer[c].user, token |-> claimer[c].token]
    /\ claimer[c].at = "whitelist" => claimer[c].agent \in Newcomer

(* Agents are registered with tokens that exist, tokens are claimed for    *)
(* agents.                                                                 *)
ClaimedInv ==
  /\ \A a \in Newcomer : claimed[a] # None => tokens[claimed[a].token] # None
  /\ \A t \in Token : tokens[t] # None /\ tokens[t].status = "claimed"
                      => tokens[t].agent \in Newcomer

ClaimIInv == ClaimTypeOK /\ ClaimerInv /\ ClaimedInv /\ TokenSpent

LEMMA ClaimStart == ClaimInit => ClaimIInv
  BY NoneIsNoToken, FaultBound
  DEF ClaimInit, ClaimIInv, ClaimTypeOK, ClaimerInv, ClaimedInv, TokenSpent, NoClaim,
      Claim

LEMMA ClaimStep == ClaimIInv /\ [ClaimNext]_claimVars => ClaimIInv'
<1>. SUFFICES ASSUME ClaimIInv, [ClaimNext]_claimVars PROVE ClaimIInv'
  OBVIOUS
<1>. USE NoneIsNoToken, NoneIsNoClaimRow, FaultBound
     DEF Claim, NoClaim, ClaimAt, ClaimGoto, Fault
<1>0. ClaimTypeOK /\ ClaimerInv /\ ClaimedInv /\ TokenSpent
  BY DEF ClaimIInv
<1>1. ASSUME NEW c \in Handler, NEW u \in User, NEW t \in Token, GenerateCheck(c, u, t)
      PROVE  ClaimIInv'
  <2>1. /\ claimer[c] = NoClaim /\ tokens[t] = None
        /\ \A d \in Handler : claimer[d].token # t
        /\ claimer' = [claimer EXCEPT ![c] = [at |-> "create", user |-> u,
                                              token |-> t, agent |-> None]]
        /\ UNCHANGED <<tokens, claimed, whitelist, unmarked, faults>>
    BY <1>1 DEF GenerateCheck
  <2>2. ClaimTypeOK'
    BY <1>0, <2>1 DEF ClaimTypeOK
  <2>3. ClaimerInv'
    BY <1>0, <2>1 DEF ClaimerInv, ClaimTypeOK
  <2>4. ClaimedInv' /\ TokenSpent'
    BY <1>0, <2>1 DEF ClaimedInv, TokenSpent, ClaimTypeOK
  <2>. QED
    BY <2>2, <2>3, <2>4 DEF ClaimIInv
<1>2. ASSUME NEW c \in Handler, GenerateCreate(c)
      PROVE  ClaimIInv'
  <2>. DEFINE t == claimer[c].token
              u == claimer[c].user
  <2>1. /\ t \in Token /\ u \in User /\ tokens[t] = None /\ claimer[c].at = "create"
        /\ \A d \in Handler \ {c} : claimer[d].token # t
        /\ claimer' = [claimer EXCEPT ![c] = NoClaim]
        /\ tokens' = [tokens EXCEPT ![t] = [user |-> u, status |-> "pending",
                                            expired |-> FALSE, agent |-> None]]
        /\ UNCHANGED <<claimed, whitelist, unmarked, faults>>
    BY <1>0, <1>2 DEF GenerateCreate, ClaimerInv
  <2>. HIDE DEF t, u
  <2>2. /\ tokens'[t] = [user |-> u, status |-> "pending", expired |-> FALSE, agent |-> None]
        /\ \A s \in Token \ {t} : tokens'[s] = tokens[s]
        /\ tokens' \in [Token -> TokenRow \cup {None}]
    BY <1>0, <2>1 DEF ClaimTypeOK, TokenRow
  <2>3. ClaimTypeOK'
    BY <1>0, <2>1, <2>2 DEF ClaimTypeOK
  <2>4. \A d \in Handler \ {c} : claimer'[d] = claimer[d]
    BY <1>0, <2>1 DEF ClaimTypeOK
  <2>5. claimer'[c] = NoClaim
    BY <1>0, <2>1 DEF ClaimTypeOK
  <2>6. ClaimerInv'
    BY <1>0, <2>1, <2>2, <2>4, <2>5 DEF ClaimerInv
  <2>7. ASSUME NEW a \in Newcomer, claimed[a] # None
        PROVE  claimed[a].token \in Token \ {t}
    BY <1>0, <2>1, <2>7 DEF ClaimTypeOK, ClaimedInv
  <2>8. ClaimedInv'
    BY <1>0, <2>1, <2>2, <2>7 DEF ClaimedInv
  <2>9. TokenSpent'
    BY <1>0, <2>1, <2>2, <2>4, <2>5, <2>7 DEF TokenSpent
  <2>. QED
    BY <2>3, <2>6, <2>8, <2>9 DEF ClaimIInv
<1>3. ASSUME NEW t \in Token, Expire(t)
      PROVE  ClaimIInv'
  <2>. DEFINE row == [tokens[t] EXCEPT !.expired = TRUE]
  <2>1. /\ tokens[t] \in TokenRow /\ tokens' = [tokens EXCEPT ![t] = row]
        /\ tokens[t].status = "pending"
        /\ UNCHANGED <<claimed, whitelist, claimer, unmarked, faults>>
    BY <1>0, <1>3 DEF Expire, ClaimTypeOK
  <2>2. row \in TokenRow /\ row.user = tokens[t].user /\ row.status = "pending"
    BY <2>1 DEF TokenRow
  <2>. HIDE DEF row
  <2>3. tokens'[t] = row /\ \A s \in Token \ {t} : tokens'[s] = tokens[s]
    BY <1>0, <2>1 DEF ClaimTypeOK
  <2>4. ClaimTypeOK'
    BY <1>0, <2>1, <2>2 DEF ClaimTypeOK
  <2>5. ClaimerInv'
    BY <1>0, <2>1, <2>2, <2>3 DEF ClaimerInv, ClaimTypeOK
  <2>6. ClaimedInv'
    BY <1>0, <2>1, <2>2, <2>3 DEF ClaimedInv, ClaimTypeOK
  <2>7. TokenSpent'
    BY <1>0, <2>1, <2>2, <2>3 DEF TokenSpent, ClaimTypeOK
  <2>. QED
    BY <2>4, <2>5, <2>6, <2>7 DEF ClaimIInv
<1>4. ASSUME NEW c \in Handler, NEW t \in Token, ClaimValidate(c, t)
      PROVE  ClaimIInv'
  <2>1. /\ claimer[c] = NoClaim /\ tokens[t] # None /\ tokens[t].user \in User
        /\ claimer' = [claimer EXCEPT ![c] = [at |-> "validated", token |-> t,
                         user |-> tokens[t].user, agent |-> None]]
        /\ UNCHANGED <<tokens, claimed, whitelist, unmarked, faults>>
    BY <1>0, <1>4 DEF ClaimValidate, Validate, ClaimTypeOK, TokenRow
  <2>2. ClaimTypeOK'
    BY <1>0, <2>1 DEF ClaimTypeOK
  <2>3. ClaimerInv'
    BY <1>0, <2>1 DEF ClaimerInv, ClaimTypeOK
  <2>4. ClaimedInv' /\ TokenSpent'
    BY <1>0, <2>1 DEF ClaimedInv, TokenSpent, ClaimTypeOK
  <2>. QED
    BY <2>2, <2>3, <2>4 DEF ClaimIInv
<1>5. ASSUME NEW c \in Handler, NEW a \in Newcomer, ClaimRegister(c, a)
      PROVE  ClaimIInv'
  <2>. DEFINE t == claimer[c].token
              u == claimer[c].user
              d == [claimer[c] EXCEPT !.at = "mark", !.agent = a]
  <2>a. /\ claimer[c].at = "validated" /\ claimed[a] = None
        /\ claimed' = [claimed EXCEPT ![a] = [owner |-> u, token |-> t]]
        /\ claimer' = [claimer EXCEPT ![c] = d]
        /\ UNCHANGED <<tokens, whitelist, unmarked, faults>>
    BY <1>5 DEF ClaimRegister
  <2>b. t \in Token /\ u \in User /\ tokens[t] # None /\ tokens[t].user = u
    BY <1>0, <2>a DEF ClaimerInv
  <2>c. claimer[c] \in Claim
    BY <1>0 DEF ClaimTypeOK
  <2>1. /\ t \in Token /\ u \in User /\ tokens[t] # None /\ tokens[t].user = u
        /\ claimed[a] = None
        /\ claimed' = [claimed EXCEPT ![a] = [owner |-> u, token |-> t]]
        /\ claimer' = [claimer EXCEPT ![c] = d]
        /\ UNCHANGED <<tokens, whitelist, unmarked, faults>>
    BY <2>a, <2>b
  <2>2. d \in Claim /\ d.at = "mark" /\ d.agent = a /\ d.token = t /\ d.user = u
    BY <2>b, <2>c
  <2>. HIDE DEF d
  <2>3. /\ claimed'[a] = [owner |-> u, token |-> t]
        /\ \A b \in Newcomer \ {a} : claimed'[b] = claimed[b]
        /\ claimer'[c] = d /\ \A k \in Handler \ {c} : claimer'[k] = claimer[k]
    BY <1>0, <2>1 DEF ClaimTypeOK
  <2>4. ClaimTypeOK'
    BY <1>0, <2>1, <2>2 DEF ClaimTypeOK
  <2>5. \A k \in Handler \ {c} : claimer[k].at = "mark" => claimer[k].agent # a
    <3>1. ASSUME NEW k \in Handler, claimer[k].at = "mark"
          PROVE  claimed[claimer[k].agent] # None
      <4>1. claimer[k].user \in User /\ claimer[k].token \in Token
            /\ claimed[claimer[k].agent] =
                 [owner |-> claimer[k].user, token |-> claimer[k].token]
        BY <1>0, <3>1 DEF ClaimerInv
      <4>. QED
        BY <4>1
    <3>. QED
      BY <2>1, <3>1
  <2>6. ClaimerInv'
    <3>1. ASSUME NEW k \in Handler, claimer'[k].at = "create"
          PROVE  /\ claimer'[k].token \in Token /\ claimer'[k].user \in User
                 /\ tokens[claimer'[k].token] = None
                 /\ \A g \in Handler \ {k} : claimer'[g].token # claimer'[k].token
      <4>1. k # c /\ claimer'[k] = claimer[k]
        BY <2>2, <2>3, <3>1
      <4>2. /\ claimer[k].token \in Token /\ claimer[k].user \in User
            /\ tokens[claimer[k].token] = None
            /\ \A g \in Handler \ {k} : claimer[g].token # claimer[k].token
        BY <1>0, <3>1, <4>1 DEF ClaimerInv
      <4>3. claimer'[c].token = claimer[c].token
        BY <2>2, <2>3
      <4>4. \A g \in Handler : claimer'[g].token = claimer[g].token
        BY <2>3, <4>3
      <4>. QED
        BY <4>1, <4>2, <4>4
    <3>2. ASSUME NEW k \in Handler, claimer'[k].at \in {"validated", "mark"}
          PROVE  /\ claimer'[k].token \in Token /\ claimer'[k].user \in User
                 /\ tokens[claimer'[k].token] # None
                 /\ tokens[claimer'[k].token].user = claimer'[k].user
      <4>1. CASE k = c
        BY <2>1, <2>2, <2>3, <4>1
      <4>2. CASE k # c
        <5>1. claimer'[k] = claimer[k]
          BY <2>3, <4>2
        <5>. QED
          BY <1>0, <3>2, <5>1 DEF ClaimerInv
      <4>. QED
        BY <4>1, <4>2
    <3>3. ASSUME NEW k \in Handler, claimer'[k].at = "mark"
          PROVE  /\ claimer'[k].agent \in Newcomer
                 /\ claimed'[claimer'[k].agent] =
                      [owner |-> claimer'[k].user, token |-> claimer'[k].token]
      BY <1>0, <2>2, <2>3, <2>5, <3>3 DEF ClaimerInv
    <3>4. ASSUME NEW k \in Handler, claimer'[k].at = "whitelist"
          PROVE  claimer'[k].agent \in Newcomer
      <4>1. claimer'[k] = claimer[k]
        BY <2>2, <2>3, <3>4
      <4>. QED
        BY <1>0, <3>4, <4>1 DEF ClaimerInv
    <3>. QED
      BY <2>1, <3>1, <3>2, <3>3, <3>4 DEF ClaimerInv
  <2>7. ClaimedInv'
    BY <1>0, <2>1, <2>3 DEF ClaimedInv
  <2>8. \A s \in Token : tokens[s] # None /\ tokens[s].status = "claimed"
                         => tokens[s].agent \in Newcomer \ {a}
    <3>. SUFFICES ASSUME NEW s \in Token, tokens[s] # None, tokens[s].status = "claimed"
                  PROVE  tokens[s].agent \in Newcomer \ {a}
      OBVIOUS
    <3>1. claimed[tokens[s].agent] = [owner |-> tokens[s].user, token |-> s]
          /\ tokens[s].agent \in Newcomer /\ tokens[s].user \in User
      BY <1>0 DEF TokenSpent, ClaimedInv, ClaimTypeOK, TokenRow
    <3>2. [owner |-> tokens[s].user, token |-> s] # None
      BY <3>1
    <3>. QED
      BY <2>1, <3>1, <3>2
  <2>9. TokenSpent'
    <3>1. ASSUME NEW b \in Newcomer, claimed'[b] # None, b \notin unmarked
          PROVE  \/ tokens[claimed'[b].token].status = "claimed"
                 \/ \E k \in Handler : claimer'[k].at = "mark" /\ claimer'[k].agent = b
      <4>1. CASE b = a
        BY <2>2, <2>3, <4>1
      <4>2. CASE b # a
        <5>1. claimed'[b] = claimed[b]
          BY <2>3, <4>2
        <5>2. \/ tokens[claimed[b].token].status = "claimed"
              \/ \E k \in Handler : claimer[k].at = "mark" /\ claimer[k].agent = b
          BY <1>0, <3>1, <5>1 DEF TokenSpent
        <5>3. \A k \in Handler : claimer[k].at = "mark" => claimer'[k] = claimer[k]
          BY <2>a, <2>3
        <5>. QED
          BY <5>1, <5>2, <5>3
      <4>. QED
        BY <4>1, <4>2
    <3>2. ASSUME NEW s \in Token, tokens[s] # None, tokens[s].status = "claimed"
          PROVE  claimed'[tokens[s].agent] = [owner |-> tokens[s].user, token |-> s]
      BY <1>0, <2>3, <2>8, <3>2 DEF TokenSpent
    <3>. QED
      BY <2>1, <3>1, <3>2 DEF TokenSpent
  <2>. QED
    BY <2>4, <2>6, <2>7, <2>9 DEF ClaimIInv
<1>6. ASSUME NEW c \in Handler, ClaimMark(c)
      PROVE  ClaimIInv'
  <2>. DEFINE t == claimer[c].token
              a == claimer[c].agent
              d == [claimer[c] EXCEPT !.at = "whitelist"]
              row == [tokens[t] EXCEPT !.status = "claimed", !.agent = a]
  <2>a. /\ claimer[c].at = "mark"
        /\ claimer' = [claimer EXCEPT ![c] = d]
        /\ tokens' = IF tokens[t].status = "pending" THEN [tokens EXCEPT ![t] = row]
                     ELSE tokens
        /\ UNCHANGED <<claimed, whitelist, unmarked, faults>>
    BY <1>6 DEF ClaimMark, MarkClaimed
  <2>b. /\ t \in Token /\ a \in Newcomer /\ tokens[t] # None
        /\ claimed[a] = [owner |-> tokens[t].user, token |-> t]
    BY <1>0, <2>a DEF ClaimerInv
  <2>c. tokens[t] \in TokenRow /\ claimer[c] \in Claim
    BY <1>0, <2>b DEF ClaimTypeOK
  <2>1. /\ t \in Token /\ a \in Newcomer /\ tokens[t] \in TokenRow
        /\ claimer[c].at = "mark"
        /\ claimed[a] = [owner |-> tokens[t].user, token |-> t]
        /\ claimer' = [claimer EXCEPT ![c] = d]
        /\ tokens' = IF tokens[t].status = "pending" THEN [tokens EXCEPT ![t] = row]
                     ELSE tokens
        /\ UNCHANGED <<claimed, whitelist, unmarked, faults>>
    BY <2>a, <2>b, <2>c
  <2>2. d \in Claim /\ d.at = "whitelist" /\ d.token = t /\ d.agent = a
    BY <2>c
  <2>3. /\ row \in TokenRow /\ row.status = "claimed" /\ row.agent = a
        /\ row.user = tokens[t].user
    BY <2>1 DEF TokenRow
  <2>. HIDE DEF t, a, d, row
  <2>4. /\ \A s \in Token \ {t} : tokens'[s] = tokens[s]
        /\ tokens'[t] \in TokenRow /\ tokens'[t].status = "claimed"
        /\ tokens'[t].user = tokens[t].user
        /\ tokens'[t] = row \/ tokens'[t] = tokens[t]
        /\ tokens' \in [Token -> TokenRow \cup {None}]
    <3>1. tokens[t].status \in {"pending", "claimed"}
      BY <2>1 DEF TokenRow
    <3>. QED
      BY <1>0, <2>1, <2>3, <3>1 DEF ClaimTypeOK
  <2>5. claimer'[c] = d /\ \A k \in Handler \ {c} : claimer'[k] = claimer[k]
    BY <1>0, <2>1 DEF ClaimTypeOK
  <2>6. ClaimTypeOK'
    BY <1>0, <2>1, <2>2, <2>4 DEF ClaimTypeOK
  <2>7. ClaimerInv'
    <3>1. ASSUME NEW k \in Handler, claimer'[k].at = "create"
          PROVE  /\ claimer'[k].token \in Token /\ claimer'[k].user \in User
                 /\ tokens'[claimer'[k].token] = None
                 /\ \A g \in Handler \ {k} : claimer'[g].token # claimer'[k].token
      <4>1. k # c /\ claimer'[k] = claimer[k]
        BY <2>2, <2>5, <3>1
      <4>2. /\ claimer[k].token \in Token /\ claimer[k].user \in User
            /\ tokens[claimer[k].token] = None
            /\ \A g \in Handler \ {k} : claimer[g].token # claimer[k].token
        BY <1>0, <3>1, <4>1 DEF ClaimerInv
      <4>3. claimer[k].token # t
        BY <4>1, <4>2 DEF t
      <4>. QED
        BY <2>2, <2>4, <2>5, <4>1, <4>2, <4>3
    <3>2. ASSUME NEW k \in Handler, claimer'[k].at \in {"validated", "mark"}
          PROVE  /\ claimer'[k].token \in Token /\ claimer'[k].user \in User
                 /\ tokens'[claimer'[k].token] # None
                 /\ tokens'[claimer'[k].token].user = claimer'[k].user
                 /\ claimer'[k].at = "mark" =>
                      /\ claimer'[k].agent \in Newcomer
                      /\ claimed[claimer'[k].agent] =
                           [owner |-> claimer'[k].user, token |-> claimer'[k].token]
      <4>1. claimer'[k] = claimer[k]
        BY <2>2, <2>5, <3>2
      <4>. QED
        BY <1>0, <2>4, <3>2, <4>1 DEF ClaimerInv
    <3>3. ASSUME NEW k \in Handler, claimer'[k].at = "whitelist"
          PROVE  claimer'[k].agent \in Newcomer
      <4>1. CASE k = c
        BY <2>1, <2>2, <2>5, <4>1
      <4>2. CASE k # c
        BY <1>0, <2>5, <3>3, <4>2 DEF ClaimerInv
      <4>. QED
        BY <4>1, <4>2
    <3>. QED
      BY <2>1, <3>1, <3>2, <3>3 DEF ClaimerInv
  <2>8. ClaimedInv'
    BY <1>0, <2>1, <2>3, <2>4 DEF ClaimedInv, ClaimTypeOK
  <2>9. TokenSpent'
    <3>1. ASSUME NEW b \in Newcomer, claimed[b] # None, b \notin unmarked
          PROVE  \/ tokens'[claimed[b].token].status = "claimed"
                 \/ \E k \in Handler : claimer'[k].at = "mark" /\ claimer'[k].agent = b
      <4>1. claimed[b].token \in Token
        BY <1>0, <3>1 DEF ClaimTypeOK
      <4>2. CASE b = a
        <5>1. claimed[b].token = t
          BY <2>1, <4>2
        <5>. QED
          BY <2>4, <5>1
      <4>3. CASE b # a
        BY <1>0, <2>4, <2>5, <3>1, <4>1, <4>3 DEF TokenSpent, a
      <4>. QED
        BY <4>2, <4>3
    <3>2. ASSUME NEW s \in Token, tokens'[s] # None, tokens'[s].status = "claimed"
          PROVE  claimed[tokens'[s].agent] = [owner |-> tokens'[s].user, token |-> s]
      BY <1>0, <2>1, <2>3, <2>4, <3>2 DEF TokenSpent
    <3>. QED
      BY <2>1, <3>1, <3>2 DEF TokenSpent
  <2>. QED
    BY <2>6, <2>7, <2>8, <2>9 DEF ClaimIInv
<1>7. ASSUME NEW c \in Handler, ClaimMarkFails(c)
      PROVE  ClaimIInv'
  <2>. DEFINE d == [claimer[c] EXCEPT !.at = "whitelist"]
              a == claimer[c].agent
  <2>a. /\ claimer[c].at = "mark" /\ claimer' = [claimer EXCEPT ![c] = d]
        /\ unmarked' = unmarked \cup {a}
        /\ UNCHANGED <<tokens, claimed, whitelist>>
    BY <1>7 DEF ClaimMarkFails
  <2>b. faults' \in 0..MaxFaults
    BY <1>0, <1>7 DEF ClaimMarkFails, ClaimTypeOK
  <2>c. a \in Newcomer
    BY <1>0, <2>a DEF ClaimerInv
  <2>d. claimer[c] \in Claim
    BY <1>0 DEF ClaimTypeOK
  <2>1. /\ claimer[c].at = "mark" /\ a \in Newcomer
        /\ claimer' = [claimer EXCEPT ![c] = d]
        /\ unmarked' = unmarked \cup {a} /\ faults' \in 0..MaxFaults
        /\ UNCHANGED <<tokens, claimed, whitelist>>
    BY <2>a, <2>b, <2>c
  <2>2. d \in Claim /\ d.at = "whitelist" /\ d.token = claimer[c].token /\ d.agent = a
    BY <2>d
  <2>. HIDE DEF d
  <2>3. claimer'[c] = d /\ \A k \in Handler \ {c} : claimer'[k] = claimer[k]
    BY <1>0, <2>1 DEF ClaimTypeOK
  <2>4. ClaimTypeOK'
    BY <1>0, <2>1, <2>2 DEF ClaimTypeOK
  <2>5. ClaimerInv'
    BY <1>0, <2>1, <2>2, <2>3 DEF ClaimerInv
  <2>6. ClaimedInv'
    BY <1>0, <2>1 DEF ClaimedInv
  <2>7. TokenSpent'
    BY <1>0, <2>1, <2>3 DEF TokenSpent
  <2>. QED
    BY <2>4, <2>5, <2>6, <2>7 DEF ClaimIInv
<1>8. ASSUME NEW c \in Handler, ClaimWhitelist(c)
      PROVE  ClaimIInv'
  <2>1. /\ claimer[c].at = "whitelist"
        /\ claimer' = [claimer EXCEPT ![c] = NoClaim]
        /\ UNCHANGED <<tokens, claimed, unmarked, faults>>
    BY <1>8 DEF ClaimWhitelist
  <2>2. whitelist' \in SUBSET (Newcomer \X Newcomer)
    <3>1. OwnedBy(claimer[c].user) \subseteq Newcomer
      BY DEF OwnedBy
    <3>2. claimer[c].agent \in Newcomer
      BY <1>0, <2>1 DEF ClaimerInv
    <3>. QED
      BY <1>0, <1>8, <3>1, <3>2 DEF ClaimWhitelist, ClaimTypeOK
  <2>3. claimer'[c] = NoClaim /\ \A k \in Handler \ {c} : claimer'[k] = claimer[k]
    BY <1>0, <2>1 DEF ClaimTypeOK
  <2>4. ClaimTypeOK'
    BY <1>0, <2>1, <2>2 DEF ClaimTypeOK
  <2>5. ClaimerInv'
    BY <1>0, <2>1, <2>3 DEF ClaimerInv
  <2>6. ClaimedInv' /\ TokenSpent'
    BY <1>0, <2>1, <2>3 DEF ClaimedInv, TokenSpent
  <2>. QED
    BY <2>4, <2>5, <2>6 DEF ClaimIInv
<1>9. CASE ClaimCrash
  <2>1. ClaimTypeOK'
    BY <1>0, <1>9 DEF ClaimCrash, ClaimTypeOK
  <2>2. ClaimerInv' /\ ClaimedInv' /\ TokenSpent'
    BY <1>0, <1>9 DEF ClaimCrash, ClaimerInv, ClaimedInv, TokenSpent
  <2>. QED
    BY <2>1, <2>2 DEF ClaimIInv
<1>10. CASE UNCHANGED claimVars
  BY <1>0, <1>10 DEF claimVars, ClaimIInv, ClaimTypeOK, ClaimerInv, ClaimedInv, TokenSpent
<1>. QED
  BY <1>1, <1>2, <1>3, <1>4, <1>5, <1>6, <1>7, <1>8, <1>9, <1>10
  DEF ClaimNext, handleGenerateClaimToken, handleClaimAgent

LEMMA ClaimInductive == ClaimSpec => []ClaimIInv
  BY ClaimStart, ClaimStep, PTL DEF ClaimSpec

(* The tables of tokens and of claimed agents stay well formed.            *)
THEOREM ClaimTypes == ClaimSpec => []ClaimTypeOK
<1>1. ClaimIInv => ClaimTypeOK
  BY DEF ClaimIInv
<1>. QED
  BY <1>1, ClaimInductive, PTL

(* An agent's token is spent, and on an agent that was registered with it, *)
(* for any number of tokens, claims at the same time and faults            *)
(* (handleClaimAgent, MarkClaimed).                                        *)
THEOREM ClaimSafe == ClaimSpec => []TokenSpent
<1>1. ClaimIInv => TokenSpent
  BY DEF ClaimIInv
<1>. QED
  BY <1>1, ClaimInductive, PTL

-----------------------------------------------------------------------------
(* The limit on pending tokens.  Only finitely many tokens were ever made. *)
Known == {t \in Token : tokens[t] # None}

(* The goroutines that are about to store a token of a user.               *)
Creating(u) == {c \in Handler : ClaimAt(c, "create") /\ claimer[c].user = u}

PendingIInv == ClaimIInv /\ IsFiniteSet(Known) /\ PendingBounded

LEMMA PendingStart == ClaimInit => PendingIInv
<1>. SUFFICES ASSUME ClaimInit PROVE PendingIInv
  OBVIOUS
<1>1. Known = {} /\ \A u \in User : Pending(u) = {} /\ Creating(u) = {}
  BY DEF ClaimInit, Known, Pending, Creating, ClaimAt, NoClaim
<1>2. IsFiniteSet({}) /\ Cardinality({}) = 0 /\ Cardinality(Handler) \in Nat
  BY FS_EmptySet, FS_CardinalityType, FinitelyManyHandlers
<1>3. \A u \in User : Cardinality(Pending(u)) + Cardinality(Creating(u))
                      <= MaxPending + Cardinality(Handler) - 1
  BY <1>1, <1>2, PendingBound
<1>. QED
  BY <1>1, <1>2, <1>3, ClaimStart DEF PendingIInv, PendingBounded, Creating

LEMMA PendingSizes ==
  ASSUME IsFiniteSet(Known), NEW u \in User
  PROVE  /\ IsFiniteSet(Pending(u)) /\ Cardinality(Pending(u)) \in Nat
         /\ IsFiniteSet(Creating(u)) /\ Cardinality(Creating(u)) \in Nat
         /\ Cardinality(Handler) \in Nat
<1>1. Pending(u) \subseteq Known /\ Creating(u) \subseteq Handler
  BY DEF Pending, Known, Creating
<1>. QED
  BY <1>1, FinitelyManyHandlers, Counting

(* Steps that make no token and admit no request.                          *)
LEMMA PendingKept ==
  ASSUME IsFiniteSet(Known), PendingBounded,
         \A t \in Token : tokens'[t] # None =>
            /\ tokens[t] # None /\ tokens'[t].user = tokens[t].user
            /\ tokens'[t].status = "pending" => tokens[t].status = "pending"
            /\ ~tokens'[t].expired => ~tokens[t].expired,
         \A c \in Handler : claimer'[c].at = "create" => claimer'[c] = claimer[c]
  PROVE  IsFiniteSet(Known)' /\ PendingBounded'
<1>1. Known' \subseteq Known
  BY DEF Known
<1>2. IsFiniteSet(Known')
  BY <1>1, Counting
<1>3. ASSUME NEW u \in User
      PROVE  Cardinality(Pending(u)') + Cardinality(Creating(u)')
             <= MaxPending + Cardinality(Handler) - 1
  <2>1. Pending(u)' \subseteq Pending(u) /\ Creating(u)' \subseteq Creating(u)
    BY DEF Pending, Creating, ClaimAt
  <2>2. /\ IsFiniteSet(Pending(u)) /\ Cardinality(Pending(u)) \in Nat
        /\ IsFiniteSet(Creating(u)) /\ Cardinality(Creating(u)) \in Nat
        /\ Cardinality(Handler) \in Nat
    BY PendingSizes
  <2>3. /\ Cardinality(Pending(u)') \in Nat /\ Cardinality(Creating(u)') \in Nat
        /\ Cardinality(Pending(u)') <= Cardinality(Pending(u))
        /\ Cardinality(Creating(u)') <= Cardinality(Creating(u))
    BY <2>1, <2>2, Counting
  <2>4. Cardinality(Pending(u)) + Cardinality(Creating(u))
        <= MaxPending + Cardinality(Handler) - 1
    BY DEF PendingBounded, Creating
  <2>. QED
    BY <2>2, <2>3, <2>4, PendingBound
<1>. QED
  BY <1>2, <1>3 DEF PendingBounded, Creating

LEMMA PendingStep == PendingIInv /\ [ClaimNext]_claimVars => PendingIInv'
<1>. SUFFICES ASSUME PendingIInv, [ClaimNext]_claimVars PROVE PendingIInv'
  OBVIOUS
<1>. USE DEF ClaimAt, ClaimGoto, NoClaim
<1>0. /\ IsFiniteSet(Known) /\ PendingBounded /\ ClaimIInv /\ ClaimIInv'
      /\ ClaimTypeOK /\ ClaimerInv
  BY ClaimStep DEF PendingIInv, ClaimIInv
<1>1. ASSUME NEW c \in Handler, NEW u \in User, NEW t \in Token, GenerateCheck(c, u, t)
      PROVE  IsFiniteSet(Known)' /\ PendingBounded'
  <2>. DEFINE next == [at |-> "create", user |-> u, token |-> t, agent |-> None]
  <2>1. /\ PendingBelow(u) /\ claimer' = [claimer EXCEPT ![c] = next]
        /\ UNCHANGED tokens
    BY <1>1 DEF GenerateCheck
  <2>2. next.at = "create" /\ next.user = u
    OBVIOUS
  <2>. HIDE DEF next
  <2>3. claimer'[c] = next /\ \A d \in Handler \ {c} : claimer'[d] = claimer[d]
    BY <1>0, <2>1 DEF ClaimTypeOK
  <2>4. ASSUME NEW v \in User
        PROVE  Cardinality(Pending(v)') + Cardinality(Creating(v)')
               <= MaxPending + Cardinality(Handler) - 1
    <3>1. Pending(v)' = Pending(v)
      BY <2>1 DEF Pending
    <3>2. Creating(v)' \subseteq Handler
      BY DEF Creating
    <3>3. /\ Cardinality(Creating(v)') \in Nat
          /\ Cardinality(Creating(v)') <= Cardinality(Handler)
      BY <3>2, FinitelyManyHandlers, Counting
    <3>4. /\ IsFiniteSet(Pending(v)) /\ Cardinality(Pending(v)) \in Nat
          /\ IsFiniteSet(Creating(v)) /\ Cardinality(Creating(v)) \in Nat
          /\ Cardinality(Handler) \in Nat
      BY <1>0, PendingSizes
    <3>5. CASE v = u
      <4>1. Cardinality(Pending(v)) < MaxPending
        BY <2>1, <3>5 DEF PendingBelow
      <4>. QED
        BY <3>1, <3>3, <3>4, <4>1, PendingBound
    <3>6. CASE v # u
      <4>1. Creating(v)' \subseteq Creating(v)
        BY <2>2, <2>3, <3>6 DEF Creating
      <4>2. Cardinality(Creating(v)') <= Cardinality(Creating(v))
        BY <3>4, <4>1, Counting
      <4>3. Cardinality(Pending(v)) + Cardinality(Creating(v))
            <= MaxPending + Cardinality(Handler) - 1
        BY <1>0 DEF PendingBounded, Creating
      <4>. QED
        BY <3>1, <3>3, <3>4, <4>2, <4>3, PendingBound
    <3>. QED
      BY <3>5, <3>6
  <2>. QED
    BY <1>0, <2>1, <2>4 DEF Known, PendingBounded, Creating
<1>2. ASSUME NEW c \in Handler, GenerateCreate(c)
      PROVE  IsFiniteSet(Known)' /\ PendingBounded'
  <2>. DEFINE t == claimer[c].token
              u == claimer[c].user
  <2>1. /\ claimer[c].at = "create" /\ claimer' = [claimer EXCEPT ![c] = NoClaim]
        /\ tokens' = [tokens EXCEPT ![t] = [user |-> u, status |-> "pending",
                                            expired |-> FALSE, agent |-> None]]
    BY <1>2 DEF GenerateCreate
  <2>2. t \in Token /\ u \in User
    BY <1>0, <2>1 DEF ClaimerInv
  <2>3. claimer'[c].at = "idle" /\ \A d \in Handler \ {c} : claimer'[d] = claimer[d]
    BY <1>0, <2>1 DEF ClaimTypeOK
  <2>4. tokens'[t].user = u /\ \A s \in Token \ {t} : tokens'[s] = tokens[s]
    BY <1>0, <2>1, <2>2 DEF ClaimTypeOK
  <2>. HIDE DEF t
  <2>5. Known' \subseteq Known \cup {t}
    BY <2>4 DEF Known
  <2>6. ASSUME NEW v \in User
        PROVE  Cardinality(Pending(v)') + Cardinality(Creating(v)')
               <= MaxPending + Cardinality(Handler) - 1
    <3>2. c \in Creating(u)
      BY <2>1 DEF Creating
    <3>3. Creating(v)' \subseteq Creating(v)
      BY <2>3 DEF Creating
    <3>4. /\ IsFiniteSet(Pending(v)) /\ Cardinality(Pending(v)) \in Nat
          /\ IsFiniteSet(Creating(v)) /\ Cardinality(Creating(v)) \in Nat
          /\ Cardinality(Handler) \in Nat
      BY <1>0, PendingSizes
    <3>5. Cardinality(Pending(v)) + Cardinality(Creating(v))
          <= MaxPending + Cardinality(Handler) - 1
      BY <1>0 DEF PendingBounded, Creating
    <3>6. /\ Cardinality(Creating(v)') \in Nat
          /\ Cardinality(Creating(v)') <= Cardinality(Creating(v))
      BY <3>3, <3>4, Counting
    <3>7. CASE v = u
      <4>1. Pending(v)' \subseteq Pending(v) \cup {t}
        BY <2>4 DEF Pending
      <4>2. /\ Cardinality(Pending(v)') \in Nat
            /\ Cardinality(Pending(v)') <= Cardinality(Pending(v)) + 1
        BY <3>4, <4>1, Counting
      <4>3. c \in Creating(v) /\ Creating(v)' \subseteq Creating(v) \ {c}
        BY <2>3, <3>2, <3>7 DEF Creating
      <4>4. Cardinality(Creating(v)') <= Cardinality(Creating(v)) - 1
        BY <3>4, <4>3, Counting
      <4>. QED
        BY <3>4, <3>5, <3>6, <4>2, <4>4, PendingBound
    <3>8. CASE v # u
      <4>1. Pending(v)' \subseteq Pending(v)
        BY <2>4, <3>8 DEF Pending
      <4>2. /\ Cardinality(Pending(v)') \in Nat
            /\ Cardinality(Pending(v)') <= Cardinality(Pending(v))
        BY <3>4, <4>1, Counting
      <4>. QED
        BY <3>4, <3>5, <3>6, <4>2, PendingBound
    <3>. QED
      BY <3>7, <3>8
  <2>7. IsFiniteSet(Known')
    BY <1>0, <2>5, Counting
  <2>. QED
    BY <2>6, <2>7 DEF PendingBounded, Creating
<1>3. ASSUME NEW t \in Token, Expire(t)
      PROVE  IsFiniteSet(Known)' /\ PendingBounded'
  <2>. DEFINE row == [tokens[t] EXCEPT !.expired = TRUE]
  <2>1. /\ tokens[t] # None /\ tokens' = [tokens EXCEPT ![t] = row] /\ UNCHANGED claimer
    BY <1>3 DEF Expire
  <2>2. /\ row.user = tokens[t].user /\ row.status = tokens[t].status
        /\ row.expired = TRUE
    BY <1>0, <2>1 DEF ClaimTypeOK, TokenRow
  <2>. HIDE DEF row
  <2>3. tokens'[t] = row /\ \A s \in Token \ {t} : tokens'[s] = tokens[s]
    BY <1>0, <2>1 DEF ClaimTypeOK
  <2>4. \A s \in Token : tokens'[s] # None =>
            /\ tokens[s] # None /\ tokens'[s].user = tokens[s].user
            /\ tokens'[s].status = "pending" => tokens[s].status = "pending"
            /\ ~tokens'[s].expired => ~tokens[s].expired
    BY <2>1, <2>2, <2>3
  <2>. QED
    BY <1>0, <2>1, <2>4, PendingKept
<1>4. ASSUME NEW c \in Handler,
             \/ \E t \in Token : ClaimValidate(c, t)
             \/ \E a \in Newcomer : ClaimRegister(c, a)
             \/ ClaimMarkFails(c) \/ ClaimWhitelist(c) \/ ClaimCrash
             \/ UNCHANGED claimVars
      PROVE  IsFiniteSet(Known)' /\ PendingBounded'
  <2>1. UNCHANGED tokens
    BY <1>4 DEF ClaimValidate, ClaimRegister, ClaimMarkFails, ClaimWhitelist, ClaimCrash,
       claimVars
  <2>2. \A d \in Handler : claimer'[d].at = "create" => claimer'[d] = claimer[d]
    <3>1. CASE \E t \in Token : ClaimValidate(c, t)
      BY <1>0, <3>1 DEF ClaimValidate, ClaimTypeOK
    <3>2. CASE \E a \in Newcomer : ClaimRegister(c, a)
      <4>1. PICK a \in Newcomer : claimer' = [claimer EXCEPT ![c].at = "mark", ![c].agent = a]
        BY <3>2 DEF ClaimRegister
      <4>. QED
        BY <1>0, <4>1 DEF ClaimTypeOK, Claim
    <3>3. CASE ClaimMarkFails(c)
      BY <1>0, <3>3 DEF ClaimMarkFails, ClaimTypeOK, Claim
    <3>4. CASE ClaimWhitelist(c)
      BY <1>0, <3>4 DEF ClaimWhitelist, ClaimTypeOK
    <3>5. CASE ClaimCrash
      BY <3>5 DEF ClaimCrash
    <3>6. CASE UNCHANGED claimVars
      BY <3>6 DEF claimVars
    <3>. QED
      BY <1>4, <3>1, <3>2, <3>3, <3>4, <3>5, <3>6
  <2>. QED
    BY <1>0, <2>1, <2>2, PendingKept
<1>5. ASSUME NEW c \in Handler, ClaimMark(c)
      PROVE  IsFiniteSet(Known)' /\ PendingBounded'
  <2>. DEFINE t == claimer[c].token
              row == [tokens[t] EXCEPT !.status = "claimed", !.agent = claimer[c].agent]
  <2>1. /\ claimer[c].at = "mark" /\ claimer' = [claimer EXCEPT ![c].at = "whitelist"]
        /\ tokens' = IF tokens[t].status = "pending" THEN [tokens EXCEPT ![t] = row]
                     ELSE tokens
    BY <1>5 DEF ClaimMark, MarkClaimed
  <2>2. t \in Token /\ tokens[t] # None
    BY <1>0, <2>1 DEF ClaimerInv
  <2>3. /\ row.user = tokens[t].user /\ row.status = "claimed"
        /\ row.expired = tokens[t].expired
    BY <1>0, <2>2 DEF ClaimTypeOK, TokenRow
  <2>. HIDE DEF t, row
  <2>4. /\ tokens'[t] = row \/ tokens'[t] = tokens[t]
        /\ \A s \in Token \ {t} : tokens'[s] = tokens[s]
    BY <1>0, <2>1, <2>2 DEF ClaimTypeOK
  <2>5. \A s \in Token : tokens'[s] # None =>
            /\ tokens[s] # None /\ tokens'[s].user = tokens[s].user
            /\ tokens'[s].status = "pending" => tokens[s].status = "pending"
            /\ ~tokens'[s].expired => ~tokens[s].expired
    BY <2>2, <2>3, <2>4
  <2>6. \A d \in Handler : claimer'[d].at = "create" => claimer'[d] = claimer[d]
    BY <1>0, <2>1 DEF ClaimTypeOK, Claim
  <2>. QED
    BY <1>0, <2>5, <2>6, PendingKept
<1>6. ASSUME ClaimCrash \/ UNCHANGED claimVars
      PROVE  IsFiniteSet(Known)' /\ PendingBounded'
  <2>1. CASE Handler = {}
    <3>1. UNCHANGED tokens
      BY <1>6 DEF ClaimCrash, claimVars
    <3>. QED
      BY <1>0, <2>1, <3>1, PendingKept
  <2>2. CASE Handler # {}
    BY <1>4, <1>6, <2>2
  <2>. QED
    BY <2>1, <2>2
<1>. QED
  BY <1>0, <1>1, <1>2, <1>3, <1>4, <1>5, <1>6
  DEF ClaimNext, handleGenerateClaimToken, handleClaimAgent, PendingIInv

(* A user's claimable tokens exceed the limit by no more than the requests *)
(* that count at the same time, for any number of them (Service.Generate). *)
THEOREM PendingSafe == ClaimSpec => []PendingBounded
<1>1. ClaimSpec => []PendingIInv
  BY PendingStart, PendingStep, PTL DEF ClaimSpec
<1>2. PendingIInv => PendingBounded
  BY DEF PendingIInv
<1>. QED
  BY <1>1, <1>2, PTL

-----------------------------------------------------------------------------
(* Contact requests (internal/contacts).                                   *)
-----------------------------------------------------------------------------
(* A contact is there, or something took it.                               *)
Linked(c, d, p) == c[p] # "none" \/ p \in d

(* The id of a request in the making is nobody else's; who decides on a    *)
(* request knows its pair, and has added the first contact before it adds  *)
(* the second.                                                             *)
DeciderInv ==
  \A h \in Handler :
    /\ decider[h].at = "create" =>
         /\ decider[h].request \in Request /\ decider[h].pair \in Pairs
         /\ requests[decider[h].request] = None
         /\ \A g \in Handler \ {h} : decider[g].request # decider[h].request
    /\ decider[h].at \in {"decide", "toFrom", "fromTo"} =>
         /\ decider[h].request \in Request /\ decider[h].pair \in Pairs
         /\ requests[decider[h].request] # None =>
              requests[decider[h].request].pair = decider[h].pair
    /\ decider[h].at = "fromTo" => Linked(contacts, dropped, Flip(decider[h].pair))

ReqIInv == ReqTypeOK /\ DeciderInv /\ ApprovedConnects

LEMMA FlipFacts ==
  ASSUME NEW p \in Pairs
  PROVE  Flip(p) \in Pairs /\ Flip(Flip(p)) = p /\ Flip(p) # p
  BY DEF Pairs, Flip

LEMMA ReqStart == ReqInit => ReqIInv
  BY NoneIsNoRequest, FaultBound
  DEF ReqInit, ReqIInv, ReqTypeOK, DeciderInv, ApprovedConnects, NoDecision, Deciding,
      Expiry

(* Steps that only move requests forward and lose no connection.           *)
LEMMA Approved ==
  ASSUME ReqIInv, requests' = requests,
         \A p \in Pairs : Linked(contacts, dropped, p) => Linked(contacts', dropped', p),
         \A p \in Pairs, h \in Handler :
           decider[h].pair = p /\ decider[h].at \in {"toFrom", "fromTo"} =>
             \/ Linked(contacts', dropped', p) /\ Linked(contacts', dropped', Flip(p))
             \/ \E g \in Handler : decider'[g].pair = p
                                   /\ decider'[g].at \in {"toFrom", "fromTo"}
  PROVE  ApprovedConnects'
<1>. SUFFICES ASSUME NEW r \in Request, requests[r] # None,
                     requests[r].status = "approved",
                     NEW p \in {requests[r].pair, Flip(requests[r].pair)},
                     ~\E g \in Handler : decider'[g].pair = requests[r].pair
                                         /\ decider'[g].at \in {"toFrom", "fromTo"}
              PROVE  Linked(contacts', dropped', p)
  BY DEF ApprovedConnects, Linked
<1>1. requests[r].pair \in Pairs /\ p \in Pairs
  BY FlipFacts DEF ReqIInv, ReqTypeOK, RequestRow
<1>2. Linked(contacts, dropped, p) \/ \E h \in Handler : decider[h].pair = requests[r].pair
                                        /\ decider[h].at \in {"toFrom", "fromTo"}
  BY DEF ReqIInv, ApprovedConnects, Linked
<1>. QED
  BY <1>1, <1>2

LEMMA ReqStep == ReqIInv /\ [ReqNext]_reqVars => ReqIInv'
<1>. SUFFICES ASSUME ReqIInv, [ReqNext]_reqVars PROVE ReqIInv'
  OBVIOUS
<1>. USE NoneIsNoRequest, FaultBound DEF Deciding, NoDecision, DeciderAt, Fault
<1>0. ReqTypeOK /\ DeciderInv /\ ApprovedConnects
  BY DEF ReqIInv
<1>1. ASSUME NEW h \in Handler, NEW r \in Request, NEW p \in Pairs,
             SubmitCheck(h, r, p) \/ SubmitCheckFails(h, r, p)
      PROVE  ReqIInv'
  <2>1. /\ decider[h] = NoDecision /\ Fresh(r)
        /\ UNCHANGED <<requests, contacts, dropped>> /\ faults' \in 0..MaxFaults
        /\ decider' = [decider EXCEPT ![h] = [at |-> "create", request |-> r,
                                              pair |-> p, status |-> "pending"]]
    BY <1>0, <1>1 DEF SubmitCheck, SubmitCheckFails, SubmitBy, ReqTypeOK
  <2>2. ReqTypeOK'
    BY <1>0, <2>1 DEF ReqTypeOK
  <2>3. \A q \in Pairs : Linked(contacts', dropped', q) <=> Linked(contacts, dropped, q)
    BY <2>1 DEF Linked
  <2>4. DeciderInv'
    BY <1>0, <2>1, <2>3, FlipFacts DEF DeciderInv, ReqTypeOK, Fresh
  <2>5. \A g \in Handler : decider[g].at \in {"toFrom", "fromTo"} => decider'[g] = decider[g]
    BY <1>0, <2>1 DEF ReqTypeOK
  <2>6. ApprovedConnects'
    BY <2>1, <2>3, <2>5, Approved
  <2>. QED
    BY <2>2, <2>4, <2>6 DEF ReqIInv
<1>2. ASSUME NEW h \in Handler, SubmitCreate(h)
      PROVE  ReqIInv'
  <2>. DEFINE r == decider[h].request
              p == decider[h].pair
  <2>1. /\ decider[h].at = "create" /\ r \in Request /\ p \in Pairs
        /\ requests[r] = None
        /\ \A g \in Handler \ {h} : decider[g].request # r
        /\ UNCHANGED <<contacts, dropped, faults>>
        /\ decider' = [decider EXCEPT ![h] = NoDecision]
        /\ requests' = [q \in Request |->
                 IF q = r THEN [pair |-> p, status |-> "pending"]
                 ELSE IF requests[q] # None /\ requests[q].pair = p THEN None
                 ELSE requests[q]]
    BY <1>0, <1>2 DEF SubmitCreate, Create, DeciderInv
  <2>. HIDE DEF r, p
  <2>2. /\ requests'[r] = [pair |-> p, status |-> "pending"]
        /\ \A q \in Request \ {r} : requests'[q] = requests[q] \/ requests'[q] = None
        /\ \A q \in Request \ {r} : requests'[q] # None => requests[q].pair # p
    BY <2>1
  <2>3. ReqTypeOK'
    <3>1. requests' \in [Request -> RequestRow \cup {None}]
      BY <1>0, <2>1 DEF ReqTypeOK, RequestRow
    <3>2. decider' \in [Handler -> Deciding]
      BY <1>0, <2>1 DEF ReqTypeOK
    <3>3. \A q, s \in Request :
            requests'[q] # None /\ requests'[s] # None
            /\ requests'[q].pair = requests'[s].pair => q = s
      BY <1>0, <2>1, <2>2 DEF ReqTypeOK
    <3>. QED
      BY <1>0, <2>1, <3>1, <3>2, <3>3 DEF ReqTypeOK
  <2>4. \A q \in Pairs : Linked(contacts', dropped', q) <=> Linked(contacts, dropped, q)
    BY <2>1 DEF Linked
  <2>5. decider'[h] = NoDecision /\ \A g \in Handler \ {h} : decider'[g] = decider[g]
    BY <1>0, <2>1 DEF ReqTypeOK
  <2>6. DeciderInv'
    BY <1>0, <2>1, <2>2, <2>4, <2>5, FlipFacts DEF DeciderInv
  <2>7. ApprovedConnects'
    <3>. SUFFICES ASSUME NEW q \in Request, requests'[q] # None,
                         requests'[q].status = "approved"
                  PROVE  \A x \in {requests'[q].pair, Flip(requests'[q].pair)} :
                           \/ Linked(contacts', dropped', x)
                           \/ \E g \in Handler : decider'[g].pair = requests'[q].pair
                                                 /\ decider'[g].at \in {"toFrom", "fromTo"}
      BY DEF ApprovedConnects, Linked
    <3>1. q # r /\ requests'[q] = requests[q]
      BY <2>2
    <3>2. requests[q].pair \in Pairs
      BY <1>0, <3>1 DEF ReqTypeOK, RequestRow
    <3>3. \A x \in {requests[q].pair, Flip(requests[q].pair)} :
            \/ Linked(contacts, dropped, x)
            \/ \E g \in Handler : decider[g].pair = requests[q].pair
                                  /\ decider[g].at \in {"toFrom", "fromTo"}
      BY <1>0, <3>1 DEF ApprovedConnects, Linked
    <3>. QED
      BY <2>1, <2>4, <2>5, <3>1, <3>2, <3>3, FlipFacts
  <2>. QED
    BY <2>3, <2>6, <2>7 DEF ReqIInv
<1>3. ASSUME NEW h \in Handler, NEW r \in Request, NEW s \in {"approved", "rejected"},
             Decide(h, r, s)
      PROVE  ReqIInv'
  <2>1. /\ decider[h] = NoDecision /\ requests[r] # None
        /\ UNCHANGED <<requests, contacts, dropped, faults>>
        /\ decider' = [decider EXCEPT ![h] = [at |-> "decide", request |-> r,
                                        pair |-> requests[r].pair, status |-> s]]
        /\ requests[r].pair \in Pairs
    BY <1>0, <1>3 DEF Decide, ReqTypeOK, RequestRow
  <2>2. ReqTypeOK'
    BY <1>0, <2>1 DEF ReqTypeOK
  <2>3. \A q \in Pairs : Linked(contacts', dropped', q) <=> Linked(contacts, dropped, q)
    BY <2>1 DEF Linked
  <2>4. DeciderInv'
    BY <1>0, <2>1, <2>3, FlipFacts DEF DeciderInv, ReqTypeOK
  <2>5. \A g \in Handler : decider[g].at \in {"toFrom", "fromTo"} => decider'[g] = decider[g]
    BY <1>0, <2>1 DEF ReqTypeOK
  <2>6. ApprovedConnects'
    BY <2>1, <2>3, <2>5, Approved
  <2>. QED
    BY <2>2, <2>4, <2>6 DEF ReqIInv
<1>4. ASSUME NEW h \in Handler, DecideWrite(h)
      PROVE  ReqIInv'
  <2>. DEFINE r == decider[h].request
              p == decider[h].pair
              d == IF decider[h].status = "approved"
                   THEN [decider[h] EXCEPT !.at = "toFrom"] ELSE NoDecision
  <2>1. /\ decider[h].at = "decide" /\ r \in Request /\ p \in Pairs
        /\ (requests[r] # None => requests[r].pair = p)
        /\ UNCHANGED <<contacts, dropped, faults>>
        /\ decider' = [decider EXCEPT ![h] = d]
        /\ requests' = IF requests[r] = None THEN requests
                       ELSE [requests EXCEPT ![r].status = decider[h].status]
    BY <1>0, <1>4 DEF DecideWrite, UpdateRequest, DeciderInv
  <2>2. /\ d \in Deciding
        /\ decider[h].status = "approved" => /\ d.at = "toFrom" /\ d.pair = p
                                             /\ d.request = r
        /\ decider[h].status # "approved" => d = NoDecision
    BY <1>0, <2>1 DEF ReqTypeOK
  <2>. HIDE DEF r, p, d
  <2>3. /\ \A q \in Request \ {r} : requests'[q] = requests[q]
        /\ \A q \in Request : requests'[q] # None => requests[q] # None
        /\ \A q \in Request : requests'[q] # None => requests'[q].pair = requests[q].pair
        /\ requests'[r] # None => requests'[r].status = decider[h].status
        /\ requests' \in [Request -> RequestRow \cup {None}]
    <3>1. CASE requests[r] = None
      BY <1>0, <2>1, <3>1 DEF ReqTypeOK
    <3>2. CASE requests[r] # None
      <4>1. requests[r] \in RequestRow /\ decider[h].status \in {"pending", "approved", "rejected"}
        BY <1>0, <2>1, <3>2 DEF ReqTypeOK
      <4>. DEFINE row == [requests[r] EXCEPT !.status = decider[h].status]
      <4>2. row \in RequestRow /\ row.pair = requests[r].pair /\ row.status = decider[h].status
        BY <4>1 DEF RequestRow
      <4>3. requests' = [requests EXCEPT ![r] = row]
        BY <2>1, <3>2
      <4>. HIDE DEF row
      <4>5. /\ \A q \in Request \ {r} : requests'[q] = requests[q]
            /\ requests'[r] = row
            /\ requests' \in [Request -> RequestRow \cup {None}]
        BY <1>0, <2>1, <4>2, <4>3 DEF ReqTypeOK
      <4>. QED
        BY <3>2, <4>2, <4>5
    <3>. QED
      BY <3>1, <3>2
  <2>4. decider'[h] = d /\ \A g \in Handler \ {h} : decider'[g] = decider[g]
    BY <1>0, <2>1 DEF ReqTypeOK
  <2>5. ReqTypeOK'
    <3>1. decider' \in [Handler -> Deciding]
      BY <1>0, <2>1, <2>2 DEF ReqTypeOK
    <3>2. \A q, s \in Request :
            requests'[q] # None /\ requests'[s] # None
            /\ requests'[q].pair = requests'[s].pair => q = s
      BY <1>0, <2>3 DEF ReqTypeOK
    <3>. QED
      BY <1>0, <2>1, <2>3, <3>1, <3>2 DEF ReqTypeOK
  <2>6. \A q \in Pairs : Linked(contacts', dropped', q) <=> Linked(contacts, dropped, q)
    BY <2>1 DEF Linked
  <2>7. DeciderInv'
    <3>1. ASSUME NEW g \in Handler, decider'[g].at = "create"
          PROVE  /\ decider'[g].request \in Request /\ decider'[g].pair \in Pairs
                 /\ requests'[decider'[g].request] = None
                 /\ \A k \in Handler \ {g} : decider'[k].request # decider'[g].request
      <4>1. g # h /\ decider'[g] = decider[g]
        BY <2>2, <2>4, <3>1
      <4>2. /\ decider[g].request \in Request /\ decider[g].pair \in Pairs
            /\ requests[decider[g].request] = None
            /\ \A k \in Handler \ {g} : decider[k].request # decider[g].request
        BY <1>0, <3>1, <4>1 DEF DeciderInv
      <4>3. d.request # decider[g].request
        BY <2>2, <4>1, <4>2 DEF r
      <4>. QED
        BY <2>3, <2>4, <4>1, <4>2, <4>3
    <3>2. ASSUME NEW g \in Handler, decider'[g].at \in {"decide", "toFrom", "fromTo"}
          PROVE  /\ decider'[g].request \in Request /\ decider'[g].pair \in Pairs
                 /\ requests'[decider'[g].request] # None =>
                      requests'[decider'[g].request].pair = decider'[g].pair
                 /\ decider'[g].at = "fromTo" =>
                      Linked(contacts', dropped', Flip(decider'[g].pair))
      <4>1. CASE g = h
        BY <2>1, <2>2, <2>3, <2>4, <3>2, <4>1
      <4>2. CASE g # h
        <5>1. decider'[g] = decider[g]
          BY <2>4, <4>2
        <5>2. /\ decider[g].request \in Request /\ decider[g].pair \in Pairs
              /\ requests[decider[g].request] # None =>
                   requests[decider[g].request].pair = decider[g].pair
              /\ decider[g].at = "fromTo" => Linked(contacts, dropped, Flip(decider[g].pair))
          BY <1>0, <3>2, <5>1 DEF DeciderInv
        <5>. QED
          BY <2>1, <2>3, <5>1, <5>2
      <4>. QED
        BY <4>1, <4>2
    <3>. QED
      BY <3>1, <3>2 DEF DeciderInv
  <2>8. ApprovedConnects'
    <3>. SUFFICES ASSUME NEW q \in Request, requests'[q] # None,
                         requests'[q].status = "approved"
                  PROVE  \A x \in {requests'[q].pair, Flip(requests'[q].pair)} :
                           \/ Linked(contacts', dropped', x)
                           \/ \E g \in Handler : decider'[g].pair = requests'[q].pair
                                                 /\ decider'[g].at \in {"toFrom", "fromTo"}
      BY DEF ApprovedConnects, Linked
    <3>1. CASE q = r
      <4>1. decider'[h].pair = requests'[q].pair /\ decider'[h].at = "toFrom"
        BY <2>1, <2>2, <2>3, <2>4, <3>1
      <4>. QED
        BY <4>1
    <3>2. CASE q # r
      <4>1. requests'[q] = requests[q] /\ requests[q].pair \in Pairs
        BY <1>0, <2>3, <3>2 DEF ReqTypeOK, RequestRow
      <4>2. \A x \in {requests[q].pair, Flip(requests[q].pair)} :
              \/ Linked(contacts, dropped, x)
              \/ \E g \in Handler : decider[g].pair = requests[q].pair
                                    /\ decider[g].at \in {"toFrom", "fromTo"}
        BY <1>0, <4>1 DEF ApprovedConnects, Linked
      <4>3. \A g \in Handler : decider[g].at \in {"toFrom", "fromTo"} => decider'[g] = decider[g]
        BY <2>1, <2>4
      <4>. QED
        BY <2>6, <4>1, <4>2, <4>3, FlipFacts
    <3>. QED
      BY <3>1, <3>2
  <2>. QED
    BY <2>5, <2>7, <2>8 DEF ReqIInv
<1>5. ASSUME NEW h \in Handler, AddToFrom(h) \/ AddFromTo(h) \/ AddFails(h)
      PROVE  ReqIInv'
  <2>. DEFINE p == decider[h].pair
              d == IF decider[h].at = "toFrom" THEN [decider[h] EXCEPT !.at = "fromTo"]
                   ELSE NoDecision
  <2>1. /\ decider[h].at \in {"toFrom", "fromTo"} /\ p \in Pairs
        /\ decider[h].at = "fromTo" => Linked(contacts, dropped, Flip(p))
        /\ decider' = [decider EXCEPT ![h] = d]
        /\ requests' = requests /\ faults' \in 0..MaxFaults
    BY <1>0, <1>5 DEF AddToFrom, AddFromTo, AddFails, DeciderInv, ReqTypeOK
  <2>2. /\ d \in Deciding
        /\ decider[h].at = "toFrom" => /\ d.at = "fromTo" /\ d.pair = p
                                       /\ d.request = decider[h].request
        /\ decider[h].at = "fromTo" => d = NoDecision
    BY <1>0, <2>1 DEF ReqTypeOK
  <2>. HIDE DEF d
  <2>3. decider'[h] = d /\ \A g \in Handler \ {h} : decider'[g] = decider[g]
    BY <1>0, <2>1 DEF ReqTypeOK
  <2>4. PICK q \in Pairs :
          /\ q = IF decider[h].at = "toFrom" THEN Flip(p) ELSE p
          /\ \/ Add(q, "never")
             \/ contacts' = contacts /\ dropped' = dropped \cup {q}
    <3>1. Flip(p) \in Pairs
      BY <2>1, FlipFacts
    <3>2. CASE decider[h].at = "toFrom"
      BY <1>5, <3>1, <3>2 DEF AddToFrom, AddFromTo, AddFails
    <3>3. CASE decider[h].at = "fromTo"
      BY <1>5, <2>1, <3>3 DEF AddToFrom, AddFromTo, AddFails
    <3>. QED
      BY <2>1, <3>2, <3>3
  <2>. HIDE DEF p
  <2>5. /\ contacts' \in [Pairs -> Expiry] /\ dropped' \in SUBSET Pairs
        /\ Linked(contacts', dropped', q)
        /\ \A x \in Pairs : Linked(contacts, dropped, x) => Linked(contacts', dropped', x)
    <3>1. CASE Add(q, "never")
      BY <1>0, <2>4, <3>1 DEF Add, Linked, ReqTypeOK, Expiry
    <3>2. CASE contacts' = contacts /\ dropped' = dropped \cup {q}
      BY <1>0, <2>4, <3>2 DEF Linked, ReqTypeOK, Expiry
    <3>. QED
      BY <2>4, <3>1, <3>2
  <2>6. ReqTypeOK'
    BY <1>0, <2>1, <2>2, <2>5 DEF ReqTypeOK
  <2>7. DeciderInv'
    <3>1. ASSUME NEW g \in Handler, decider'[g].at = "create"
          PROVE  /\ decider'[g].request \in Request /\ decider'[g].pair \in Pairs
                 /\ requests'[decider'[g].request] = None
                 /\ \A k \in Handler \ {g} : decider'[k].request # decider'[g].request
      <4>1. g # h /\ decider'[g] = decider[g]
        BY <2>1, <2>2, <2>3, <3>1
      <4>2. /\ decider[g].request \in Request /\ decider[g].pair \in Pairs
            /\ requests[decider[g].request] = None
            /\ \A k \in Handler \ {g} : decider[k].request # decider[g].request
        BY <1>0, <3>1, <4>1 DEF DeciderInv
      <4>3. d.request # decider[g].request
        BY <2>1, <2>2, <4>1, <4>2
      <4>. QED
        BY <2>1, <2>3, <4>1, <4>2, <4>3
    <3>2. ASSUME NEW g \in Handler, decider'[g].at \in {"decide", "toFrom", "fromTo"}
          PROVE  /\ decider'[g].request \in Request /\ decider'[g].pair \in Pairs
                 /\ requests'[decider'[g].request] # None =>
                      requests'[decider'[g].request].pair = decider'[g].pair
                 /\ decider'[g].at = "fromTo" => Linked(contacts', dropped', Flip(decider'[g].pair))
      <4>1. CASE g = h
        <5>1. decider[h].at = "toFrom" /\ q = Flip(p) /\ decider'[g].pair = p
              /\ decider'[g].request = decider[h].request
          BY <2>1, <2>2, <2>3, <2>4, <3>2, <4>1
        <5>2. /\ decider[h].request \in Request
              /\ requests[decider[h].request] # None =>
                   requests[decider[h].request].pair = p
          BY <1>0, <5>1 DEF DeciderInv, p
        <5>. QED
          BY <2>1, <2>5, <5>1, <5>2
      <4>2. CASE g # h
        <5>1. decider'[g] = decider[g]
          BY <2>3, <4>2
        <5>2. /\ decider[g].request \in Request /\ decider[g].pair \in Pairs
              /\ requests[decider[g].request] # None =>
                   requests[decider[g].request].pair = decider[g].pair
              /\ decider[g].at = "fromTo" => Linked(contacts, dropped, Flip(decider[g].pair))
          BY <1>0, <3>2, <5>1 DEF DeciderInv
        <5>3. Flip(decider[g].pair) \in Pairs
          BY <5>2, FlipFacts
        <5>. QED
          BY <2>1, <2>5, <5>1, <5>2, <5>3
      <4>. QED
        BY <4>1, <4>2
    <3>. QED
      BY <3>1, <3>2 DEF DeciderInv
  <2>8. ASSUME NEW x \in Pairs, NEW g \in Handler, decider[g].pair = x,
               decider[g].at \in {"toFrom", "fromTo"}
        PROVE  \/ Linked(contacts', dropped', x) /\ Linked(contacts', dropped', Flip(x))
               \/ \E k \in Handler : decider'[k].pair = x
                                     /\ decider'[k].at \in {"toFrom", "fromTo"}
    <3>1. CASE g # h
      BY <2>3, <2>8, <3>1
    <3>2. CASE g = h /\ decider[h].at = "toFrom"
      <4>1. decider'[h].pair = x /\ decider'[h].at = "fromTo"
        BY <2>2, <2>3, <2>8, <3>2 DEF p
      <4>. QED
        BY <4>1
    <3>3. CASE g = h /\ decider[h].at = "fromTo"
      <4>1. q = x /\ p = x /\ Linked(contacts, dropped, Flip(x)) /\ Flip(x) \in Pairs
        BY <2>1, <2>4, <2>8, <3>3, FlipFacts DEF p
      <4>. QED
        BY <2>5, <4>1
    <3>. QED
      BY <2>8, <3>1, <3>2, <3>3
  <2>9. ApprovedConnects'
    BY <2>1, <2>5, <2>8, Approved
  <2>. QED
    BY <2>6, <2>7, <2>9 DEF ReqIInv
<1>6. ASSUME UNCHANGED <<requests, decider, faults>>,
             contacts' \in [Pairs -> Expiry], dropped' \in SUBSET Pairs,
             \A x \in Pairs : Linked(contacts, dropped, x) => Linked(contacts', dropped', x)
      PROVE  ReqIInv'
  <2>1. ReqTypeOK'
    BY <1>0, <1>6 DEF ReqTypeOK
  <2>2. \A g \in Handler : decider[g].at = "fromTo" =>
          Linked(contacts, dropped, Flip(decider[g].pair)) /\ Flip(decider[g].pair) \in Pairs
    BY <1>0, FlipFacts DEF DeciderInv
  <2>3. DeciderInv'
    BY <1>0, <1>6, <2>2 DEF DeciderInv
  <2>4. ApprovedConnects'
    BY <1>6, Approved
  <2>. QED
    BY <2>1, <2>3, <2>4 DEF ReqIInv
<1>7. ASSUME NEW p \in Pairs, NEW e \in {"never", "dated", "expired"}, AddContact(p, e)
      PROVE  ReqIInv'
  <2>1. /\ contacts' \in [Pairs -> Expiry] /\ dropped' \in SUBSET Pairs
        /\ \A x \in Pairs : Linked(contacts, dropped, x) => Linked(contacts', dropped', x)
    BY <1>0, <1>7 DEF AddContact, Add, Linked, ReqTypeOK, Expiry
  <2>. QED
    BY <1>6, <1>7, <2>1 DEF AddContact
<1>8. ASSUME NEW p \in Pairs, RemoveContact(p) \/ ContactExpires(p)
      PROVE  ReqIInv'
  <2>1. /\ contacts' \in [Pairs -> Expiry] /\ dropped' \in SUBSET Pairs
        /\ \A x \in Pairs : Linked(contacts, dropped, x) => Linked(contacts', dropped', x)
    BY <1>0, <1>8 DEF RemoveContact, ContactExpires, Linked, ReqTypeOK, Expiry
  <2>. QED
    BY <1>6, <1>8, <2>1 DEF RemoveContact, ContactExpires
<1>9. CASE ReqCrash
  <2>1. /\ decider' = [h \in Handler |-> NoDecision]
        /\ requests' = requests /\ contacts' = contacts /\ faults' \in 0..MaxFaults
        /\ dropped' = dropped \cup
             {p \in Pairs : \E h \in Handler :
                \/ decider[h].at = "toFrom" /\ decider[h].pair \in {p, Flip(p)}
                \/ decider[h].at = "fromTo" /\ decider[h].pair = p}
    BY <1>0, <1>9 DEF ReqCrash, ReqTypeOK
  <2>2. \A x \in Pairs : Linked(contacts, dropped, x) => Linked(contacts', dropped', x)
    BY <2>1 DEF Linked
  <2>3. ReqTypeOK'
    BY <1>0, <2>1 DEF ReqTypeOK
  <2>4. DeciderInv'
    BY <2>1 DEF DeciderInv
  <2>5. ASSUME NEW x \in Pairs, NEW h \in Handler, decider[h].pair = x,
               decider[h].at \in {"toFrom", "fromTo"}
        PROVE  Linked(contacts', dropped', x) /\ Linked(contacts', dropped', Flip(x))
    <3>1. Flip(x) \in Pairs /\ Flip(Flip(x)) = x
      BY FlipFacts
    <3>2. CASE decider[h].at = "toFrom"
      BY <2>1, <2>5, <3>1, <3>2 DEF Linked
    <3>3. CASE decider[h].at = "fromTo"
      <4>1. Linked(contacts, dropped, Flip(x))
        BY <1>0, <2>5, <3>3 DEF DeciderInv
      <4>. QED
        BY <2>1, <2>2, <2>5, <3>1, <3>3, <4>1 DEF Linked
    <3>. QED
      BY <2>5, <3>2, <3>3
  <2>6. ApprovedConnects'
    BY <2>1, <2>2, <2>5, Approved
  <2>. QED
    BY <2>3, <2>4, <2>6 DEF ReqIInv
<1>10. CASE UNCHANGED reqVars
  BY <1>0, <1>6, <1>10 DEF reqVars, Linked, ReqTypeOK
<1>. QED
  BY <1>1, <1>2, <1>3, <1>4, <1>5, <1>7, <1>8, <1>9, <1>10
  DEF ReqNext, handleAgentSendContactRequest, handleProviderUpdateContactRequest

LEMMA ReqInductive == ReqSpec => []ReqIInv
  BY ReqStart, ReqStep, PTL DEF ReqSpec

(* The tables of requests and contacts stay well formed; two requests      *)
(* never ask for the same pair, although Submit looks first and inserts    *)
(* later.                                                                  *)
THEOREM RequestTypes == ReqSpec => []ReqTypeOK
<1>1. ReqIInv => ReqTypeOK
  BY DEF ReqIInv
<1>. QED
  BY <1>1, ReqInductive, PTL

(* An approved request has its contacts, for any number of agents,         *)
(* requests, deciding handlers and faults (Service.Approve).               *)
THEOREM ApprovalSafe == ReqSpec => []ApprovedConnects
<1>1. ReqIInv => ApprovedConnects
  BY DEF ReqIInv
<1>. QED
  BY <1>1, ReqInductive, PTL

-----------------------------------------------------------------------------
(* Access requests and invocations (internal/useracl, internal/invocation).*)
-----------------------------------------------------------------------------
(* The outcomes a log has of an invocation.                                *)
Entries(log, c) == {o \in {"ok", "error"} : <<c, o>> \in log}

(* An invocation that passed its check is entitled; it has an outcome from *)
(* its delivery on, and the logs have what they will keep of it.           *)
CallOK(c) ==
  /\ call[c].at # "new" => call[c].caller \in Caller /\ call[c].agent \in Agent
  /\ call[c].at \in {"lookup", "limit", "send", "stream", "record", "count"}
       => c \in entitled
  /\ call[c].at \in {"new", "acl", "lookup", "limit", "send", "stream"}
       => call[c].outcome = "none"
  /\ call[c].at \in {"record", "count"} => call[c].outcome # "none"
  /\ call[c].outcome = "none" \/ call[c].at = "record" => Entries(invoked, c) = {}
  /\ call[c].outcome = "none" \/ call[c].at \in {"record", "count"}
       => Entries(counted, c) = {}
  /\ call[c].at \in {"count", "end"} /\ ~call[c].left
       => Entries(invoked, c) = {call[c].outcome} \ {"none"}
  /\ call[c].at = "end" /\ ~call[c].left
       => Entries(counted, c) = {call[c].outcome} \ {"none"}

InvIInv == InvTypeOK /\ \A c \in Call : CallOK(c)

(* The types, and one request for each agent and user.                     *)
GrantsOK ==
  /\ acl \in [Grant -> GrantRow \cup {None}]
  /\ asking \in [Handler -> [agent : Agent, user : User, grant : Grant] \cup {None}]
  /\ \A f, g \in Grant :
       acl[f] # None /\ acl[g] # None
       /\ acl[f].agent = acl[g].agent /\ acl[f].user = acl[g].user => f = g

CallsOK ==
  /\ call \in [Call -> CallRow]
  /\ invoked \in SUBSET (Call \X {"ok", "error"})
  /\ counted \in SUBSET (Call \X {"ok", "error"})

WorldOK ==
  /\ present \in SUBSET Agent
  /\ open \in SUBSET Agent
  /\ listed \in SUBSET (Agent \X Peer)

LEMMA InvTypeParts ==
  InvTypeOK <=> /\ GrantsOK /\ CallsOK /\ WorldOK /\ entitled \in SUBSET Call
                /\ faults \in 0..MaxFaults
  BY DEF InvTypeOK, GrantsOK, CallsOK, WorldOK

LEMMA AccessSafe == InvIInv => InvokedWithAccess
<1>. SUFFICES ASSUME InvIInv, NEW c \in Call
              PROVE  /\ call[c].at \in {"send", "stream", "record", "count"} => c \in entitled
                     /\ call[c].at = "end" /\ ~call[c].left =>
                          \A log \in {invoked, counted} :
                            {o \in {"ok", "error"} : <<c, o>> \in log}
                              = {call[c].outcome} \ {"none"}
                     /\ call[c].outcome = "none" =>
                          \A o \in {"ok", "error"} : <<c, o>> \notin invoked \cup counted
  BY DEF InvokedWithAccess, CallAt
<1>1. CallOK(c)
  BY DEF InvIInv
<1>2. call[c].at \in {"send", "stream", "record", "count"} => c \in entitled
  BY <1>1 DEF CallOK
<1>3. ASSUME call[c].at = "end", ~call[c].left, NEW log \in {invoked, counted}
      PROVE  {o \in {"ok", "error"} : <<c, o>> \in log} = {call[c].outcome} \ {"none"}
  BY <1>1, <1>3 DEF CallOK, Entries
<1>4. ASSUME call[c].outcome = "none", NEW o \in {"ok", "error"}
      PROVE  <<c, o>> \notin invoked \cup counted
  <2>1. Entries(invoked, c) = {} /\ Entries(counted, c) = {}
    BY <1>1, <1>4 DEF CallOK
  <2>2. <<c, o>> \notin invoked /\ <<c, o>> \notin counted
    BY <2>1 DEF Entries
  <2>. QED
    BY <2>2
<1>. QED
  BY <1>2, <1>3, <1>4

-----------------------------------------------------------------------------
(* A row of the table that changes without its agent and user.             *)
LEMMA GrantChanged ==
  ASSUME GrantsOK, NEW g \in Grant, acl[g] # None, NEW row \in GrantRow,
         row.agent = acl[g].agent, row.user = acl[g].user,
         acl' = [acl EXCEPT ![g] = row], UNCHANGED asking
  PROVE  GrantsOK'
<1>1. acl'[g] = row /\ \A f \in Grant \ {g} : acl'[f] = acl[f]
  BY DEF GrantsOK
<1>2. ASSUME NEW f \in Grant, NEW k \in Grant, acl'[f] # None, acl'[k] # None,
             acl'[f].agent = acl'[k].agent, acl'[f].user = acl'[k].user
      PROVE  f = k
  <2>1. /\ acl[f] # None /\ acl'[f].agent = acl[f].agent /\ acl'[f].user = acl[f].user
        /\ acl[k] # None /\ acl'[k].agent = acl[k].agent /\ acl'[k].user = acl[k].user
    BY <1>1, <1>2
  <2>. QED
    BY <1>2, <2>1 DEF GrantsOK
<1>. QED
  BY <1>2 DEF GrantsOK

LEMMA GrantUpdated ==
  ASSUME GrantsOK, NEW g \in Grant, NEW status \in {"approved", "rejected"},
         NEW expires \in {"never", "dated", "expired"}, UpdateGrant(g, status, expires),
         UNCHANGED asking
  PROVE  GrantsOK'
<1>. DEFINE row == [acl[g] EXCEPT !.status = status, !.expires = expires]
<1>1. acl[g] # None /\ acl[g] \in GrantRow /\ acl' = [acl EXCEPT ![g] = row]
  BY DEF UpdateGrant, GrantsOK
<1>2. row \in GrantRow /\ row.agent = acl[g].agent /\ row.user = acl[g].user
  BY <1>1 DEF GrantRow
<1>. HIDE DEF row
<1>. QED
  BY <1>1, <1>2, GrantChanged

LEMMA GrantInserted ==
  ASSUME GrantsOK, NEW h \in Handler, AskCreate(h)
  PROVE  GrantsOK'
<1>. DEFINE ask == asking[h]
            row == [agent |-> ask.agent, user |-> ask.user, status |-> "pending",
                    expires |-> "never"]
<1>1. ask \in [agent : Agent, user : User, grant : Grant]
  BY DEF AskCreate, GrantsOK
<1>2. row \in GrantRow /\ row.agent = ask.agent /\ row.user = ask.user
  BY <1>1 DEF GrantRow
<1>3. /\ acl' = [g \in Grant |-> IF g = ask.grant THEN row
                                 ELSE IF Of(g, ask.agent, ask.user) THEN None ELSE acl[g]]
      /\ asking' = [asking EXCEPT ![h] = None]
  BY DEF AskCreate, GrantCreate
<1>. HIDE DEF ask, row
<1>4. /\ acl'[ask.grant] = row
      /\ \A g \in Grant \ {ask.grant} :
           acl'[g] # None => acl'[g] = acl[g] /\ ~Of(g, ask.agent, ask.user)
  BY <1>1, <1>3
<1>5. ASSUME NEW f \in Grant, NEW g \in Grant, acl'[f] # None, acl'[g] # None,
             acl'[f].agent = acl'[g].agent, acl'[f].user = acl'[g].user
      PROVE  f = g
  BY <1>2, <1>4, <1>5 DEF Of, GrantsOK
<1>6. acl' \in [Grant -> GrantRow \cup {None}]
  BY <1>2, <1>3 DEF GrantsOK
<1>. QED
  BY <1>3, <1>5, <1>6 DEF GrantsOK

(* The steps that touch nothing but the table of requests.                 *)
LEMMA GrantStep ==
  ASSUME GrantsOK, faults \in 0..MaxFaults,
         \/ \E h \in Handler : handleSubmitAccessRequest(h)
         \/ \E g \in Grant :
              handleProviderUpdateAccessRequest(g) \/ RevokeGrant(g) \/ GrantExpires(g)
  PROVE  GrantsOK' /\ faults' \in 0..MaxFaults /\ UNCHANGED <<callVars, worldVars>>
<1>. USE DEF callVars, worldVars
<1>1. ASSUME NEW h \in Handler, NEW a \in Agent, NEW u \in User, NEW g \in Grant,
             AskCheck(h, a, u, g) \/ AskCheckFails(h, a, u, g)
      PROVE  GrantsOK' /\ faults' \in 0..MaxFaults /\ UNCHANGED <<callVars, worldVars>>
  <2>. DEFINE ask == [agent |-> a, user |-> u, grant |-> g]
  <2>1. /\ asking' = [asking EXCEPT ![h] = ask] /\ UNCHANGED acl
        /\ UNCHANGED <<callVars, worldVars>>
    BY <1>1 DEF AskCheck, AskCheckFails, Ask
  <2>2. ask \in [agent : Agent, user : User, grant : Grant]
    OBVIOUS
  <2>. HIDE DEF ask
  <2>3. faults' \in 0..MaxFaults
    BY <1>1, FaultBound DEF AskCheck, AskCheckFails, Fault
  <2>. QED
    BY <2>1, <2>2, <2>3 DEF GrantsOK
<1>2. ASSUME NEW h \in Handler, AskCreate(h)
      PROVE  GrantsOK' /\ faults' \in 0..MaxFaults /\ UNCHANGED <<callVars, worldVars>>
  BY <1>2, GrantInserted DEF AskCreate
<1>3. ASSUME NEW g \in Grant, NEW e \in {"never", "dated", "expired"}, ApproveGrant(g, e)
      PROVE  GrantsOK' /\ faults' \in 0..MaxFaults /\ UNCHANGED <<callVars, worldVars>>
  BY <1>3, GrantUpdated DEF ApproveGrant
<1>4. ASSUME NEW g \in Grant, RejectGrant(g)
      PROVE  GrantsOK' /\ faults' \in 0..MaxFaults /\ UNCHANGED <<callVars, worldVars>>
  BY <1>4, GrantUpdated DEF RejectGrant
<1>5. ASSUME NEW g \in Grant, RevokeGrant(g)
      PROVE  GrantsOK' /\ faults' \in 0..MaxFaults /\ UNCHANGED <<callVars, worldVars>>
  <2>1. /\ acl' = [acl EXCEPT ![g] = None] /\ UNCHANGED <<asking, faults>>
        /\ UNCHANGED <<callVars, worldVars>>
    BY <1>5 DEF RevokeGrant
  <2>2. acl'[g] = None /\ \A f \in Grant \ {g} : acl'[f] = acl[f]
    BY <2>1 DEF GrantsOK
  <2>3. GrantsOK'
    BY <2>1, <2>2 DEF GrantsOK
  <2>. QED
    BY <2>1, <2>3
<1>6. ASSUME NEW g \in Grant, GrantExpires(g)
      PROVE  GrantsOK' /\ faults' \in 0..MaxFaults /\ UNCHANGED <<callVars, worldVars>>
  <2>. DEFINE row == [acl[g] EXCEPT !.expires = "expired"]
  <2>1. /\ acl[g] # None /\ acl' = [acl EXCEPT ![g] = row] /\ UNCHANGED <<asking, faults>>
        /\ UNCHANGED <<callVars, worldVars>>
    BY <1>6 DEF GrantExpires
  <2>2. row \in GrantRow /\ row.agent = acl[g].agent /\ row.user = acl[g].user
    BY <2>1 DEF GrantsOK, GrantRow
  <2>. HIDE DEF row
  <2>. QED
    BY <2>1, <2>2, GrantChanged
<1>. QED
  BY <1>1, <1>2, <1>3, <1>4, <1>5, <1>6
  DEF handleSubmitAccessRequest, handleProviderUpdateAccessRequest

-----------------------------------------------------------------------------
(* Who is entitled stays it, and who has access now becomes it.            *)
LEMMA Entitles ==
  ASSUME Observe
  PROVE  /\ entitled' \in SUBSET Call
         /\ \A c \in Call : c \in entitled => c \in entitled'
         /\ \A c \in Call, a \in Agent, b \in Caller :
              call'[c].agent = a /\ call'[c].caller = b /\ call'[c].at # "end"
              /\ Access(a, b)' => c \in entitled'
  BY DEF Observe

(* An invocation that a step does not touch.                               *)
LEMMA CallKept ==
  ASSUME Observe, NEW c \in Call, CallOK(c), call'[c] = call[c],
         Entries(invoked, c)' = Entries(invoked, c),
         Entries(counted, c)' = Entries(counted, c)
  PROVE  CallOK(c)'
<1>1. c \in entitled => c \in entitled'
  BY Entitles
<1>. QED
  BY <1>1 DEF CallOK

(* A step of one invocation that writes no log.                            *)
LEMMA Moved ==
  ASSUME InvIInv, Observe, NEW c \in Call, NEW row \in CallRow,
         call' = [call EXCEPT ![c] = row], Unrecorded, CallOK(c)'
  PROVE  InvIInv'
<1>0. GrantsOK /\ CallsOK /\ WorldOK /\ faults \in 0..MaxFaults /\ \A d \in Call : CallOK(d)
  BY InvTypeParts DEF InvIInv
<1>1. \A d \in Call \ {c} : call'[d] = call[d]
  BY <1>0 DEF CallsOK
<1>2. UNCHANGED <<invoked, counted, acl, asking, present, open, listed, faults>>
  BY DEF Unrecorded, aclVars, worldVars
<1>3. \A d \in Call : Entries(invoked, d)' = Entries(invoked, d)
                      /\ Entries(counted, d)' = Entries(counted, d)
  BY <1>2 DEF Entries
<1>4. \A d \in Call \ {c} : CallOK(d)'
  BY <1>0, <1>1, <1>3, CallKept
<1>5. GrantsOK' /\ CallsOK' /\ WorldOK' /\ faults' \in 0..MaxFaults
  BY <1>0, <1>2 DEF GrantsOK, CallsOK, WorldOK
<1>6. InvTypeOK'
  BY <1>5, Entitles DEF InvTypeOK, GrantsOK, CallsOK, WorldOK
<1>. QED
  BY <1>4, <1>6 DEF InvIInv

(* A step that only changes the stage of an invocation.                    *)
LEMMA Staged ==
  ASSUME InvIInv, Observe, NEW c \in Call,
         NEW stage \in {"lookup", "limit", "send", "stream", "end"},
         call[c].at \in {"acl", "lookup", "limit", "send"},
         CallGoto(c, stage), Unrecorded,
         stage # "end" => c \in entitled'
  PROVE  InvIInv'
<1>. DEFINE row == [call[c] EXCEPT !.at = stage]
<1>1. /\ call' = [call EXCEPT ![c] = row] /\ call[c] \in CallRow
  BY DEF CallGoto, InvIInv, InvTypeOK
<1>2. /\ row \in CallRow /\ row.at = stage /\ row.caller = call[c].caller
      /\ row.agent = call[c].agent /\ row.outcome = call[c].outcome
      /\ row.left = call[c].left
  BY <1>1 DEF CallRow
<1>. HIDE DEF row
<1>3. call'[c] = row
  BY <1>1 DEF InvIInv, InvTypeOK
<1>4. CallOK(c)
  BY DEF InvIInv
<1>5. /\ Entries(invoked, c)' = Entries(invoked, c)
      /\ Entries(counted, c)' = Entries(counted, c)
  BY DEF Unrecorded, Entries
<1>6. call[c].outcome = "none" /\ Entries(invoked, c) = {} /\ Entries(counted, c) = {}
  BY <1>4 DEF CallOK
<1>7. {call[c].outcome} \ {"none"} = {}
  BY <1>6
<1>8. CallOK(c)'
  BY <1>2, <1>3, <1>4, <1>5, <1>6, <1>7 DEF CallOK
<1>. QED
  BY <1>1, <1>2, <1>8, Moved

LEMMA InvStart == InvInit => InvIInv
<1>. SUFFICES ASSUME InvInit PROVE InvIInv
  OBVIOUS
<1>1. 0 \in 0..MaxFaults /\ NewCall \in CallRow /\ NewCall.at = "new"
      /\ NewCall.outcome = "none"
  BY FaultBound DEF NewCall, CallRow
<1>2. GrantsOK /\ CallsOK /\ WorldOK /\ entitled \in SUBSET Call /\ faults \in 0..MaxFaults
  BY <1>1 DEF InvInit, GrantsOK, CallsOK, WorldOK
<1>3. \A c \in Call : CallOK(c)
  BY <1>1 DEF InvInit, CallOK, Entries
<1>. QED
  BY <1>2, <1>3, InvTypeParts DEF InvIInv

(* The first step of an invocation.                                        *)
LEMMA Begins ==
  ASSUME InvIInv, Observe, NEW c \in Call, NEW a \in Agent, NEW b \in Caller,
         NEW stage \in {"acl", "lookup", "end"}, call[c].at = "new",
         call' = [call EXCEPT ![c] = [@ EXCEPT !.at = stage, !.caller = b, !.agent = a]],
         Unrecorded, stage = "lookup" => Access(a, b)'
  PROVE  InvIInv'
<1>. DEFINE row == [call[c] EXCEPT !.at = stage, !.caller = b, !.agent = a]
<1>1. call' = [call EXCEPT ![c] = row] /\ call[c] \in CallRow
  BY DEF InvIInv, InvTypeOK
<1>2. /\ row \in CallRow /\ row.at = stage /\ row.caller = b /\ row.agent = a
      /\ row.outcome = call[c].outcome /\ row.left = call[c].left
  BY <1>1 DEF CallRow
<1>. HIDE DEF row
<1>3. call'[c] = row
  BY <1>1 DEF InvIInv, InvTypeOK
<1>4. CallOK(c)
  BY DEF InvIInv
<1>5. /\ Entries(invoked, c)' = Entries(invoked, c)
      /\ Entries(counted, c)' = Entries(counted, c)
  BY DEF Unrecorded, Entries
<1>6. call[c].outcome = "none" /\ Entries(invoked, c) = {} /\ Entries(counted, c) = {}
  BY <1>4 DEF CallOK
<1>7. stage = "lookup" => c \in entitled'
  BY <1>2, <1>3, Entitles
<1>8. {call[c].outcome} \ {"none"} = {}
  BY <1>6
<1>9. CallOK(c)'
  BY <1>2, <1>3, <1>5, <1>6, <1>7, <1>8 DEF CallOK
<1>. QED
  BY <1>1, <1>2, <1>9, Moved

(* The bridge returns, or the stream ends.                                 *)
LEMMA Delivers ==
  ASSUME InvIInv, Observe, NEW c \in Call, NEW outcome \in {"ok", "error"},
         call[c].at \in {"send", "stream"},
         call' = [call EXCEPT ![c].at = "record", ![c].outcome = outcome], Unrecorded
  PROVE  InvIInv'
<1>. DEFINE row == [call[c] EXCEPT !.at = "record", !.outcome = outcome]
<1>1. call' = [call EXCEPT ![c] = row] /\ call[c] \in CallRow
  BY DEF InvIInv, InvTypeOK
<1>2. /\ row \in CallRow /\ row.at = "record" /\ row.caller = call[c].caller
      /\ row.agent = call[c].agent /\ row.outcome = outcome /\ row.left = call[c].left
  BY <1>1 DEF CallRow
<1>. HIDE DEF row
<1>3. call'[c] = row
  BY <1>1 DEF InvIInv, InvTypeOK
<1>4. CallOK(c) /\ (c \in entitled => c \in entitled')
  BY Entitles DEF InvIInv
<1>5. /\ Entries(invoked, c)' = Entries(invoked, c)
      /\ Entries(counted, c)' = Entries(counted, c)
  BY DEF Unrecorded, Entries
<1>6. CallOK(c)'
  BY <1>2, <1>3, <1>4, <1>5 DEF CallOK
<1>. QED
  BY <1>1, <1>2, <1>6, Moved

(* The entries of a log that gets one more.                                *)
LEMMA OneMore ==
  ASSUME NEW log, NEW c, NEW o \in {"ok", "error"}, NEW log2, log2 = log \cup {<<c, o>>}
  PROVE  /\ \A d : d # c => Entries(log2, d) = Entries(log, d)
         /\ Entries(log, c) = {} => Entries(log2, c) = {o}
  BY DEF Entries

LEMMA RecordKeeps ==
  ASSUME InvIInv, Observe, NEW c \in Call, Record(c)
  PROVE  InvIInv'
<1>. DEFINE row == [call[c] EXCEPT !.at = "count"]
            o == call[c].outcome
<1>0. GrantsOK /\ CallsOK /\ WorldOK /\ faults \in 0..MaxFaults /\ \A d \in Call : CallOK(d)
  BY InvTypeParts DEF InvIInv
<1>1. /\ call' = [call EXCEPT ![c] = row] /\ call[c] \in CallRow /\ call[c].at = "record"
      /\ invoked' = IF call[c].left THEN invoked ELSE invoked \cup {<<c, o>>}
      /\ UNCHANGED <<counted, acl, asking, present, open, listed, faults>>
  BY <1>0 DEF Record, CallGoto, CallAt, CallsOK, aclVars, worldVars
<1>2. /\ row \in CallRow /\ row.at = "count" /\ row.caller = call[c].caller
      /\ row.agent = call[c].agent /\ row.outcome = o /\ row.left = call[c].left
  BY <1>1 DEF CallRow
<1>3. o \in {"ok", "error"}
  BY <1>0, <1>1 DEF CallOK, CallRow
<1>4. /\ c \in entitled /\ call[c].caller \in Caller /\ call[c].agent \in Agent
      /\ Entries(invoked, c) = {} /\ Entries(counted, c) = {}
  BY <1>0, <1>1 DEF CallOK
<1>. HIDE DEF row, o
<1>5. call'[c] = row /\ \A d \in Call \ {c} : call'[d] = call[d]
  BY <1>0, <1>1 DEF CallsOK
<1>6. /\ \A d \in Call \ {c} : Entries(invoked, d)' = Entries(invoked, d)
      /\ ~call[c].left => Entries(invoked, c)' = {o}
  BY <1>1, <1>3, <1>4, OneMore DEF Entries
<1>7. \A d \in Call : Entries(counted, d)' = Entries(counted, d)
  BY <1>1 DEF Entries
<1>8. \A d \in Call \ {c} : CallOK(d)'
  BY <1>0, <1>5, <1>6, <1>7, CallKept
<1>9. {o} \ {"none"} = {o}
  BY <1>3
<1>10. CallOK(c)'
  BY <1>2, <1>3, <1>4, <1>5, <1>6, <1>7, <1>9, Entitles DEF CallOK
<1>11. CallsOK' /\ GrantsOK' /\ WorldOK' /\ faults' \in 0..MaxFaults
  BY <1>0, <1>1, <1>2, <1>3 DEF CallsOK, GrantsOK, WorldOK
<1>12. InvTypeOK'
  BY <1>11, Entitles DEF InvTypeOK, GrantsOK, CallsOK, WorldOK
<1>. QED
  BY <1>8, <1>10, <1>12 DEF InvIInv

LEMMA CountKeeps ==
  ASSUME InvIInv, Observe, NEW c \in Call, Count(c)
  PROVE  InvIInv'
<1>. DEFINE row == [call[c] EXCEPT !.at = "end"]
            o == call[c].outcome
<1>0. GrantsOK /\ CallsOK /\ WorldOK /\ faults \in 0..MaxFaults /\ \A d \in Call : CallOK(d)
  BY InvTypeParts DEF InvIInv
<1>1. /\ call' = [call EXCEPT ![c] = row] /\ call[c] \in CallRow /\ call[c].at = "count"
      /\ counted' = IF call[c].left THEN counted ELSE counted \cup {<<c, o>>}
      /\ UNCHANGED <<invoked, acl, asking, present, open, listed, faults>>
  BY <1>0 DEF Count, CallGoto, CallAt, CallsOK, aclVars, worldVars
<1>2. /\ row \in CallRow /\ row.at = "end" /\ row.caller = call[c].caller
      /\ row.agent = call[c].agent /\ row.outcome = o /\ row.left = call[c].left
  BY <1>1 DEF CallRow
<1>3. o \in {"ok", "error"}
  BY <1>0, <1>1 DEF CallOK, CallRow
<1>4. /\ call[c].caller \in Caller /\ call[c].agent \in Agent
      /\ Entries(counted, c) = {}
      /\ ~call[c].left => Entries(invoked, c) = {o} \ {"none"}
  BY <1>0, <1>1 DEF CallOK
<1>. HIDE DEF row, o
<1>5. call'[c] = row /\ \A d \in Call \ {c} : call'[d] = call[d]
  BY <1>0, <1>1 DEF CallsOK
<1>6. /\ \A d \in Call \ {c} : Entries(counted, d)' = Entries(counted, d)
      /\ ~call[c].left => Entries(counted, c)' = {o}
  BY <1>1, <1>3, <1>4, OneMore DEF Entries
<1>7. \A d \in Call : Entries(invoked, d)' = Entries(invoked, d)
  BY <1>1 DEF Entries
<1>8. \A d \in Call \ {c} : CallOK(d)'
  BY <1>0, <1>5, <1>6, <1>7, CallKept
<1>9. {o} \ {"none"} = {o} /\ o # "none"
  BY <1>3
<1>10. CallOK(c)'
  BY <1>2, <1>3, <1>4, <1>5, <1>6, <1>7, <1>9 DEF CallOK
<1>11. CallsOK' /\ GrantsOK' /\ WorldOK' /\ faults' \in 0..MaxFaults
  BY <1>0, <1>1, <1>2, <1>3 DEF CallsOK, GrantsOK, WorldOK
<1>12. InvTypeOK'
  BY <1>11, Entitles DEF InvTypeOK, GrantsOK, CallsOK, WorldOK
<1>. QED
  BY <1>8, <1>10, <1>12 DEF InvIInv

LEMMA LeaveKeeps ==
  ASSUME InvIInv, Observe, NEW c \in Call, Leave(c)
  PROVE  InvIInv'
<1>. DEFINE row == [call[c] EXCEPT !.left = TRUE]
<1>1. /\ call' = [call EXCEPT ![c] = row] /\ call[c] \in CallRow /\ call[c].at # "end"
      /\ Unrecorded
  BY DEF Leave, InvIInv, InvTypeOK
<1>2. /\ row \in CallRow /\ row.at = call[c].at /\ row.caller = call[c].caller
      /\ row.agent = call[c].agent /\ row.outcome = call[c].outcome /\ row.left = TRUE
  BY <1>1 DEF CallRow
<1>. HIDE DEF row
<1>3. call'[c] = row
  BY <1>1 DEF InvIInv, InvTypeOK
<1>4. CallOK(c) /\ (c \in entitled => c \in entitled')
  BY Entitles DEF InvIInv
<1>5. /\ Entries(invoked, c)' = Entries(invoked, c)
      /\ Entries(counted, c)' = Entries(counted, c)
  BY <1>1 DEF Unrecorded, Entries
<1>6. CallOK(c)'
  BY <1>2, <1>3, <1>4, <1>5 DEF CallOK
<1>. QED
  BY <1>1, <1>2, <1>6, Moved

(* Steps that touch no invocation.                                         *)
LEMMA Elsewhere ==
  ASSUME InvIInv, UNCHANGED callVars, GrantsOK', WorldOK', faults' \in 0..MaxFaults,
         Observe \/ UNCHANGED entitled
  PROVE  InvIInv'
<1>0. CallsOK /\ entitled \in SUBSET Call /\ \A c \in Call : CallOK(c)
  BY InvTypeParts DEF InvIInv
<1>1. /\ entitled' \in SUBSET Call
      /\ \A c \in Call : c \in entitled => c \in entitled'
  BY <1>0, Entitles
<1>2. CallsOK'
  BY <1>0 DEF callVars, CallsOK
<1>3. \A c \in Call : CallOK(c)'
  BY <1>0, <1>1 DEF callVars, CallOK, Entries
<1>4. InvTypeOK'
  BY <1>1, <1>2 DEF InvTypeOK, GrantsOK, CallsOK, WorldOK
<1>. QED
  BY <1>3, <1>4 DEF InvIInv

(* An approved request that has not expired gives access.                  *)
LEMMA GrantGivesAccess ==
  ASSUME GrantsOK, acl' = acl, NEW a \in Agent, NEW b \in Caller, Allowed(a, b)
  PROVE  Access(a, b)'
<1>1. PICK g \in Grant : /\ Of(g, a, b) /\ acl[g].status = "approved"
                         /\ acl[g].expires # "expired"
  BY DEF Allowed
<1>2. acl[g].expires \in {"never", "dated"}
  BY <1>1 DEF Of, GrantsOK, GrantRow
<1>. QED
  BY <1>1, <1>2 DEF Access, Of

LEMMA InvStepKeeps == InvIInv /\ [InvNext]_invVars => InvIInv'
<1>. SUFFICES ASSUME InvIInv, [InvNext]_invVars PROVE InvIInv'
  OBVIOUS
<1>0. /\ GrantsOK /\ CallsOK /\ WorldOK /\ faults \in 0..MaxFaults
      /\ \A c \in Call : CallOK(c)
  BY InvTypeParts DEF InvIInv
<1>1. CASE UNCHANGED invVars
  <2>1. /\ UNCHANGED callVars /\ UNCHANGED entitled
        /\ UNCHANGED <<acl, asking, present, open, listed, faults>>
    BY <1>1 DEF invVars, callVars
  <2>2. GrantsOK' /\ WorldOK' /\ faults' \in 0..MaxFaults
    BY <1>0, <2>1 DEF GrantsOK, WorldOK
  <2>. QED
    BY <2>1, <2>2, Elsewhere
<1>2. ASSUME Observe,
             \/ \E h \in Handler : handleSubmitAccessRequest(h)
             \/ \E g \in Grant :
                  handleProviderUpdateAccessRequest(g) \/ RevokeGrant(g) \/ GrantExpires(g)
      PROVE  InvIInv'
  <2>1. GrantsOK' /\ faults' \in 0..MaxFaults /\ UNCHANGED <<callVars, worldVars>>
    BY <1>0, <1>2, GrantStep
  <2>2. WorldOK'
    BY <1>0, <2>1 DEF worldVars, WorldOK
  <2>. QED
    BY <1>2, <2>1, <2>2, Elsewhere
<1>3. ASSUME Observe, World
      PROVE  InvIInv'
  <2>1. UNCHANGED callVars /\ UNCHANGED <<acl, asking, faults>>
    BY <1>3 DEF World, aclVars
  <2>2. WorldOK'
    BY <1>0, <1>3 DEF World, WorldOK
  <2>3. GrantsOK' /\ faults' \in 0..MaxFaults
    BY <1>0, <2>1 DEF GrantsOK
  <2>. QED
    BY <1>3, <2>1, <2>2, <2>3, Elsewhere
<1>4. ASSUME Observe, NEW c \in Call, NEW a \in Agent, NEW b \in Peer, InvokeByAgent(c, a, b)
      PROVE  InvIInv'
  <2>. DEFINE stage == IF <<a, b>> \in listed THEN "lookup" ELSE "end"
  <2>1. /\ call[c].at = "new" /\ Unrecorded
        /\ call' = [call EXCEPT ![c] = [@ EXCEPT !.at = stage, !.caller = b, !.agent = a]]
    BY <1>4 DEF InvokeByAgent, CallAt
  <2>2. stage = "lookup" => Access(a, b)'
    BY <2>1 DEF Unrecorded, worldVars, Access
  <2>3. stage \in {"acl", "lookup", "end"} /\ b \in Caller
    BY DEF Caller
  <2>. HIDE DEF stage
  <2>. QED
    BY <1>4, <2>1, <2>2, <2>3, Begins
<1>5. ASSUME Observe, NEW c \in Call, NEW a \in Agent, NEW u \in User, InvokeByUser(c, a, u)
      PROVE  InvIInv'
  <2>. DEFINE stage == IF a \notin present THEN "end" ELSE IF a \in open THEN "lookup" ELSE "acl"
  <2>1. /\ call[c].at = "new" /\ Unrecorded
        /\ call' = [call EXCEPT ![c] = [@ EXCEPT !.at = stage, !.caller = u, !.agent = a]]
    BY <1>5 DEF InvokeByUser, CallAt
  <2>2. stage = "lookup" => Access(a, u)'
    BY <2>1 DEF Unrecorded, worldVars, Access
  <2>3. stage \in {"acl", "lookup", "end"} /\ u \in Caller
    BY DEF Caller
  <2>. HIDE DEF stage
  <2>. QED
    BY <1>5, <2>1, <2>2, <2>3, Begins
<1>6. ASSUME Observe, NEW c \in Call, CheckAcl(c)
      PROVE  InvIInv'
  <2>. DEFINE stage == IF Allowed(call[c].agent, call[c].caller) /\ ~call[c].left
                       THEN "lookup" ELSE "end"
  <2>1. call[c].at = "acl" /\ Unrecorded /\ CallGoto(c, stage)
    BY <1>6 DEF CheckAcl, CallAt
  <2>2. PICK a \in Agent, b \in Caller : call[c].agent = a /\ call[c].caller = b
    BY <1>0, <2>1 DEF CallOK
  <2>3. stage # "end" => Allowed(a, b)
    BY <2>2
  <2>4. stage \in {"lookup", "limit", "send", "stream", "end"}
    OBVIOUS
  <2>. HIDE DEF stage
  <2>5. /\ call'[c].agent = a /\ call'[c].caller = b /\ call'[c].at = stage
    BY <1>0, <2>1, <2>2 DEF CallGoto, CallsOK, CallRow
  <2>6. acl' = acl
    BY <2>1 DEF Unrecorded, aclVars
  <2>7. Allowed(a, b) => Access(a, b)'
    BY <1>0, <2>6, GrantGivesAccess
  <2>8. stage # "end" => c \in entitled'
    BY <1>6, <2>3, <2>5, <2>7, Entitles
  <2>. QED
    BY <1>6, <2>1, <2>4, <2>8, Staged
<1>7. ASSUME Observe, NEW c \in Call, LookUp(c)
      PROVE  InvIInv'
  <2>. DEFINE stage == IF call[c].agent \notin present \/ call[c].left THEN "end"
                       ELSE IF call[c].caller \in User THEN "limit" ELSE "send"
  <2>1. call[c].at = "lookup" /\ Unrecorded /\ CallGoto(c, stage)
    BY <1>7 DEF LookUp, CallAt
  <2>2. c \in entitled'
    BY <1>0, <1>7, <2>1, Entitles DEF CallOK
  <2>3. stage \in {"lookup", "limit", "send", "stream", "end"}
    OBVIOUS
  <2>. HIDE DEF stage
  <2>. QED
    BY <1>7, <2>1, <2>2, <2>3, Staged
<1>8. ASSUME Observe, NEW c \in Call, NEW pass \in BOOLEAN, Limit(c, pass)
      PROVE  InvIInv'
  <2>. DEFINE stage == IF pass THEN "send" ELSE "end"
  <2>1. call[c].at = "limit" /\ Unrecorded /\ CallGoto(c, stage)
    BY <1>8 DEF Limit, CallAt
  <2>2. c \in entitled'
    BY <1>0, <1>8, <2>1, Entitles DEF CallOK
  <2>3. stage \in {"lookup", "limit", "send", "stream", "end"}
    OBVIOUS
  <2>. HIDE DEF stage
  <2>. QED
    BY <1>8, <2>1, <2>2, <2>3, Staged
<1>9. ASSUME Observe, NEW c \in Call, OpenStream(c)
      PROVE  InvIInv'
  <2>1. call[c].at = "send" /\ Unrecorded /\ CallGoto(c, "stream")
    BY <1>9 DEF OpenStream, CallAt
  <2>2. c \in entitled'
    BY <1>0, <1>9, <2>1, Entitles DEF CallOK
  <2>. QED
    BY <1>9, <2>1, <2>2, Staged
<1>10. ASSUME Observe, NEW c \in Call, NEW o \in {"ok", "error"}, Send(c, o) \/ EndStream(c, o)
       PROVE  InvIInv'
  BY <1>10, Delivers DEF Send, EndStream, CallAt
<1>11. ASSUME Observe, NEW c \in Call, Record(c) \/ Count(c) \/ Leave(c)
       PROVE  InvIInv'
  BY <1>11, RecordKeeps, CountKeeps, LeaveKeeps
<1>12. ASSUME Observe, NEW c \in Call, handleInvoke(c) \/ handleInvokeSSE(c) \/ Leave(c)
       PROVE  InvIInv'
  BY <1>4, <1>5, <1>6, <1>7, <1>8, <1>9, <1>10, <1>11, <1>12
  DEF handleInvoke, handleInvokeSSE, Conclude
<1>. QED
  BY <1>1, <1>2, <1>3, <1>12 DEF InvNext, InvStep

LEMMA InvInductive == InvSpec => []InvIInv
  BY InvStart, InvStepKeeps, PTL DEF InvSpec

(* The requests for access, the invocations and the logs stay well formed, *)
(* with one request for each agent and user (SubmitRequest, Create).       *)
THEOREM InvokeTypes == InvSpec => []InvTypeOK
<1>1. InvIInv => InvTypeOK
  BY DEF InvIInv
<1>. QED
  BY <1>1, InvInductive, PTL

(* Whoever is let through to the bridge had access since it asked, and the *)
(* logs have each invocation once (handleInvoke, handleInvokeSSE).         *)
THEOREM InvokeSafe == InvSpec => []InvokedWithAccess
  BY InvInductive, AccessSafe, PTL

-----------------------------------------------------------------------------
(* Accounts (internal/userauth).                                           *)
-----------------------------------------------------------------------------
(* Who is at work has a user and a row; an id in the making is nobody      *)
(* else's.                                                                 *)
EditorInv ==
  \A h \in Handler :
    /\ editor[h].at # "idle" => editor[h].user \in Account /\ editor[h].row \in UserRow
    /\ editor[h].at = "create" =>
         /\ users[editor[h].user] = None
         /\ \A g \in Handler \ {h} : editor[g].user # editor[h].user

AccIInv == AccTypeOK /\ EditorInv /\ EmailsApart

(* What a step does to the users, in terms of the row it writes.           *)
Written(u, row) ==
  \/ users' = users
  \/ ~Taken(row.email, u) /\ users' = [users EXCEPT ![u] = row]

LEMMA WrittenKeeps ==
  ASSUME AccTypeOK, EmailsApart, NEW u \in Account, NEW row \in UserRow, Written(u, row)
  PROVE  /\ users' \in [Account -> UserRow \cup {None}] /\ EmailsApart'
         /\ \A v \in Account \ {u} : users'[v] = users[v]
<1>1. CASE users' = users
  BY <1>1 DEF AccTypeOK, EmailsApart
<1>2. CASE ~Taken(row.email, u) /\ users' = [users EXCEPT ![u] = row]
  <2>1. users'[u] = row /\ \A v \in Account \ {u} : users'[v] = users[v]
    BY <1>2 DEF AccTypeOK
  <2>2. \A v \in Account \ {u} : users[v] # None => users[v].email # row.email
    BY <1>2 DEF Taken, GetUserByEmail
  <2>3. EmailsApart'
    BY <2>1, <2>2 DEF EmailsApart
  <2>. QED
    BY <1>2, <2>1, <2>3 DEF AccTypeOK
<1>. QED
  BY <1>1, <1>2 DEF Written

(* A goroutine that is done.                                               *)
Done(h) == editor' = [editor EXCEPT ![h] = NoEdit]

LEMMA WriteKeeps ==
  ASSUME AccIInv, NEW h \in Handler, NEW row \in UserRow,
         editor[h].at # "idle", Written(editor[h].user, row), Done(h),
         editor[h].at # "create" => users[editor[h].user] # None \/ users' = users,
         UNCHANGED faults
  PROVE  AccIInv'
<1>0. AccTypeOK /\ EditorInv /\ EmailsApart
  BY DEF AccIInv
<1>1. editor[h].user \in Account
  BY <1>0 DEF EditorInv
<1>2. /\ users' \in [Account -> UserRow \cup {None}] /\ EmailsApart'
      /\ \A v \in Account \ {editor[h].user} : users'[v] = users[v]
  BY <1>0, <1>1, WrittenKeeps
<1>3. /\ editor'[h] = NoEdit /\ editor' \in [Handler -> Editing]
      /\ \A g \in Handler \ {h} : editor'[g] = editor[g]
  BY <1>0 DEF Done, AccTypeOK, NoEdit, Editing
<1>4. NoEdit.at = "idle" /\ NoEdit.user = None /\ None \notin Account
  BY AdminsHaveEmail DEF NoEdit
<1>5. EditorInv'
  <2>1. ASSUME NEW g \in Handler, editor'[g].at # "idle"
        PROVE  editor'[g].user \in Account /\ editor'[g].row \in UserRow
    BY <1>0, <1>3, <1>4, <2>1 DEF EditorInv
  <2>2. ASSUME NEW g \in Handler, editor'[g].at = "create"
        PROVE  /\ users'[editor'[g].user] = None
               /\ \A k \in Handler \ {g} : editor'[k].user # editor'[g].user
    <3>1. g # h /\ editor'[g] = editor[g]
      BY <1>3, <1>4, <2>2
    <3>2. /\ users[editor[g].user] = None /\ editor[g].user \in Account
          /\ \A k \in Handler \ {g} : editor[k].user # editor[g].user
      BY <1>0, <2>2, <3>1 DEF EditorInv
    <3>3. editor[g].user # editor[h].user
      BY <3>1, <3>2
    <3>4. users'[editor[g].user] = None
      BY <1>2, <3>2, <3>3
    <3>. QED
      BY <1>3, <1>4, <3>1, <3>2, <3>4
  <2>. QED
    BY <2>1, <2>2 DEF EditorInv
<1>. QED
  BY <1>0, <1>2, <1>3, <1>5 DEF AccIInv, AccTypeOK

(* A goroutine that reads a user's row.                                    *)
LEMMA ReadKeeps ==
  ASSUME AccIInv, NEW h \in Handler, NEW u \in Account, NEW task \in WholeRow \cup {"verify"},
         ReadUser(h, u, task)
  PROVE  AccIInv'
<1>. DEFINE next == [at |-> task, user |-> u, row |-> users[u]]
<1>0. AccTypeOK /\ EditorInv /\ EmailsApart
  BY DEF AccIInv
<1>1. /\ users[u] \in UserRow /\ editor' = [editor EXCEPT ![h] = next]
      /\ users[u] # None /\ UNCHANGED <<users, faults>>
  BY <1>0 DEF ReadUser, AccTypeOK
<1>2. /\ next \in Editing /\ next.at = task /\ next.user = u /\ next.row = users[u]
      /\ task \notin {"idle", "create"}
  BY <1>1 DEF Editing, WholeRow
<1>. HIDE DEF next
<1>3. editor'[h] = next /\ \A g \in Handler \ {h} : editor'[g] = editor[g]
  BY <1>0, <1>1 DEF AccTypeOK
<1>4. EditorInv'
  BY <1>0, <1>1, <1>2, <1>3 DEF EditorInv
<1>. QED
  BY <1>0, <1>1, <1>2, <1>4 DEF AccIInv, AccTypeOK, EmailsApart

LEMMA RegisterKeeps ==
  ASSUME AccIInv, NEW h \in Handler, NEW u \in Account, NEW e \in Email, RegisterBy(h, u, e),
         UNCHANGED <<users, faults>>
  PROVE  AccIInv'
<1>. DEFINE row == [email |-> e, password |-> "first",
                    role |-> IF e \in AdminEmail THEN "admin" ELSE "user",
                    verified |-> ~SendsEmail]
            next == [at |-> "create", user |-> u, row |-> row]
<1>0. AccTypeOK /\ EditorInv /\ EmailsApart
  BY DEF AccIInv
<1>1. /\ users[u] = None /\ \A g \in Handler : editor[g].user # u
      /\ editor' = [editor EXCEPT ![h] = next]
  BY DEF RegisterBy
<1>2. row \in UserRow
  <2>1. ~SendsEmail = TRUE \/ ~SendsEmail = FALSE
    BY SenderChoice
  <2>. QED
    BY <2>1 DEF UserRow
<1>. HIDE DEF row
<1>3. next \in Editing /\ next.at = "create" /\ next.user = u /\ next.row = row
  BY <1>2 DEF Editing
<1>. HIDE DEF next
<1>4. editor'[h] = next /\ \A g \in Handler \ {h} : editor'[g] = editor[g]
  BY <1>0, <1>1 DEF AccTypeOK
<1>5. EditorInv'
  BY <1>0, <1>1, <1>2, <1>3, <1>4 DEF EditorInv
<1>. QED
  BY <1>0, <1>1, <1>3, <1>5 DEF AccIInv, AccTypeOK, EmailsApart

-----------------------------------------------------------------------------
(* The step of a request that writes a whole row.                          *)
WritesRow(h, row) ==
  /\ \/ \E e \in Email : UpdateProfile(h, e) /\ row = [editor[h].row EXCEPT !.email = e]
     \/ \E p \in {"first", "second"} :
          /\ ChangePassword(h, p) \/ ResetPassword(h, p)
          /\ row = [editor[h].row EXCEPT !.password = p]
     \/ \E r \in {"user", "admin"} :
          /\ UpdateRole(h, r) \/ (LoginPromote(h) /\ r = "admin")
          /\ row = [editor[h].row EXCEPT !.role = r]

(* It is at one of the stages of WholeRow; a column in which the row it    *)
(* writes differs from the one it read is one it was asked for.            *)
LEMMA RowWritten ==
  ASSUME AccIInv, NEW h \in Handler, NEW row, WritesRow(h, row)
  PROVE  /\ row \in UserRow /\ editor[h].at \in WholeRow
         /\ UpdateUser(editor[h].user, row) /\ Done(h) /\ UNCHANGED faults
         /\ \A column \in {"email", "password", "role", "verified"} :
              row[column] # editor[h].row[column] => Asks(editor[h].at, column)
<1>0. editor[h].at # "idle" => editor[h].row \in UserRow
  BY DEF AccIInv, EditorInv
<1>1. ASSUME NEW e \in Email, UpdateProfile(h, e), row = [editor[h].row EXCEPT !.email = e]
      PROVE  /\ row \in UserRow /\ editor[h].at = "profile"
             /\ UpdateUser(editor[h].user, row) /\ Done(h) /\ UNCHANGED faults
             /\ \A column \in {"password", "role", "verified"} :
                  row[column] = editor[h].row[column]
  BY <1>0, <1>1 DEF UpdateProfile, Write, Done, UserRow
<1>2. ASSUME NEW p \in {"first", "second"}, ChangePassword(h, p) \/ ResetPassword(h, p),
             row = [editor[h].row EXCEPT !.password = p]
      PROVE  /\ row \in UserRow /\ editor[h].at \in {"password", "reset"}
             /\ UpdateUser(editor[h].user, row) /\ Done(h) /\ UNCHANGED faults
             /\ \A column \in {"email", "role", "verified"} :
                  row[column] = editor[h].row[column]
  BY <1>0, <1>2 DEF ChangePassword, ResetPassword, Write, Done, UserRow
<1>3. ASSUME NEW r \in {"user", "admin"}, UpdateRole(h, r) \/ (LoginPromote(h) /\ r = "admin"),
             row = [editor[h].row EXCEPT !.role = r]
      PROVE  /\ row \in UserRow /\ editor[h].at \in {"role", "promote"}
             /\ UpdateUser(editor[h].user, row) /\ Done(h) /\ UNCHANGED faults
             /\ \A column \in {"email", "password", "verified"} :
                  row[column] = editor[h].row[column]
  BY <1>0, <1>3 DEF UpdateRole, LoginPromote, Write, Done, UserRow
<1>4. CASE \E e \in Email : UpdateProfile(h, e) /\ row = [editor[h].row EXCEPT !.email = e]
  BY <1>1, <1>4 DEF Asks, WholeRow
<1>5. CASE \E p \in {"first", "second"} :
             /\ ChangePassword(h, p) \/ ResetPassword(h, p)
             /\ row = [editor[h].row EXCEPT !.password = p]
  BY <1>2, <1>5 DEF Asks, WholeRow
<1>6. CASE \E r \in {"user", "admin"} :
             /\ UpdateRole(h, r) \/ (LoginPromote(h) /\ r = "admin")
             /\ row = [editor[h].row EXCEPT !.role = r]
  BY <1>3, <1>6 DEF Asks, WholeRow
<1>. QED
  BY <1>4, <1>5, <1>6 DEF WritesRow

(* The steps of the module, by what they do to a row.                      *)
LEMMA AccSteps ==
  ASSUME AccNext
  PROVE  \/ \E h \in Handler, u \in Account, e \in Email :
              RegisterBy(h, u, e) /\ UNCHANGED <<users, faults>>
         \/ \E h \in Handler : RegisterCreate(h) \/ VerifyEmail(h)
         \/ \E h \in Handler, u \in Account, task \in WholeRow \cup {"verify"} :
              ReadUser(h, u, task)
         \/ \E h \in Handler : \E row : WritesRow(h, row)
         \/ \E u \in Account : DeleteUser(u)
<1>1. ASSUME NEW h \in Handler, handleAuthRegister(h)
      PROVE  \/ RegisterCreate(h)
             \/ \E u \in Account, e \in Email :
                  RegisterBy(h, u, e) /\ UNCHANGED <<users, faults>>
  BY <1>1 DEF handleAuthRegister, RegisterCheck, RegisterCheckFails
<1>2. ASSUME NEW h \in Handler,
             handleAuthLogin(h) \/ handleAuthUpdateMe(h) \/ handleAuthChangePassword(h)
               \/ handleAuthResetPassword(h) \/ handleAdminUpdateUserRole(h)
      PROVE  \/ \E u \in Account, task \in WholeRow : ReadUser(h, u, task)
             \/ \E row : WritesRow(h, row)
  <2>1. CASE handleAuthLogin(h)
    BY <2>1 DEF handleAuthLogin, LoginRead, WholeRow, WritesRow
  <2>2. CASE handleAuthUpdateMe(h)
    BY <2>2 DEF handleAuthUpdateMe, UpdateProfileRead, WholeRow, WritesRow
  <2>3. CASE handleAuthChangePassword(h)
    BY <2>3 DEF handleAuthChangePassword, ChangePasswordRead, WholeRow, WritesRow
  <2>4. CASE handleAuthResetPassword(h)
    BY <2>4 DEF handleAuthResetPassword, ResetRead, WholeRow, WritesRow
  <2>5. CASE handleAdminUpdateUserRole(h)
    <3>1. CASE \E u \in Account : UpdateRoleRead(h, u)
      BY <3>1 DEF UpdateRoleRead, WholeRow
    <3>2. ASSUME NEW r \in {"user", "admin"}, UpdateRole(h, r)
          PROVE  WritesRow(h, [editor[h].row EXCEPT !.role = r])
      BY <3>2 DEF WritesRow
    <3>. QED
      BY <2>5, <3>1, <3>2 DEF handleAdminUpdateUserRole
  <2>. QED
    BY <1>2, <2>1, <2>2, <2>3, <2>4, <2>5
<1>3. ASSUME NEW h \in Handler, handleAuthVerifyEmail(h)
      PROVE  VerifyEmail(h) \/ \E u \in Account : ReadUser(h, u, "verify")
  BY <1>3 DEF handleAuthVerifyEmail, VerifyRead
<1>. QED
  BY <1>1, <1>2, <1>3 DEF AccNext

LEMMA AccStart == AccInit => AccIInv
<1>1. ASSUME AccInit PROVE 0 \in 0..MaxFaults
  BY FaultBound
<1>2. ASSUME AccInit PROVE EditorInv /\ EmailsApart
  BY <1>2 DEF AccInit, EditorInv, EmailsApart, NoEdit
<1>. QED
  BY <1>1, <1>2 DEF AccInit, AccIInv, AccTypeOK, NoEdit, Editing

(* Verifying an address writes one column of a row that is there.          *)
LEMMA VerifyWrites ==
  ASSUME AccIInv, NEW h \in Handler, VerifyEmail(h)
  PROVE  LET u == editor[h].user
         IN  /\ editor[h].at = "verify" /\ Done(h) /\ UNCHANGED faults
             /\ \/ users' = users
                \/ \E row \in UserRow :
                     /\ users[u] \in UserRow /\ ~Taken(row.email, u)
                     /\ users' = [users EXCEPT ![u] = row]
                     /\ \A column \in {"email", "password", "role"} :
                          row[column] = users[u][column]
                     /\ users[u] # None
<1>. DEFINE u == editor[h].user
            row == [users[u] EXCEPT !.verified = TRUE]
<1>0. AccTypeOK /\ EditorInv /\ EmailsApart
  BY DEF AccIInv
<1>1. /\ editor[h].at = "verify" /\ Done(h) /\ UNCHANGED faults
      /\ users' = IF users[u] = None THEN users ELSE [users EXCEPT ![u] = row]
  BY DEF VerifyEmail, SetEmailVerified, Done
<1>2. u \in Account
  BY <1>0, <1>1 DEF EditorInv
<1>3. CASE users[u] = None
  BY <1>1, <1>3
<1>4. CASE users[u] # None
  <2>1. users[u] \in UserRow
    BY <1>0, <1>2, <1>4 DEF AccTypeOK
  <2>2. /\ row \in UserRow /\ row.email = users[u].email
        /\ \A column \in {"email", "password", "role"} : row[column] = users[u][column]
    BY <2>1 DEF UserRow
  <2>. HIDE DEF row, u
  <2>3. ~Taken(row.email, u)
    BY <1>0, <1>2, <1>4, <2>2 DEF Taken, GetUserByEmail, EmailsApart
  <2>4. users' = [users EXCEPT ![u] = row]
    BY <1>1, <1>4
  <2>5. \E new \in UserRow :
          /\ users[u] \in UserRow /\ ~Taken(new.email, u)
          /\ users' = [users EXCEPT ![u] = new]
          /\ \A column \in {"email", "password", "role"} : new[column] = users[u][column]
          /\ users[u] # None
    BY <1>4, <2>1, <2>2, <2>3, <2>4
  <2>. QED
    BY <1>1, <2>5 DEF u
<1>. QED
  BY <1>3, <1>4

LEMMA AccStep == AccIInv /\ [AccNext]_accVars => AccIInv'
<1>. SUFFICES ASSUME AccIInv, [AccNext]_accVars PROVE AccIInv'
  OBVIOUS
<1>0. AccTypeOK /\ EditorInv /\ EmailsApart
  BY DEF AccIInv
<1>1. ASSUME NEW h \in Handler, NEW u \in Account, NEW e \in Email,
             RegisterBy(h, u, e), UNCHANGED <<users, faults>>
      PROVE  AccIInv'
  BY <1>1, RegisterKeeps
<1>2. ASSUME NEW h \in Handler, RegisterCreate(h)
      PROVE  AccIInv'
  <2>1. /\ editor[h].at = "create" /\ Done(h) /\ UNCHANGED faults
        /\ Written(editor[h].user, editor[h].row)
    BY <1>2 DEF RegisterCreate, CreateUser, Done, Written
  <2>2. editor[h].row \in UserRow
    BY <1>0, <2>1 DEF EditorInv
  <2>. QED
    BY <2>1, <2>2, WriteKeeps
<1>3. ASSUME NEW h \in Handler, VerifyEmail(h)
      PROVE  AccIInv'
  <2>1. /\ editor[h].at = "verify" /\ Done(h) /\ UNCHANGED faults
        /\ \/ users' = users
           \/ \E row \in UserRow :
                /\ Written(editor[h].user, row) /\ users[editor[h].user] # None
    BY <1>3, VerifyWrites DEF Written
  <2>2. editor[h].row \in UserRow
    BY <1>0, <2>1 DEF EditorInv
  <2>3. CASE users' = users
    BY <2>1, <2>2, <2>3, WriteKeeps DEF Written
  <2>4. ASSUME NEW row \in UserRow, Written(editor[h].user, row), users[editor[h].user] # None
        PROVE  AccIInv'
    BY <2>1, <2>4, WriteKeeps
  <2>. QED
    BY <2>1, <2>3, <2>4
<1>4. ASSUME NEW h \in Handler, NEW u \in Account, NEW task \in WholeRow \cup {"verify"},
             ReadUser(h, u, task)
      PROVE  AccIInv'
  BY <1>4, ReadKeeps
<1>5. ASSUME NEW h \in Handler, NEW row, WritesRow(h, row)
      PROVE  AccIInv'
  <2>1. /\ row \in UserRow /\ editor[h].at \in WholeRow /\ Done(h) /\ UNCHANGED faults
        /\ UpdateUser(editor[h].user, row)
    BY <1>5, RowWritten
  <2>2. /\ Written(editor[h].user, row) /\ editor[h].at # "idle"
        /\ users[editor[h].user] # None \/ users' = users
    BY <2>1 DEF UpdateUser, Written, WholeRow
  <2>. QED
    BY <2>1, <2>2, WriteKeeps
<1>6. ASSUME NEW u \in Account, DeleteUser(u)
      PROVE  AccIInv'
  <2>1. /\ users[u] # None /\ users' = [users EXCEPT ![u] = None]
        /\ UNCHANGED <<editor, faults>>
    BY <1>6 DEF DeleteUser
  <2>2. users'[u] = None /\ \A v \in Account \ {u} : users'[v] = users[v]
    BY <1>0, <2>1 DEF AccTypeOK
  <2>3. AccTypeOK'
    BY <1>0, <2>1 DEF AccTypeOK
  <2>4. EditorInv'
    BY <1>0, <2>1, <2>2 DEF EditorInv
  <2>5. EmailsApart'
    BY <1>0, <2>2 DEF EmailsApart
  <2>. QED
    BY <2>3, <2>4, <2>5 DEF AccIInv
<1>7. CASE UNCHANGED accVars
  BY <1>0, <1>7 DEF accVars, AccIInv, AccTypeOK, EditorInv, EmailsApart
<1>. QED
  BY <1>1, <1>2, <1>3, <1>4, <1>5, <1>6, <1>7, AccSteps

LEMMA AccInductive == AccSpec => []AccIInv
  BY AccStart, AccStep, PTL DEF AccSpec

(* The users and the goroutines that edit them stay well formed.           *)
THEOREM AccountTypes == AccSpec => []AccTypeOK
<1>1. AccIInv => AccTypeOK
  BY DEF AccIInv
<1>. QED
  BY <1>1, AccInductive, PTL

(* No two accounts ever have one address, whatever is looked up and        *)
(* written between (Register, UpdateProfile).                              *)
THEOREM EmailSafe == AccSpec => []EmailsApart
<1>1. AccIInv => EmailsApart
  BY DEF AccIInv
<1>. QED
  BY <1>1, AccInductive, PTL

(* The steps that change a column.                                         *)
LEMMA ColumnStep ==
  ASSUME AccIInv, [AccNext]_accVars, NEW u \in Account, users[u] # None, users'[u] # None,
         NEW column \in DOMAIN users[u], users'[u][column] # users[u][column]
  PROVE  \E h \in Handler :
           /\ editor[h].user = u
           /\ \/ Asks(editor[h].at, column)
              \/ editor[h].at \in WholeRow /\ editor[h].row # users[u]
<1>0. AccTypeOK /\ EditorInv /\ EmailsApart
  BY DEF AccIInv
<1>c. users[u] \in UserRow /\ column \in {"email", "password", "role", "verified"}
  BY <1>0 DEF AccTypeOK, UserRow
<1>1. ASSUME UNCHANGED users PROVE FALSE
  BY <1>1
<1>2. ASSUME NEW h \in Handler, RegisterCreate(h) PROVE FALSE
  <2>1. /\ users[editor[h].user] = None /\ editor[h].user \in Account
        /\ Written(editor[h].user, editor[h].row) /\ editor[h].row \in UserRow
    BY <1>0, <1>2 DEF RegisterCreate, CreateUser, Written, EditorInv
  <2>2. u # editor[h].user
    BY <2>1
  <2>3. users'[u] = users[u]
    BY <1>0, <2>1, <2>2, WrittenKeeps
  <2>. QED
    BY <2>3
<1>3. ASSUME NEW h \in Handler, VerifyEmail(h)
      PROVE  editor[h].user = u /\ Asks(editor[h].at, column)
  <2>1. PICK row \in UserRow :
          /\ users' = [users EXCEPT ![editor[h].user] = row]
          /\ \A c \in {"email", "password", "role"} : row[c] = users[editor[h].user][c]
    BY <1>1, <1>3, VerifyWrites
  <2>2. editor[h].at = "verify"
    BY <1>3 DEF VerifyEmail
  <2>3. editor[h].user = u
    BY <1>0, <2>1 DEF AccTypeOK
  <2>4. users'[u] = row
    BY <1>0, <2>1, <2>3 DEF AccTypeOK
  <2>5. column = "verified"
    BY <1>c, <2>1, <2>3, <2>4
  <2>. QED
    BY <2>2, <2>3, <2>5 DEF Asks
<1>4. ASSUME NEW h \in Handler, NEW row, WritesRow(h, row)
      PROVE  /\ editor[h].user = u
             /\ \/ Asks(editor[h].at, column)
                \/ editor[h].at \in WholeRow /\ editor[h].row # users[u]
  <2>1. /\ editor[h].at \in WholeRow /\ UpdateUser(editor[h].user, row)
        /\ row[column] # editor[h].row[column] => Asks(editor[h].at, column)
    BY <1>4, <1>c, RowWritten
  <2>2. users' = [users EXCEPT ![editor[h].user] = row]
    BY <1>1, <2>1 DEF UpdateUser
  <2>3. editor[h].user = u
    BY <1>0, <2>2 DEF AccTypeOK
  <2>4. users'[u] = row
    BY <1>0, <2>2, <2>3 DEF AccTypeOK
  <2>. QED
    BY <2>1, <2>3, <2>4
<1>5. ASSUME NEW v \in Account, DeleteUser(v) PROVE FALSE
  <2>1. users' = [users EXCEPT ![v] = None]
    BY <1>5 DEF DeleteUser
  <2>2. v # u
    BY <1>0, <2>1 DEF AccTypeOK
  <2>3. users'[u] = users[u]
    BY <1>0, <2>1, <2>2 DEF AccTypeOK
  <2>. QED
    BY <2>3
<1>6. ASSUME NEW h \in Handler, NEW v \in Account, NEW task, ReadUser(h, v, task) PROVE FALSE
  BY <1>1, <1>6 DEF ReadUser
<1>7. AccNext
  BY <1>1 DEF accVars
<1>. QED
  BY <1>1, <1>2, <1>3, <1>4, <1>5, <1>6, <1>7, AccSteps

(* A column changes only by a request that asks for it, or by a whole-row  *)
(* write of a request during which the user changed (UpdateUser,           *)
(* SetEmailVerified).                                                      *)
THEOREM PurposeSafe == AccSpec => ChangedOnPurpose
<1>1. ASSUME AccIInv, [AccNext]_accVars
      PROVE  [\A u \in Account : users[u] # None /\ users'[u] # None =>
                \A column \in DOMAIN users[u] :
                  users'[u][column] # users[u][column] =>
                    \E h \in Handler :
                      /\ editor[h].user = u
                      /\ \/ Asks(editor[h].at, column)
                         \/ editor[h].at \in WholeRow /\ editor[h].row # users[u]]_users
  BY <1>1, ColumnStep
<1>. QED
  BY <1>1, AccInductive, PTL DEF AccSpec, ChangedOnPurpose

-----------------------------------------------------------------------------
(* One-time codes (internal/userauth).                                     *)
-----------------------------------------------------------------------------
(* A code in the making is nobody else's and has not been used; who is     *)
(* about to write the count has read less than the failures there were.    *)
TesterInv ==
  \A h \in Handler :
    /\ tester[h].at \in {"create", "mark"} => tester[h].code \in Code
    /\ tester[h].at = "create" =>
         /\ codes[tester[h].code] = None /\ uses[tester[h].code] = 0
         /\ \A g \in Handler \ {h} : tester[g].code # tester[h].code
    /\ tester[h].at = "count" /\ tester[h].seen # None => tester[h].seen < failures

(* A code that can still be found was not accepted yet.                    *)
UnusedInv ==
  \A c \in Code \ reusable : codes[c] # None /\ ~codes[c].used => uses[c] = 0

CodeIInv ==
  CodeTypeOK /\ TesterInv /\ UnusedInv /\ CodeUsedOnce /\ BlockedForFailures

(* The goroutines that are about to mark a code.                           *)
Marking(c) == {h \in Handler : TesterAt(h, "mark") /\ tester[h].code = c}

LEMMA CodeStart == CodeInit => CodeIInv
<1>. SUFFICES ASSUME CodeInit PROVE CodeIInv
  OBVIOUS
<1>1. CodeTypeOK
  <2>1. NoTest \in Testing
    BY DEF NoTest, Testing, Purpose
  <2>2. 0 \in 0..MaxFaults
    BY FaultBound
  <2>. QED
    BY <2>1, <2>2 DEF CodeInit, CodeTypeOK
<1>2. TesterInv /\ UnusedInv /\ BlockedForFailures
  BY DEF CodeInit, TesterInv, UnusedInv, BlockedForFailures, NoTest
<1>3. \A c \in Code : Marking(c) = {} /\ uses[c] = 0
  BY DEF CodeInit, Marking, TesterAt, NoTest
<1>4. CodeUsedOnce
  <2>1. Cardinality(Handler) \in Nat /\ Cardinality({}) = 0
    BY FinitelyManyHandlers, FS_EmptySet, FS_CardinalityType
  <2>2. \A c \in Code : uses[c] + Cardinality(Marking(c)) <= Cardinality(Handler)
    BY <1>3, <2>1
  <2>. QED
    BY <2>2 DEF CodeUsedOnce, Marking
<1>. QED
  BY <1>1, <1>2, <1>4 DEF CodeIInv

(* Uses stay within the goroutines when no code is accepted and nobody     *)
(* comes to mark one.                                                      *)
LEMMA UsesKept ==
  ASSUME CodeTypeOK, CodeUsedOnce, uses' = uses, reusable \subseteq reusable',
         \A h \in Handler : tester'[h].at = "mark" =>
                              tester[h].at = "mark" /\ tester'[h].code = tester[h].code
  PROVE  CodeUsedOnce'
<1>. SUFFICES ASSUME NEW c \in Code \ reusable'
              PROVE  uses[c] + Cardinality(Marking(c)') <= Cardinality(Handler)
  BY DEF CodeUsedOnce, Marking
<1>1. /\ Marking(c)' \subseteq Marking(c) /\ Marking(c) \subseteq Handler
  BY DEF Marking, TesterAt
<1>2. IsFiniteSet(Marking(c)) /\ Cardinality(Handler) \in Nat
  BY <1>1, FinitelyManyHandlers, Counting
<1>3. /\ Cardinality(Marking(c)') <= Cardinality(Marking(c))
      /\ Cardinality(Marking(c)') \in Nat /\ Cardinality(Marking(c)) \in Nat
  BY <1>1, <1>2, Counting
<1>4. uses[c] \in Nat /\ uses[c] + Cardinality(Marking(c)) <= Cardinality(Handler)
  BY DEF CodeUsedOnce, CodeTypeOK, Marking
<1>. QED
  BY <1>2, <1>3, <1>4

(* And when one goroutine accepts the code it was about to mark.           *)
LEMMA UsesMove ==
  ASSUME CodeTypeOK, CodeUsedOnce, NEW h \in Handler, tester[h].at = "mark",
         tester[h].code \in Code,
         uses' = [uses EXCEPT ![tester[h].code] = @ + 1], reusable \subseteq reusable',
         tester'[h].at = "idle",
         \A g \in Handler \ {h} :
           tester'[g].at = tester[g].at /\ tester'[g].code = tester[g].code
  PROVE  CodeUsedOnce'
<1>. SUFFICES ASSUME NEW c \in Code \ reusable'
              PROVE  uses'[c] + Cardinality(Marking(c)') <= Cardinality(Handler)
  BY DEF CodeUsedOnce, Marking
<1>1. /\ Marking(c)' \subseteq Marking(c) \ {h} /\ Marking(c) \subseteq Handler
      /\ Marking(c)' \subseteq Marking(c)
  BY DEF Marking, TesterAt
<1>2. IsFiniteSet(Marking(c)) /\ Cardinality(Handler) \in Nat
  BY <1>1, FinitelyManyHandlers, Counting
<1>3. /\ Cardinality(Marking(c)') <= Cardinality(Marking(c))
      /\ Cardinality(Marking(c)') \in Nat /\ Cardinality(Marking(c)) \in Nat
  BY <1>1, <1>2, Counting
<1>4. uses[c] \in Nat /\ uses[c] + Cardinality(Marking(c)) <= Cardinality(Handler)
  BY DEF CodeUsedOnce, CodeTypeOK, Marking
<1>5. CASE c = tester[h].code
  <2>1. h \in Marking(c)
    BY <1>5 DEF Marking, TesterAt
  <2>2. Cardinality(Marking(c)') <= Cardinality(Marking(c)) - 1
    BY <1>1, <1>2, <2>1, Counting
  <2>3. uses'[c] = uses[c] + 1
    BY <1>5 DEF CodeTypeOK
  <2>. QED
    BY <1>2, <1>3, <1>4, <2>2, <2>3
<1>6. CASE c # tester[h].code
  <2>1. uses'[c] = uses[c]
    BY <1>6 DEF CodeTypeOK
  <2>. QED
    BY <1>2, <1>3, <1>4, <2>1
<1>. QED
  BY <1>5, <1>6

(* What clearing the failures leaves of the other goroutines.              *)
LEMMA Cleared ==
  ASSUME CodeTypeOK, NEW h \in Handler, NEW next \in Testing, ClearFailures(h, next)
  PROVE  /\ tracker' = 0 /\ calm' = FALSE /\ failures' = 0
         /\ tester' \in [Handler -> Testing] /\ tester'[h] = next
         /\ \A g \in Handler \ {h} :
              /\ tester'[g].at = tester[g].at /\ tester'[g].code = tester[g].code
              /\ tester[g].at = "count" => tester'[g].seen = None
<1>. DEFINE gone(g) == [tester[g] EXCEPT !.seen = None]
<1>1. \A g \in Handler : /\ gone(g) \in Testing /\ gone(g).at = tester[g].at
                         /\ gone(g).code = tester[g].code /\ gone(g).seen = None
  BY DEF CodeTypeOK, Testing
<1>2. /\ tracker' = 0 /\ calm' = FALSE /\ failures' = 0
      /\ tester' = [g \in Handler |-> IF g = h THEN next
                                      ELSE IF tester[g].at = "count" THEN gone(g)
                                      ELSE tester[g]]
  BY DEF ClearFailures, TesterAt
<1>. HIDE DEF gone
<1>3. tester' \in [Handler -> Testing]
  BY <1>1, <1>2 DEF CodeTypeOK
<1>. QED
  BY <1>1, <1>2, <1>3


LEMMA CodeStep == CodeIInv /\ [CodeNext]_codeVars => CodeIInv'
<1>. SUFFICES ASSUME CodeIInv, [CodeNext]_codeVars PROVE CodeIInv'
  OBVIOUS
<1>. USE DEF TesterAt, EndTest, history, counting
<1>0. CodeTypeOK /\ TesterInv /\ UnusedInv /\ CodeUsedOnce /\ BlockedForFailures
  BY DEF CodeIInv
<1>N. NoTest \in Testing /\ NoTest.at = "idle" /\ NoTest.code = None /\ NoTest.code \notin Code
  BY NoneIsNoCode DEF NoTest, Testing, Purpose
<1>1. ASSUME NEW h \in Handler, NEW c \in Code, NEW p \in Purpose, SendCheck(h, c, p)
      PROVE  CodeIInv'
  <2>. DEFINE next == [NoTest EXCEPT !.at = "create", !.purpose = p, !.code = c]
  <2>1. /\ codes[c] = None /\ uses[c] = 0
        /\ \A g \in Handler : tester[g].code # c
        /\ tester' = [tester EXCEPT ![h] = next]
        /\ UNCHANGED <<codes, tracker, calm, failures, hour, uses, reusable, faults>>
    BY <1>1 DEF SendCheck
  <2>2. next \in Testing /\ next.at = "create" /\ next.code = c
    BY DEF NoTest, Testing
  <2>. HIDE DEF next
  <2>3. tester'[h] = next /\ \A g \in Handler \ {h} : tester'[g] = tester[g]
    BY <1>0, <2>1 DEF CodeTypeOK
  <2>4. CodeTypeOK'
    BY <1>0, <2>1, <2>2 DEF CodeTypeOK
  <2>5. TesterInv'
    BY <1>0, <2>1, <2>2, <2>3 DEF TesterInv
  <2>6. UnusedInv' /\ BlockedForFailures'
    BY <1>0, <2>1 DEF UnusedInv, BlockedForFailures
  <2>7. CodeUsedOnce'
    BY <1>0, <2>1, <2>2, <2>3, UsesKept
  <2>. QED
    BY <2>4, <2>5, <2>6, <2>7 DEF CodeIInv
<1>2. ASSUME NEW h \in Handler, CreateCode(h)
      PROVE  CodeIInv'
  <2>. DEFINE c == tester[h].code
              row == [purpose |-> tester[h].purpose, used |-> FALSE, expired |-> FALSE]
  <2>1. /\ tester[h].at = "create" /\ codes' = [codes EXCEPT ![c] = row]
        /\ hour' = hour \cup {c} /\ tester' = [tester EXCEPT ![h] = NoTest]
        /\ UNCHANGED <<tracker, calm, failures, uses, reusable, faults>>
    BY <1>2 DEF CreateCode
  <2>2. /\ c \in Code /\ uses[c] = 0
        /\ \A g \in Handler \ {h} : tester[g].code # c
    BY <1>0, <2>1 DEF TesterInv
  <2>3. row \in CodeRow
    BY <1>0 DEF CodeTypeOK, Testing, CodeRow
  <2>. HIDE DEF c, row
  <2>4. /\ tester'[h] = NoTest /\ \A g \in Handler \ {h} : tester'[g] = tester[g]
        /\ codes'[c] = row /\ \A d \in Code \ {c} : codes'[d] = codes[d]
    BY <1>0, <2>1, <2>2 DEF CodeTypeOK
  <2>5. CodeTypeOK'
    BY <1>0, <1>N, <2>1, <2>2, <2>3 DEF CodeTypeOK
  <2>6. TesterInv'
    <3>1. ASSUME NEW g \in Handler \ {h}, tester[g].at = "create"
          PROVE  /\ tester[g].code \in Code \ {c} /\ codes[tester[g].code] = None
                 /\ uses[tester[g].code] = 0
                 /\ \A k \in Handler \ {g} : tester[k].code # tester[g].code
      BY <1>0, <2>2, <3>1 DEF TesterInv
    <3>2. \A k \in Handler : tester'[k].code = tester[k].code \/ tester'[k].code \notin Code
      BY <1>N, <2>4
    <3>. QED
      BY <1>0, <1>N, <2>1, <2>4, <3>1, <3>2 DEF TesterInv
  <2>7. UnusedInv' /\ BlockedForFailures'
    BY <1>0, <2>1, <2>2, <2>4 DEF UnusedInv, BlockedForFailures
  <2>8. CodeUsedOnce'
    BY <1>0, <1>N, <2>1, <2>4, UsesKept
  <2>. QED
    BY <2>5, <2>6, <2>7, <2>8 DEF CodeIInv
<1>3. ASSUME NEW h \in Handler, NEW p \in Purpose, Try(h, p)
      PROVE  CodeIInv'
  <2>. DEFINE next == [NoTest EXCEPT !.at = "lookup", !.purpose = p]
  <2>1. /\ next \in Testing /\ next.at = "lookup" /\ next.code \notin Code
    BY NoneIsNoCode DEF NoTest, Testing
  <2>2. /\ UNCHANGED <<codes, hour, uses, reusable, faults>>
        /\ \/ ClearFailures(h, next)
           \/ tester' = [tester EXCEPT ![h] = next] /\ UNCHANGED <<tracker, calm, failures>>
    BY <1>3 DEF Try
  <2>. HIDE DEF next
  <2>3. CASE ClearFailures(h, next)
    <3>1. /\ tracker' = 0 /\ calm' = FALSE /\ failures' = 0
          /\ tester' \in [Handler -> Testing] /\ tester'[h] = next
          /\ \A g \in Handler \ {h} :
               /\ tester'[g].at = tester[g].at /\ tester'[g].code = tester[g].code
               /\ tester[g].at = "count" => tester'[g].seen = None
      BY <1>0, <2>1, <2>3, Cleared
    <3>2. CodeTypeOK'
      BY <1>0, <2>2, <3>1 DEF CodeTypeOK
    <3>3. TesterInv'
      BY <1>0, <2>1, <2>2, <3>1 DEF TesterInv
    <3>4. UnusedInv' /\ BlockedForFailures'
      BY <1>0, <2>2, <3>1 DEF UnusedInv, BlockedForFailures
    <3>5. CodeUsedOnce'
      BY <1>0, <2>1, <2>2, <3>1, UsesKept
    <3>. QED
      BY <3>2, <3>3, <3>4, <3>5 DEF CodeIInv
  <2>4. CASE tester' = [tester EXCEPT ![h] = next] /\ UNCHANGED <<tracker, calm, failures>>
    <3>1. tester'[h] = next /\ \A g \in Handler \ {h} : tester'[g] = tester[g]
      BY <1>0, <2>4 DEF CodeTypeOK
    <3>2. CodeTypeOK'
      BY <1>0, <2>1, <2>2, <2>4 DEF CodeTypeOK
    <3>3. TesterInv'
      BY <1>0, <2>1, <2>2, <2>4, <3>1 DEF TesterInv
    <3>4. UnusedInv' /\ BlockedForFailures'
      BY <1>0, <2>2, <2>4 DEF UnusedInv, BlockedForFailures
    <3>5. CodeUsedOnce'
      BY <1>0, <2>1, <2>2, <3>1, UsesKept
    <3>. QED
      BY <3>2, <3>3, <3>4, <3>5 DEF CodeIInv
  <2>. QED
    BY <2>2, <2>3, <2>4
<1>4. ASSUME NEW h \in Handler, NEW c \in Code, LookUpCode(h, c)
      PROVE  CodeIInv'
  <2>. DEFINE next == [tester[h] EXCEPT !.at = "mark", !.code = c]
  <2>1. /\ tester[h].at = "lookup" /\ codes[c] # None /\ ~codes[c].used
        /\ \/ tester' = [tester EXCEPT ![h] = NoTest]
           \/ tester' = [tester EXCEPT ![h] = next]
        /\ UNCHANGED <<codes, tracker, calm, failures, hour, uses, reusable, faults>>
    BY <1>4 DEF LookUpCode, GetEmailVerification
  <2>2. next \in Testing /\ next.at = "mark" /\ next.code = c
    BY <1>0 DEF CodeTypeOK, Testing
  <2>. HIDE DEF next
  <2>3. \A g \in Handler \ {h} : tester'[g] = tester[g]
    BY <1>0, <2>1 DEF CodeTypeOK
  <2>4. tester'[h] = NoTest \/ tester'[h] = next
    BY <1>0, <2>1 DEF CodeTypeOK
  <2>5. CodeTypeOK'
    BY <1>0, <1>N, <2>1, <2>2 DEF CodeTypeOK
  <2>6. TesterInv'
    <3>1. ASSUME NEW g \in Handler \ {h}, tester[g].at = "create"
          PROVE  tester[g].code \in Code \ {c}
      BY <1>0, <2>1, <3>1 DEF TesterInv
    <3>. QED
      BY <1>0, <1>N, <2>1, <2>2, <2>3, <2>4, <3>1 DEF TesterInv
  <2>7. UnusedInv' /\ BlockedForFailures'
    BY <1>0, <2>1 DEF UnusedInv, BlockedForFailures
  <2>8. CodeUsedOnce'
    <3>. SUFFICES ASSUME NEW d \in Code \ reusable'
                  PROVE  uses[d] + Cardinality(Marking(d)') <= Cardinality(Handler)
      BY <2>1 DEF CodeUsedOnce, Marking
    <3>1. /\ Marking(d)' \subseteq Handler /\ Marking(d) \subseteq Handler
          /\ d # c => Marking(d)' \subseteq Marking(d)
      BY <1>N, <2>2, <2>3, <2>4 DEF Marking
    <3>2. /\ Cardinality(Marking(d)') \in Nat /\ Cardinality(Handler) \in Nat
          /\ Cardinality(Marking(d)') <= Cardinality(Handler)
          /\ IsFiniteSet(Marking(d)) /\ Cardinality(Marking(d)) \in Nat
      BY <3>1, FinitelyManyHandlers, Counting
    <3>3. CASE d = c
      <4>1. uses[d] = 0
        BY <1>0, <2>1, <3>3 DEF UnusedInv
      <4>. QED
        BY <3>2, <4>1
    <3>4. CASE d # c
      <4>1. Cardinality(Marking(d)') <= Cardinality(Marking(d))
        BY <3>1, <3>2, <3>4, Counting
      <4>2. uses[d] \in Nat /\ uses[d] + Cardinality(Marking(d)) <= Cardinality(Handler)
        BY <1>0, <2>1 DEF CodeUsedOnce, CodeTypeOK, Marking
      <4>. QED
        BY <3>2, <4>1, <4>2
    <3>. QED
      BY <3>3, <3>4
  <2>. QED
    BY <2>5, <2>6, <2>7, <2>8 DEF CodeIInv
<1>5. ASSUME NEW h \in Handler, LookUpFails(h)
      PROVE  CodeIInv'
  <2>. DEFINE next == [tester[h] EXCEPT !.at = "count", !.seen = tracker]
  <2>1. /\ tester' = [tester EXCEPT ![h] = next]
        /\ calm' = (calm \/ tracker = 0) /\ failures' = failures + 1
        /\ UNCHANGED <<codes, tracker, hour, uses, reusable, faults>>
    BY <1>5 DEF LookUpFails
  <2>2. /\ next \in Testing /\ next.at = "count" /\ next.seen = tracker
        /\ next.code = tester[h].code
    BY <1>0 DEF CodeTypeOK, Testing
  <2>. HIDE DEF next
  <2>3. tester'[h] = next /\ \A g \in Handler \ {h} : tester'[g] = tester[g]
    BY <1>0, <2>1 DEF CodeTypeOK
  <2>4. /\ calm' \in BOOLEAN /\ failures \in Nat /\ tracker \in Nat
        /\ tracker <= failures
    BY <1>0, <2>1 DEF CodeTypeOK, BlockedForFailures
  <2>5. CodeTypeOK'
    BY <1>0, <2>1, <2>2, <2>4 DEF CodeTypeOK
  <2>6. TesterInv'
    <3>1. ASSUME NEW g \in Handler, tester'[g].at = "count", tester'[g].seen # None
          PROVE  tester'[g].seen < failures'
      <4>1. CASE g = h
        BY <2>1, <2>2, <2>3, <2>4, <4>1
      <4>2. CASE g # h
        <5>1. tester[g].seen < failures /\ tester[g].seen \in Nat /\ tester'[g] = tester[g]
          BY <1>0, <2>3, <3>1, <4>2 DEF TesterInv, CodeTypeOK, Testing
        <5>. QED
          BY <2>1, <2>4, <5>1
      <4>. QED
        BY <4>1, <4>2
    <3>2. \A g \in Handler : tester'[g].code = tester[g].code
      BY <2>2, <2>3
    <3>3. \A g \in Handler : tester'[g].at = tester[g].at \/ tester'[g].at = "count"
      BY <2>2, <2>3
    <3>. QED
      BY <1>0, <2>1, <3>1, <3>2, <3>3 DEF TesterInv
  <2>7. UnusedInv' /\ BlockedForFailures'
    BY <1>0, <2>1, <2>4 DEF UnusedInv, BlockedForFailures
  <2>8. CodeUsedOnce'
    BY <1>0, <2>1, <2>2, <2>3, UsesKept
  <2>. QED
    BY <2>5, <2>6, <2>7, <2>8 DEF CodeIInv
<1>6. ASSUME NEW h \in Handler, RecordFailure(h)
      PROVE  CodeIInv'
  <2>1. /\ tester[h].at = "count" /\ tester' = [tester EXCEPT ![h] = NoTest]
        /\ UNCHANGED <<codes, failures, hour, uses, reusable, faults>>
    BY <1>6 DEF RecordFailure
  <2>2. tester'[h] = NoTest /\ \A g \in Handler \ {h} : tester'[g] = tester[g]
    BY <1>0, <2>1 DEF CodeTypeOK
  <2>3. tracker' \in Nat /\ calm' \in BOOLEAN /\ tracker' <= failures
    <3>1. CASE tester[h].seen = None
      <4>1. UNCHANGED <<tracker, calm>>
        BY <1>6, <3>1 DEF RecordFailure
      <4>2. tracker \in Nat /\ calm \in BOOLEAN /\ tracker <= failures
        BY <1>0 DEF CodeTypeOK, BlockedForFailures
      <4>. QED
        BY <4>1, <4>2
    <3>2. CASE tester[h].seen # None
      <4>1. tester[h].seen \in Nat /\ tester[h].seen < failures /\ failures \in Nat
        BY <1>0, <2>1, <3>2 DEF TesterInv, CodeTypeOK, Testing
      <4>2. tracker' = tester[h].seen + 1 /\ calm' = FALSE
        BY <1>6, <3>2 DEF RecordFailure
      <4>3. calm' \in BOOLEAN
        BY <4>2, Zenon
      <4>4. tracker' \in Nat /\ tracker' <= failures
        BY <4>1, <4>2
      <4>. QED
        BY <4>3, <4>4
    <3>. QED
      BY <3>1, <3>2
  <2>4. CodeTypeOK'
    BY <1>0, <1>N, <2>1, <2>3 DEF CodeTypeOK
  <2>5. TesterInv'
    BY <1>0, <1>N, <2>1, <2>2 DEF TesterInv
  <2>6. UnusedInv' /\ BlockedForFailures'
    BY <1>0, <2>1, <2>3 DEF UnusedInv, BlockedForFailures
  <2>7. CodeUsedOnce'
    BY <1>0, <1>N, <2>1, <2>2, UsesKept
  <2>. QED
    BY <2>4, <2>5, <2>6, <2>7 DEF CodeIInv
(* Accepting a code, marked or not.                                        *)
<1>7. ASSUME NEW h \in Handler, MarkUsed(h) \/ MarkUsedFails(h)
      PROVE  CodeIInv'
  <2>. DEFINE c == tester[h].code
              row == [codes[c] EXCEPT !.used = TRUE]
  <2>1. /\ tester[h].at = "mark" /\ ClearFailures(h, NoTest)
        /\ uses' = [uses EXCEPT ![c] = @ + 1]
        /\ UNCHANGED hour
    BY <1>7 DEF MarkUsed, MarkUsedFails
  <2>2. /\ reusable \subseteq reusable'
        /\ \/ codes' = codes /\ (codes[c] = None \/ c \in reusable')
           \/ codes' = [codes EXCEPT ![c] = row] /\ codes[c] # None
    BY <1>7 DEF MarkUsed, MarkUsedFails
  <2>3. c \in Code
    BY <1>0, <2>1 DEF TesterInv
  <2>4. reusable' \in SUBSET Code /\ faults' \in 0..MaxFaults
    BY <1>0, <1>7, <2>3, FaultBound DEF MarkUsed, MarkUsedFails, Fault, CodeTypeOK
  <2>5. codes[c] # None => row \in CodeRow /\ row.used = TRUE
    BY <1>0, <2>3 DEF CodeTypeOK, CodeRow
  <2>6. /\ tracker' = 0 /\ calm' = FALSE /\ failures' = 0
        /\ tester' \in [Handler -> Testing] /\ tester'[h] = NoTest
        /\ \A g \in Handler \ {h} :
             /\ tester'[g].at = tester[g].at /\ tester'[g].code = tester[g].code
             /\ tester[g].at = "count" => tester'[g].seen = None
    BY <1>0, <1>N, <2>1, Cleared
  <2>7. uses' \in [Code -> Nat]
    BY <1>0, <2>1, <2>3 DEF CodeTypeOK
  <2>8. CodeUsedOnce'
    BY <1>0, <1>N, <2>1, <2>2, <2>3, <2>6, UsesMove
  <2>. HIDE DEF c, row
  <2>9. CodeTypeOK'
    BY <1>0, <2>1, <2>2, <2>3, <2>4, <2>5, <2>6, <2>7 DEF CodeTypeOK
  <2>10. \A d \in Code \ {c} : codes'[d] = codes[d] /\ uses'[d] = uses[d]
    BY <1>0, <2>1, <2>2 DEF CodeTypeOK
  <2>11. TesterInv'
    <3>1. ASSUME NEW g \in Handler, tester'[g].at = "create"
          PROVE  /\ tester'[g].code \in Code
                 /\ codes'[tester'[g].code] = None /\ uses'[tester'[g].code] = 0
                 /\ \A k \in Handler \ {g} : tester'[k].code # tester'[g].code
      <4>1. /\ g # h /\ tester[g].at = "create" /\ tester'[g].code = tester[g].code
        BY <1>N, <2>6, <3>1
      <4>2. /\ tester[g].code \in Code /\ codes[tester[g].code] = None
            /\ uses[tester[g].code] = 0
            /\ \A k \in Handler \ {g} : tester[k].code # tester[g].code
        BY <1>0, <4>1 DEF TesterInv
      <4>3. tester[g].code # c
        BY <4>1, <4>2 DEF c
      <4>4. \A k \in Handler : tester'[k].code = tester[k].code \/ tester'[k].code \notin Code
        BY <1>N, <2>6
      <4>. QED
        BY <2>10, <4>1, <4>2, <4>3, <4>4
    <3>2. ASSUME NEW g \in Handler, tester'[g].at = "mark"
          PROVE  tester'[g].code \in Code
      BY <1>0, <1>N, <2>6, <3>2 DEF TesterInv
    <3>3. ASSUME NEW g \in Handler, tester'[g].at = "count"
          PROVE  tester'[g].seen = None
      BY <1>N, <2>6, <3>3
    <3>. QED
      BY <3>1, <3>2, <3>3 DEF TesterInv
  <2>12. UnusedInv'
    BY <1>0, <2>2, <2>3, <2>5, <2>10, <2>9 DEF UnusedInv, CodeTypeOK
  <2>13. BlockedForFailures'
    BY <2>6 DEF BlockedForFailures
  <2>. QED
    BY <2>8, <2>9, <2>11, <2>12, <2>13 DEF CodeIInv
<1>8. ASSUME NEW c \in Code, CodeExpires(c)
      PROVE  CodeIInv'
  <2>. DEFINE row == [codes[c] EXCEPT !.expired = TRUE]
  <2>1. /\ codes[c] # None /\ codes' = [codes EXCEPT ![c] = row]
        /\ UNCHANGED <<tracker, calm, failures, tester, hour, uses, reusable, faults>>
    BY <1>8 DEF CodeExpires
  <2>2. row \in CodeRow /\ row.used = codes[c].used
    BY <1>0, <2>1 DEF CodeTypeOK, CodeRow
  <2>. HIDE DEF row
  <2>3. codes'[c] = row /\ \A d \in Code \ {c} : codes'[d] = codes[d]
    BY <1>0, <2>1 DEF CodeTypeOK
  <2>4. CodeTypeOK'
    BY <1>0, <2>1, <2>2 DEF CodeTypeOK
  <2>5. TesterInv' /\ BlockedForFailures'
    BY <1>0, <2>1, <2>3 DEF TesterInv, BlockedForFailures
  <2>6. UnusedInv'
    BY <1>0, <2>1, <2>2, <2>3 DEF UnusedInv
  <2>7. CodeUsedOnce'
    BY <1>0, <2>1 DEF CodeUsedOnce
  <2>. QED
    BY <2>4, <2>5, <2>6, <2>7 DEF CodeIInv
<1>9. CASE BlockPasses
  BY <1>0, <1>9 DEF BlockPasses, CodeIInv, CodeTypeOK, TesterInv, UnusedInv, CodeUsedOnce,
     BlockedForFailures
<1>10. CASE HourPasses
  BY <1>0, <1>10 DEF HourPasses, CodeIInv, CodeTypeOK, TesterInv, UnusedInv, CodeUsedOnce,
     BlockedForFailures
<1>11. CASE CleanUpCodes
  <2>1. /\ codes' = [c \in Code |-> IF codes[c] # None /\ codes[c].expired THEN None
                                    ELSE codes[c]]
        /\ UNCHANGED <<tracker, calm, failures, tester, hour, uses, reusable, faults>>
    BY <1>11 DEF CleanUpCodes
  <2>2. \A c \in Code : codes'[c] = None \/ codes'[c] = codes[c]
    BY <2>1
  <2>3. CodeTypeOK'
    BY <1>0, <2>1 DEF CodeTypeOK
  <2>4. TesterInv'
    BY <1>0, <2>1, <2>2 DEF TesterInv
  <2>5. UnusedInv' /\ CodeUsedOnce' /\ BlockedForFailures'
    BY <1>0, <2>1, <2>2 DEF UnusedInv, CodeUsedOnce, BlockedForFailures
  <2>. QED
    BY <2>3, <2>4, <2>5 DEF CodeIInv
<1>12. CASE CodeCrash
  <2>1. /\ tester' = [h \in Handler |-> NoTest] /\ tracker' = 0 /\ calm' = FALSE
        /\ failures' = 0
        /\ UNCHANGED <<codes, hour, uses, reusable>>
    BY <1>12 DEF CodeCrash
  <2>2. CodeTypeOK'
    <3>1. faults' \in 0..MaxFaults
      BY <1>0, <1>12, FaultBound DEF CodeCrash, Fault, CodeTypeOK
    <3>2. tester' \in [Handler -> Testing]
      BY <1>N, <2>1
    <3>. QED
      BY <1>0, <2>1, <3>1, <3>2 DEF CodeTypeOK
  <2>3. TesterInv'
    BY <1>N, <2>1 DEF TesterInv
  <2>4. UnusedInv' /\ BlockedForFailures'
    BY <1>0, <2>1 DEF UnusedInv, BlockedForFailures
  <2>5. CodeUsedOnce'
    BY <1>0, <1>N, <2>1, UsesKept
  <2>. QED
    BY <2>2, <2>3, <2>4, <2>5 DEF CodeIInv
<1>13. CASE UNCHANGED codeVars
  BY <1>0, <1>13 DEF codeVars, CodeIInv, CodeTypeOK, TesterInv, UnusedInv, CodeUsedOnce,
     BlockedForFailures
<1>. QED
  BY <1>1, <1>2, <1>3, <1>4, <1>5, <1>6, <1>7, <1>8, <1>9, <1>10, <1>11, <1>12, <1>13
  DEF CodeNext, sendOTP, UseCode

LEMMA CodeInductive == CodeSpec => []CodeIInv
  BY CodeStart, CodeStep, PTL DEF CodeSpec

(* The table of codes and the tracker stay well formed.                    *)
THEOREM CodeTypes == CodeSpec => []CodeTypeOK
<1>1. CodeIInv => CodeTypeOK
  BY DEF CodeIInv
<1>. QED
  BY <1>1, CodeInductive, PTL

(* A code is accepted no more often than there are goroutines, for any     *)
(* number of them, unless marking it failed (VerifyEmail, ResetPassword).  *)
THEOREM CodeSafe == CodeSpec => []CodeUsedOnce
<1>1. CodeIInv => CodeUsedOnce
  BY DEF CodeIInv
<1>. QED
  BY <1>1, CodeInductive, PTL

(* The tracker never counts more than the wrong codes since it was last    *)
(* dropped (recordOTPFailure, clearOTPFailures).                           *)
THEOREM BlockSafe == CodeSpec => []BlockedForFailures
<1>1. CodeIInv => BlockedForFailures
  BY DEF CodeIInv
<1>. QED
  BY <1>1, CodeInductive, PTL

-----------------------------------------------------------------------------
(* Refresh tokens (internal/userauth).                                     *)
-----------------------------------------------------------------------------
(* The requests that rotate a token know its session and user; once they   *)
(* are past the deletion the session is gone, or was kept by a fault.      *)
RotationInv ==
  \A h \in Handler : rotating[h].at \in {"user", "delete", "create"} =>
    /\ rotating[h].session \in Session
    /\ rotating[h].user \in User
    /\ sessions[rotating[h].session] # None =>
         sessions[rotating[h].session].user = rotating[h].user
    /\ rotating[h].at = "create" =>
         sessions[rotating[h].session] = None \/ rotating[h].session \in kept

SessionIInv == SessionTypeOK /\ RotationInv /\ RotatedIsDead

LEMMA SessionStart == SessionInit => SessionIInv
  BY NoneIsNoSession, NoneIsNoValue, FaultBound
  DEF SessionInit, SessionIInv, SessionTypeOK, RotationInv, RotatedIsDead,
      NoRotation, Rotation

(* A token pair for a session that was never drawn disturbs no other.      *)
LEMMA SessionMade ==
  ASSUME SessionIInv, NEW s \in Session, NEW u \in User, GenerateTokenPair(s, u),
         UNCHANGED <<rotating, kept, keys, known, parent>>, faults' = faults
  PROVE  SessionIInv'
<1>1. SessionTypeOK'
  BY DEF SessionIInv, SessionTypeOK, GenerateTokenPair
<1>2. \A p \in Session \ {s} : sessions'[p] = sessions[p]
  BY DEF SessionIInv, SessionTypeOK, GenerateTokenPair
<1>3. RotationInv'
  BY <1>2 DEF SessionIInv, RotationInv, GenerateTokenPair, NewSession
<1>4. RotatedIsDead'
  BY <1>2, NoneIsNoSession DEF SessionIInv, RotatedIsDead, GenerateTokenPair, NewSession
<1>. QED
  BY <1>1, <1>3, <1>4 DEF SessionIInv

(* Neither does the end of a session.                                      *)
LEMMA SessionLost ==
  ASSUME SessionIInv, NEW s \in Session, sessions' = [sessions EXCEPT ![s] = None],
         UNCHANGED <<rotating, keys, known, parent, kept, faults>>
  PROVE  SessionIInv'
<1>1. sessions'[s] = None /\ \A p \in Session \ {s} : sessions'[p] = sessions[p]
  BY DEF SessionIInv, SessionTypeOK
<1>2. SessionTypeOK'
  BY DEF SessionIInv, SessionTypeOK
<1>3. RotationInv'
  BY <1>1 DEF SessionIInv, RotationInv
<1>4. RotatedIsDead'
  BY <1>1 DEF SessionIInv, RotatedIsDead
<1>. QED
  BY <1>2, <1>3, <1>4 DEF SessionIInv

LEMMA SessionStep == SessionIInv /\ [SessionNext]_sessionVars => SessionIInv'
<1>. SUFFICES ASSUME SessionIInv, [SessionNext]_sessionVars PROVE SessionIInv'
  OBVIOUS
<1>. USE NoneIsNoSession, FaultBound
     DEF SessionIInv, SessionTypeOK, RotationInv, RotatedIsDead, Rotation, NoRotation,
         RotatingAt, EndRotation, Fault
<1>1. ASSUME NEW s \in Session, NEW u \in User, Login(s, u)
      PROVE  SessionIInv'
  BY <1>1, SessionMade DEF Login
<1>2. ASSUME NEW h \in Handler, NEW s \in Session, RefreshRead(h, s)
      PROVE  SessionIInv'
  <2>1. CASE sessions[s].expired
    <3>1. /\ sessions' = [sessions EXCEPT ![s] = None]
          /\ UNCHANGED <<rotating, keys, known, parent, kept, faults>>
      BY <1>2, <2>1 DEF RefreshRead
    <3>. QED
      BY <3>1, SessionLost
  <2>2. CASE ~sessions[s].expired
    <3>0. sessions[s] \in [user : User, expired : BOOLEAN]
      BY <1>2 DEF RefreshRead
    <3>. DEFINE row == [NoRotation EXCEPT !.at = "user", !.session = s,
                                          !.user = sessions[s].user]
    <3>5. rotating' = [rotating EXCEPT ![h] = row]
          /\ UNCHANGED <<sessions, keys, known, parent, kept, faults>>
      BY <1>2, <2>2 DEF RefreshRead
    <3>6. row \in Rotation /\ row.at = "user" /\ row.session = s
          /\ row.user = sessions[s].user
      BY <3>0
    <3>. HIDE DEF row
    <3>1. rotating'[h] = row /\ \A g \in Handler \ {h} : rotating'[g] = rotating[g]
      BY <3>5
    <3>2. SessionTypeOK'
      BY <3>5, <3>6
    <3>3. RotationInv'
      BY <3>0, <3>1, <3>5, <3>6
    <3>4. RotatedIsDead'
      BY <3>5
    <3>. QED
      BY <3>2, <3>3, <3>4
  <2>. QED
    BY <2>1, <2>2
<1>3. ASSUME NEW h \in Handler, NEW s \in Session, RotateCreate(h, s)
      PROVE  SessionIInv'
  <2>. DEFINE p == rotating[h].session
  <2>1. p \in Session /\ p # s /\ rotating[h].user \in User /\ s \notin kept
        /\ sessions[s] = None /\ parent[s] = None
        /\ (sessions[p] = None \/ p \in kept)
        /\ (sessions[p] # None => sessions[p].user = rotating[h].user)
        /\ \A r \in Session : parent[r] # s
        /\ \A g \in Handler : rotating[g].session # s
    BY <1>3 DEF RotateCreate, GenerateTokenPair, NewSession
  <2>2. /\ sessions' = [sessions EXCEPT ![s] = [user |-> rotating[h].user,
                                                expired |-> FALSE]]
        /\ parent' = [parent EXCEPT ![s] = p]
        /\ rotating' = [rotating EXCEPT ![h] = NoRotation]
        /\ UNCHANGED <<keys, known, kept, faults>>
    BY <1>3 DEF RotateCreate, GenerateTokenPair
  <2>. HIDE DEF p
  <2>3. SessionTypeOK'
    BY <2>1, <2>2
  <2>4. /\ \A r \in Session \ {s} : sessions'[r] = sessions[r] /\ parent'[r] = parent[r]
        /\ sessions'[s] = [user |-> rotating[h].user, expired |-> FALSE]
        /\ parent'[s] = p
    BY <2>2
  <2>5. RotationInv'
    BY <2>1, <2>2, <2>4
  <2>6. RotatedIsDead'
    BY <2>1, <2>2, <2>4
  <2>. QED
    BY <2>3, <2>5, <2>6
<1>4. ASSUME NEW h \in Handler, RefreshUser(h)
      PROVE  SessionIInv'
  BY <1>4 DEF RefreshUser
<1>5. ASSUME NEW h \in Handler, RotateDelete(h)
      PROVE  SessionIInv'
  BY <1>5 DEF RotateDelete, DeleteSession
<1>6. ASSUME NEW h \in Handler, RotateDeleteFails(h)
      PROVE  SessionIInv'
  BY <1>6 DEF RotateDeleteFails
<1>7. ASSUME NEW h \in Handler, NEW k \in Key, ValidateAPIKey(h, k)
      PROVE  SessionIInv'
  BY <1>7 DEF ValidateAPIKey
<1>8. ASSUME NEW h \in Handler, KeyUser(h)
      PROVE  SessionIInv'
  BY <1>8 DEF KeyUser
<1>9. ASSUME NEW s \in Session, Logout(s)
      PROVE  SessionIInv'
  BY <1>9, SessionLost DEF Logout, DeleteSession
<1>10. ASSUME NEW s \in Session, SessionExpires(s)
      PROVE  SessionIInv'
  <2>1. /\ sessions' = [sessions EXCEPT ![s].expired = TRUE] /\ sessions[s] # None
        /\ UNCHANGED <<keys, known, rotating, parent, kept, faults>>
    BY <1>10 DEF SessionExpires
  <2>2. /\ \A p \in Session \ {s} : sessions'[p] = sessions[p]
        /\ sessions'[s] = [sessions[s] EXCEPT !.expired = TRUE]
    BY <2>1
  <2>3. sessions[s] \in [user : User, expired : BOOLEAN]
    BY <2>1
  <2>4. /\ sessions'[s] \in [user : User, expired : BOOLEAN]
        /\ sessions'[s].user = sessions[s].user
    BY <2>2, <2>3
  <2>5. SessionTypeOK'
    BY <2>1, <2>2, <2>4
  <2>6. RotationInv'
    BY <2>1, <2>2, <2>4
  <2>7. RotatedIsDead'
    BY <2>1, <2>2, <2>4
  <2>. QED
    BY <2>5, <2>6, <2>7
<1>11. ASSUME NEW k \in Key, NEW u \in User, GenerateAPIKey(k, u) \/ RevokeAPIKey(k, u)
      PROVE  SessionIInv'
  <2>1. UNCHANGED <<sessions, known, rotating, parent, kept, faults>>
    BY <1>11 DEF GenerateAPIKey, RevokeAPIKey
  <2>2. keys' \in [Key -> [user : User, revoked : BOOLEAN] \cup {None}]
    <3>1. CASE GenerateAPIKey(k, u)
      BY <3>1 DEF GenerateAPIKey
    <3>2. CASE RevokeAPIKey(k, u)
      <4>1. keys[k] \in [user : User, revoked : BOOLEAN]
        BY <3>2 DEF RevokeAPIKey
      <4>. QED
        BY <3>2, <4>1 DEF RevokeAPIKey
    <3>. QED
      BY <1>11, <3>1, <3>2
  <2>. QED
    BY <2>1, <2>2
<1>12. ASSUME NEW u \in User, UserDeleted(u)
      PROVE  SessionIInv'
  BY <1>12 DEF UserDeleted
<1>13. CASE SessionCrash
  BY <1>13 DEF SessionCrash
<1>14. CASE UNCHANGED sessionVars
  BY <1>14 DEF sessionVars
<1>. QED
  BY <1>1, <1>2, <1>3, <1>4, <1>5, <1>6, <1>7, <1>8, <1>9, <1>10, <1>11, <1>12,
     <1>13, <1>14
  DEF SessionNext, handleAuthRefresh, UserAuth

LEMMA SessionInductive == SessionSpec => []SessionIInv
  BY SessionStart, SessionStep, PTL DEF SessionSpec

(* RefreshToken, Logout and the API keys keep their tables well formed.    *)
THEOREM SessionTypes == SessionSpec => []SessionTypeOK
<1>1. SessionIInv => SessionTypeOK
  BY DEF SessionIInv
<1>. QED
  BY <1>1, SessionInductive, PTL

(* A rotated refresh token is dead for any number of sessions, requests    *)
(* and faults (Service.RefreshToken).                                      *)
THEOREM RotationSafe == SessionSpec => []RotatedIsDead
<1>1. SessionIInv => RotatedIsDead
  BY DEF SessionIInv
<1>. QED
  BY <1>1, SessionInductive, PTL

=============================================================================
