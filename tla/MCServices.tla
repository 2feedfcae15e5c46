------------------------------- MODULE MCServices -------------------------------
(***************************************************************************)
(* The services around the hub on small instances, in one run: a behaviour *)
(* is a behaviour of one of them, chosen in the initial state, while the   *)
(* variables of the others keep their initial values.  They share the      *)
(* goroutines, the users, the agents and the count of faults.              *)
(***************************************************************************)
EXTENDS ClaimTokens, ContactRequests, Invocation, Accounts, EmailCodes, Sessions,
        Reputation, ACPRuns, MCPBridge, OutboundBridges, Reviews, Notifications,
        RateLimiter, Lifecycle, TLC

CONSTANT Part \* the services of the run

VARIABLE part

claimOwn == <<tokens, claimed, whitelist, claimer, unmarked>>
reqOwn == <<requests, contacts, decider, dropped>>
invOwn == <<acl, present, open, listed, asking, call, invoked,
            counted, entitled>>
accOwn == <<users, editor>>
codeOwn == <<codes, tracker, calm, tester, failures, hour, uses, reusable>>
sessionOwn == <<sessions, keys, known, rotating, parent, kept>>
repOwn == <<endpoint, score, verified, log, challenges, judge, proven,
            vouched, excused>>

ServicesInit ==
  /\ part \in Part
  /\ ClaimInit
  /\ ReqInit
  /\ InvInit
  /\ AccInit
  /\ CodeInit
  /\ SessionInit
  /\ RepInit
  /\ ACPInit
  /\ MCPInit
  /\ OutInit
  /\ RevInit
  /\ NoteInit
  /\ LimInit
  /\ LifeInit
  /\ part # "rep" => endpoint = [a \in Agent |-> CHOOSE x \in Url : TRUE]
  /\ faults = 0

ServicesNext ==
  /\ UNCHANGED part
  /\ \/ part = "claim" /\ ClaimNext
           /\ UNCHANGED <<reqOwn, invOwn, accOwn, codeOwn, sessionOwn, repOwn,
                       acpVars, mcpVars, outVars, revVars, noteVars, limVars,
                       lifeVars>>
     \/ part = "req" /\ ReqNext
           /\ UNCHANGED <<claimOwn, invOwn, accOwn, codeOwn, sessionOwn, repOwn,
                       acpVars, mcpVars, outVars, revVars, noteVars, limVars,
                       lifeVars>>
     \/ part = "inv" /\ InvNext
           /\ UNCHANGED <<claimOwn, reqOwn, accOwn, codeOwn, sessionOwn, repOwn,
                       acpVars, mcpVars, outVars, revVars, noteVars, limVars,
                       lifeVars>>
     \/ part = "acc" /\ AccNext
           /\ UNCHANGED <<claimOwn, reqOwn, invOwn, codeOwn, sessionOwn, repOwn,
                       acpVars, mcpVars, outVars, revVars, noteVars, limVars,
                       lifeVars>>
     \/ part = "code" /\ CodeNext
           /\ UNCHANGED <<claimOwn, reqOwn, invOwn, accOwn, sessionOwn, repOwn,
                       acpVars, mcpVars, outVars, revVars, noteVars, limVars,
                       lifeVars>>
     \/ part = "session" /\ SessionNext
           /\ UNCHANGED <<claimOwn, reqOwn, invOwn, accOwn, codeOwn, repOwn,
                       acpVars, mcpVars, outVars, revVars, noteVars, limVars,
                       lifeVars>>
     \/ part = "rep" /\ RepNext
           /\ UNCHANGED <<claimOwn, reqOwn, invOwn, accOwn, codeOwn, sessionOwn,
                       acpVars, mcpVars, outVars, revVars, noteVars, limVars,
                       lifeVars>>
     \/ part = "acp" /\ ACPNext
           /\ UNCHANGED <<claimOwn, reqOwn, invOwn, accOwn, codeOwn, sessionOwn,
                       repOwn, mcpVars, outVars, revVars, noteVars, limVars,
                       lifeVars>>
     \/ part = "mcp" /\ MCPNext
           /\ UNCHANGED <<claimOwn, reqOwn, invOwn, accOwn, codeOwn, sessionOwn,
                       repOwn, acpVars, outVars, revVars, noteVars, limVars,
                       lifeVars>>
     \/ part = "out" /\ OutNext
           /\ UNCHANGED <<claimOwn, reqOwn, invOwn, accOwn, codeOwn, sessionOwn,
                       repOwn, acpVars, mcpVars, revVars, noteVars, limVars,
                       lifeVars>>
     \/ part = "rev" /\ RevNext
           /\ UNCHANGED <<claimOwn, reqOwn, invOwn, accOwn, codeOwn, sessionOwn,
                       repOwn, acpVars, mcpVars, outVars, noteVars, limVars,
                       lifeVars>>
     \/ part = "note" /\ NoteNext
           /\ UNCHANGED <<claimOwn, reqOwn, invOwn, accOwn, codeOwn, sessionOwn,
                       repOwn, acpVars, mcpVars, outVars, revVars, limVars,
                       lifeVars>>
     \/ part = "lim" /\ LimNext
           /\ UNCHANGED <<claimOwn, reqOwn, invOwn, accOwn, codeOwn, sessionOwn,
                       repOwn, acpVars, mcpVars, outVars, revVars, noteVars,
                       lifeVars>>
     \/ part = "life" /\ LifeNext
           /\ UNCHANGED <<claimOwn, reqOwn, invOwn, accOwn, codeOwn, sessionOwn,
                       repOwn, acpVars, mcpVars, outVars, revVars, noteVars,
                       limVars>>

ServicesSpec ==
  ServicesInit /\ [][ServicesNext]_<<part, faults, claimOwn, reqOwn, invOwn, accOwn, codeOwn,
                                     sessionOwn, repOwn, acpVars, mcpVars, outVars,
                                     revVars, noteVars, limVars, lifeVars>>

(* Every service keeps its types; no two users share an address            *)
(* (userauth/sqlite.go, UNIQUE).                                           *)
ServicesTypeOK ==
  /\ ClaimTypeOK
  /\ ReqTypeOK
  /\ InvTypeOK
  /\ AccTypeOK
  /\ CodeTypeOK
  /\ SessionTypeOK
  /\ RepTypeOK
  /\ ACPTypeOK
  /\ MCPTypeOK
  /\ OutTypeOK
  /\ RevTypeOK
  /\ NoteTypeOK
  /\ LimTypeOK
  /\ LifeTypeOK
  /\ EmailsApart

(* The limits on pending tokens and on MCP sessions are checked and kept in *)
(* two steps: what is overshot is overshot by concurrent requests only      *)
(* (claimtoken/service.go:72, mcp_bridge.go:100).                           *)
LimitsOvershootByConcurrency == PendingBounded /\ SessionsBounded

ServicesSymmetry ==
  Permutations(Handler) \cup Permutations(Request)
=============================================================================
