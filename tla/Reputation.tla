------------------------------- MODULE Reputation -------------------------------
(***************************************************************************)
(* The reputation of agents and the verification of their endpoints        *)
(* (internal/reputation, internal/verification, handleVerifyEndpoint and   *)
(* the administrators' handlers, the retention of events).                 *)
(*                                                                         *)
(* The EWMA of a score is abstracted to the set of the events folded into  *)
(* it; the default score is the empty set.                                 *)
(***************************************************************************)
EXTENDS Platform

CONSTANTS
  Event,     \* ids of reputation events
  Challenge, \* nonces
  Url        \* endpoint URLs

ASSUME NoneIsNoEvent == None \notin Event \cup Challenge \cup Url

VARIABLES
  endpoint,   \* table agents: the endpoint of an agent, or None without a row
  score,      \* columns reputation_score and reputation_event_count
  verified,   \* column verified: agents that are
  log,        \* table reputation_events: [agent, after], or None
  challenges, \* table verification_challenges: [agent, status], or None
  judge,      \* what a goroutine is at
  proven,     \* history: <<agent, URL>> that passed a challenge
  vouched,    \* history: agents an administrator verified
  excused     \* history: events that an overlap or a fault may keep out of
              \* the score, and events that were pruned

repVars == <<endpoint, score, verified, log, challenges, judge, proven, vouched,
             excused, faults>>

Score == [folded : SUBSET Event, count : Nat]
DefaultScore == [folded |-> {}, count |-> 0]

ASSUME NoneIsNoLogRow == None \notin [agent : Agent, after : Score]

Judging == [at : {"idle", "ask", "status", "verify", "read", "insert", "update"},
            agent : Agent \cup {None}, url : Url \cup {None},
            nonce : Challenge \cup {None}, passed : BOOLEAN,
            event : Event \cup {None}, base : Score]

NoJudge == [at |-> "idle", agent |-> None, url |-> None, nonce |-> None,
            passed |-> FALSE, event |-> None, base |-> DefaultScore]

RepTypeOK ==
  /\ endpoint \in [Agent -> Url \cup {None}]
  /\ score \in [Agent -> Score]
  /\ verified \in SUBSET Agent
  /\ log \in [Event -> [agent : Agent, after : Score] \cup {None}]
  /\ challenges \in [Challenge ->
       [agent : Agent, status : {"pending", "failed", "verified"}] \cup {None}]
  /\ judge \in [Handler -> Judging]
  /\ proven \in SUBSET (Agent \X Url)
  /\ vouched \in SUBSET Agent
  /\ excused \in SUBSET Event
  /\ faults \in 0..MaxFaults

RepInit ==
  /\ endpoint \in [Agent -> Url]
  /\ score = [a \in Agent |-> DefaultScore]
  /\ verified = {}
  /\ log = [e \in Event |-> None]
  /\ challenges = [n \in Challenge |-> None]
  /\ judge = [h \in Handler |-> NoJudge]
  /\ proven = {}
  /\ vouched = {}
  /\ excused = {}
  /\ faults = 0

agents  == <<endpoint, verified, vouched>>
scoring == <<score, log, excused>>

-----------------------------------------------------------------------------
JudgeAt(h, stage) == judge[h].at = stage
EndJudge(h) == judge' = [judge EXCEPT ![h] = NoJudge]

(* SQLiteStore.GetScore                                                    *)
GetScore(a) == IF endpoint[a] = None THEN DefaultScore ELSE score[a]

(* Engine.RecordEvent, on its own: heartbeats, invocations, reviews ...    *)
StartEvent(h, a) ==
  /\ judge[h] = NoJudge
  /\ judge' = [judge EXCEPT ![h] = [NoJudge EXCEPT !.at = "read", !.agent = a]]
  /\ UNCHANGED <<agents, scoring, challenges, proven, faults>>

(* ... reads the score: every error counts as "no events yet",             *)
ReadScore(h) ==
  /\ JudgeAt(h, "read")
  /\ judge' = [judge EXCEPT ![h].at = "insert",
                            ![h].base = GetScore(judge[h].agent)]
  /\ UNCHANGED <<agents, scoring, challenges, proven, faults>>

Counted(a) == score[a].folded

ReadScoreFails(h) ==
  /\ JudgeAt(h, "read")
  /\ judge' = [judge EXCEPT ![h].at = "insert", ![h].base = DefaultScore]
  /\ excused' = excused \cup Counted(judge[h].agent)
  /\ Fault
  /\ UNCHANGED <<agents, score, log, challenges, proven>>

(* Variant: an event starts from the default score.                        *)
FoldOnly(base, e) == [folded |-> {e}, count |-> base.count + 1]

(* the new score,                                                          *)
Fold(base, e) == [folded |-> base.folded \cup {e}, count |-> base.count + 1]

(* inserts the event,                                                      *)
InsertEvent(h, e) ==
  /\ JudgeAt(h, "insert")
  /\ log[e] = None
  /\ e \notin excused
  /\ \A a \in Agent : e \notin score[a].folded
  /\ log' = [log EXCEPT ![e] = [agent |-> judge[h].agent,
                                after |-> Fold(judge[h].base, e)]]
  /\ judge' = [judge EXCEPT ![h].at = "update", ![h].event = e]
  /\ UNCHANGED <<agents, score, excused, challenges, proven, faults>>

(* SQLiteStore.UpdateAgentReputation: the score and the count as they were *)
(* computed.                                                               *)
UpdateAgentReputation(a, new) ==
  score' = IF endpoint[a] = None THEN score ELSE [score EXCEPT ![a] = new]

(* Another goroutine has read the score and not written it yet.            *)
Overlapped(h) ==
  \E g \in Handler \ {h} : /\ judge[g].agent = judge[h].agent
                           /\ judge[g].at \in {"insert", "update"}

(* and updates the cached score.                                           *)
UpdateScore(h) ==
  /\ JudgeAt(h, "update")
  /\ UpdateAgentReputation(judge[h].agent, Fold(judge[h].base, judge[h].event))
  /\ excused' = IF Overlapped(h) \/ endpoint[judge[h].agent] = None
                THEN excused \cup {judge[h].event} ELSE excused
  /\ EndJudge(h)
  /\ UNCHANGED <<agents, log, challenges, proven, faults>>

UpdateScoreFails(h) ==
  /\ JudgeAt(h, "update")
  /\ excused' = excused \cup {judge[h].event}
  /\ EndJudge(h)
  /\ Fault
  /\ UNCHANGED <<agents, score, log, challenges, proven>>

-----------------------------------------------------------------------------
(* HTTPServer.handleVerifyEndpoint and Challenger.InitiateChallenge: a     *)
(* challenge is stored and sent to the endpoint that was read ...          *)
InitiateChallenge(h, a, n) ==
  /\ judge[h] = NoJudge
  /\ endpoint[a] # None
  /\ challenges[n] = None
  /\ challenges' = [challenges EXCEPT ![n] = [agent |-> a, status |-> "pending"]]
  /\ judge' = [judge EXCEPT ![h] =
       [NoJudge EXCEPT !.at = "ask", !.agent = a, !.url = endpoint[a], !.nonce = n]]
  /\ UNCHANGED <<agents, scoring, proven, faults>>

(* ... which answers with its signature, or not.                           *)
AnswerChallenge(h, passed) ==
  /\ JudgeAt(h, "ask")
  /\ judge' = [judge EXCEPT ![h].at = "status", ![h].passed = passed]
  /\ proven' = IF passed THEN proven \cup {<<judge[h].agent, judge[h].url>>}
               ELSE proven
  /\ UNCHANGED <<agents, scoring, challenges, faults>>

(* Variant: a challenge that failed is taken as passed.                    *)
VerdictLenient(h) == "verify"

(* A passed challenge verifies the agent, a failed one is an event.        *)
Verdict(h) == IF judge[h].passed THEN "verify" ELSE "read"

(* SQLiteStore.UpdateChallengeStatus                                       *)
UpdateChallengeStatus(h) ==
  /\ JudgeAt(h, "status")
  /\ challenges' = [challenges EXCEPT ![judge[h].nonce].status =
                      IF judge[h].passed THEN "verified" ELSE "failed"]
  /\ judge' = [judge EXCEPT ![h].at = Verdict(h), ![h].nonce = None,
                            ![h].url = None]
  /\ UNCHANGED <<agents, scoring, proven, faults>>

(* Its error is ignored.                                                   *)
UpdateChallengeStatusFails(h) ==
  /\ JudgeAt(h, "status")
  /\ judge' = [judge EXCEPT ![h].at = Verdict(h), ![h].nonce = None,
                            ![h].url = None]
  /\ Fault
  /\ UNCHANGED <<agents, scoring, challenges, proven>>

(* Engine.SetVerified: SetAgentVerified, then the event.                   *)
SetAgentVerified(a) ==
  verified' = IF endpoint[a] = None THEN verified ELSE verified \cup {a}

SetVerified(h) ==
  /\ JudgeAt(h, "verify")
  /\ SetAgentVerified(judge[h].agent)
  /\ judge' = [judge EXCEPT ![h].at = "read", ![h].passed = FALSE]
  /\ UNCHANGED <<endpoint, vouched, scoring, challenges, proven, faults>>

(* handleAdminVerifyAgent and the bulk action.                             *)
AdminVerify(h, a) ==
  /\ judge[h] = NoJudge
  /\ SetAgentVerified(a)
  /\ vouched' = IF endpoint[a] = None THEN vouched ELSE vouched \cup {a}
  /\ judge' = [judge EXCEPT ![h] = [NoJudge EXCEPT !.at = "read", !.agent = a]]
  /\ UNCHANGED <<endpoint, scoring, challenges, proven, faults>>

(* Engine.UnsetVerified                                                    *)
UnsetVerified(a) ==
  /\ verified' = verified \ {a}
  /\ vouched' = vouched \ {a}
  /\ UNCHANGED <<endpoint, scoring, challenges, judge, proven, faults>>

-----------------------------------------------------------------------------
(* handleProviderUpdateAgent sets another endpoint; an upsert leaves the   *)
(* columns of this module alone.                                           *)
MoveEndpoint(a, url) ==
  /\ endpoint[a] \notin {None, url}
  /\ endpoint' = [endpoint EXCEPT ![a] = url]
  /\ UNCHANGED <<verified, vouched, scoring, challenges, judge, proven, faults>>

(* The agent is deleted: its columns go with the row.                      *)
DeleteAgent(a) ==
  /\ endpoint[a] # None
  /\ endpoint' = [endpoint EXCEPT ![a] = None]
  /\ verified' = verified \ {a}
  /\ score' = [score EXCEPT ![a] = DefaultScore]
  /\ excused' = excused \cup Counted(a)
  /\ UNCHANGED <<vouched, log, challenges, judge, proven, faults>>

(* retention.Service.RunOnce prunes old events.                            *)
PruneEvents(e) ==
  /\ log[e] # None
  /\ \A h \in Handler : judge[h].event # e
  /\ log' = [log EXCEPT ![e] = None]
  /\ excused' = excused \cup {e}
  /\ UNCHANGED <<agents, score, challenges, judge, proven, faults>>

RepCrash ==
  /\ Fault
  /\ judge' = [h \in Handler |-> NoJudge]
  /\ excused' = excused \cup {e \in Event : \E h \in Handler : judge[h].event = e}
  /\ UNCHANGED <<agents, score, log, challenges, proven>>

RecordEvent(h) ==
  \/ ReadScore(h) \/ ReadScoreFails(h)
  \/ \E e \in Event : InsertEvent(h, e)
  \/ UpdateScore(h) \/ UpdateScoreFails(h)

handleVerifyEndpoint(h) ==
  \/ \E a \in Agent, n \in Challenge : InitiateChallenge(h, a, n)
  \/ \E passed \in BOOLEAN : AnswerChallenge(h, passed)
  \/ UpdateChallengeStatus(h) \/ UpdateChallengeStatusFails(h)
  \/ SetVerified(h)

RepNext ==
  \/ \E h \in Handler :
       \/ \E a \in Agent : StartEvent(h, a) \/ AdminVerify(h, a)
       \/ RecordEvent(h) \/ handleVerifyEndpoint(h)
  \/ \E a \in Agent : UnsetVerified(a) \/ DeleteAgent(a)
                      \/ \E url \in Url : MoveEndpoint(a, url)
  \/ \E e \in Event : PruneEvents(e)
  \/ RepCrash

RepSpec == RepInit /\ [][RepNext]_repVars

-----------------------------------------------------------------------------
(* The log and the cached score tell the same story: what was folded into  *)
(* the score was logged first, and what is logged is in the score once its *)
(* goroutine is done, unless two recordings of one agent overlapped, a     *)
(* statement failed, the agent went or the event was pruned (RecordEvent). *)
ScoreFollowsLog ==
  \A a \in Agent, e \in Event :
    /\ e \in score[a].folded \ excused => log[e] # None /\ log[e].agent = a
    /\ log[e] # None /\ log[e].agent = a /\ e \notin excused =>
         \/ e \in score[a].folded
         \/ \E h \in Handler : judge[h].event = e

(* A verified agent passed a challenge at some endpoint of its own, or an  *)
(* administrator vouched for it; deletion, failed statements and answers   *)
(* that come late do not make another agent verified (handleVerifyEndpoint,*)
(* SetVerified).                                                           *)
VerifiedWasChallenged ==
  \A a \in verified : a \in vouched \/ \E url \in Url : <<a, url>> \in proven

=============================================================================
