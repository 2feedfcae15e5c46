---------------------------- MODULE ServiceProofs ----------------------------
(***************************************************************************)
(* Proofs about the services: the notifications, the rate limiter, the    *)
(* reputation and the reviews, one part for each module with its inductive *)
(* invariant first; and, from these and the proofs about the other        *)
(* services, what holds of all of them in one process.                    *)
(***************************************************************************)
EXTENDS MCServices, AccessProofs, BridgeProofs, LifecycleProofs


-----------------------------------------------------------------------------
(* Notifications (internal/notification).                                  *)
-----------------------------------------------------------------------------
Row == [user : User, read : BOOLEAN]
SocketStage == {"none", "accepted", "reading", "leaving", "gone"}
SocketRecord == [user : User \cup {None}, open : BOOLEAN, at : SocketStage]
NotifyStage == {"idle", "look up", "push"}
NotifyRecord == [note : Note \cup {None}, at : NotifyStage, socket : Socket \cup {None}]

(* The inductive invariant: the shapes, that a socket past the upgrade has  *)
(* a user, that a Notify under way has its row until it looked the socket   *)
(* up, and the property.                                                    *)
NoteShapes ==
  /\ sockets \in [Socket -> SocketRecord]
  /\ conns \in [User -> Socket \cup {None}]
  /\ notes \in [Note -> Row \cup {None}]
  /\ notifying \in [Handler -> NotifyRecord]
  /\ shown \subseteq Note

SocketHasUser == \A s \in Socket : sockets[s].at # "none" => sockets[s].user \in User

NotifyHasRow ==
  \A h \in Handler :
    /\ notifying[h].at # "idle" => notifying[h].note \in Note
    /\ notifying[h].at = "look up" => notes[notifying[h].note] \in Row

NoteIInv == NoteShapes /\ SocketHasUser /\ NotifyHasRow /\ OpenSocketIsRegistered

(* No socket and no note in the initial state.                              *)
LEMMA NoteInitially == NoteInit => NoteIInv
<1>. SUFFICES ASSUME NoteInit PROVE NoteIInv
  OBVIOUS
<1>1. NoSocket \in SocketRecord /\ NoSocket.at = "none"
  BY DEF NoSocket, SocketRecord, SocketStage
<1>2. NotNotifying \in NotifyRecord /\ NotNotifying.at = "idle"
  BY DEF NotNotifying, NotifyRecord, NotifyStage
<1>3. NoteShapes
  BY <1>1, <1>2 DEF NoteInit, NoteShapes
<1>. QED
  BY <1>1, <1>2, <1>3
  DEF NoteInit, NoteIInv, SocketHasUser, NotifyHasRow, OpenSocketIsRegistered

(* What handleNotificationWS and the peer do to the sockets and the hub.    *)
LEMMA SocketSteps ==
  ASSUME NoteIInv, NEW s \in Socket, handleNotificationWS(s) \/ SocketCloses(s)
  PROVE  NoteIInv'
<1>. USE DEF NoteIInv, NoteShapes, SocketHasUser, OpenSocketIsRegistered,
         SocketRecord, SocketStage
<1>1. UNCHANGED <<notes, notifying, shown>>
  BY DEF handleNotificationWS, AcceptSocket, AddConn, ReadFails, RemoveConn,
     SocketCloses
<1>2. NotifyHasRow'
  BY <1>1 DEF NotifyHasRow
<1>3. ASSUME NEW u \in User, AcceptSocket(s, u)
      PROVE  NoteIInv'
  BY <1>1, <1>2, <1>3 DEF AcceptSocket, NoSocket
<1>4. CASE AddConn(s)
  <2>. DEFINE u == sockets[s].user
  <2>1. u \in User
    BY <1>4 DEF AddConn
  <2>2. NoteShapes' /\ SocketHasUser'
    BY <1>1, <1>4, <2>1 DEF AddConn
  <2>3. ASSUME NEW t \in Socket, sockets'[t].at = "reading", sockets'[t].open
        PROVE  conns'[sockets'[t].user] = t
    <3>1. CASE t = s
      BY <1>4, <2>1, <3>1 DEF AddConn
    <3>2. CASE t # s /\ t # conns[u]
      BY <1>4, <2>1, <2>3, <3>2 DEF AddConn
    <3>3. CASE t # s /\ t = conns[u]
      BY <1>4, <2>1, <2>3, <3>3 DEF AddConn
    <3>. QED
      BY <3>1, <3>2, <3>3
  <2>. QED
    BY <1>2, <2>2, <2>3
<1>5. CASE ReadFails(s)
  BY <1>1, <1>2, <1>5 DEF ReadFails
<1>6. CASE RemoveConn(s)
  <2>1. sockets[s].user \in User
    BY <1>6 DEF RemoveConn
  <2>. QED
    BY <1>1, <1>2, <1>6, <2>1 DEF RemoveConn
<1>7. CASE SocketCloses(s)
  BY <1>1, <1>2, <1>7 DEF SocketCloses
<1>. QED
  BY <1>3, <1>4, <1>5, <1>6, <1>7 DEF handleNotificationWS

(* What Notify, the handlers of the list and the retention pass do to the   *)
(* rows: the sockets and the hub stay as they are.                          *)
LEMMA NoteSteps ==
  ASSUME NoteIInv, UNCHANGED <<sockets, conns>>,
         \/ \E h \in Handler : Notify(h)
         \/ \E u \in User : MarkAllRead(u) \/ (\E n \in Note : MarkNoteRead(n, u))
         \/ \E n \in Note : PruneNote(n)
  PROVE  NoteIInv'
<1>. USE DEF NoteIInv, NoteShapes, NotifyHasRow, Row, NotifyRecord, NotifyStage
<1>1. SocketHasUser' /\ OpenSocketIsRegistered'
  BY DEF SocketHasUser, OpenSocketIsRegistered
<1>2. ASSUME NEW h \in Handler, NEW n \in Note, NEW u \in User, CreateNote(h, n, u)
      PROVE  NoteIInv'
  BY <1>1, <1>2 DEF CreateNote
<1>3. ASSUME NEW h \in Handler, LookUpConn(h)
      PROVE  NoteIInv'
  <2>1. conns[notes[notifying[h].note].user] \in Socket \cup {None}
    BY <1>3 DEF LookUpConn
  <2>. QED
    BY <1>1, <1>3, <2>1 DEF LookUpConn
<1>4. ASSUME NEW h \in Handler, WriteNote(h)
      PROVE  NoteIInv'
  <2>1. shown' \subseteq Note
    BY <1>4 DEF WriteNote
  <2>2. notifying' \in [Handler -> NotifyRecord]
    BY <1>4 DEF WriteNote, NotNotifying
  <2>3. NotifyHasRow'
    BY <1>4 DEF WriteNote, NotNotifying
  <2>. QED
    BY <1>1, <1>4, <2>1, <2>2, <2>3 DEF WriteNote
<1>5. ASSUME NEW u \in User, MarkAllRead(u)
      PROVE  NoteIInv'
  BY <1>1, <1>5 DEF MarkAllRead
<1>6. ASSUME NEW u \in User, NEW n \in Note, MarkNoteRead(n, u)
      PROVE  NoteIInv'
  BY <1>1, <1>6 DEF MarkNoteRead
<1>7. ASSUME NEW n \in Note, PruneNote(n)
      PROVE  NoteIInv'
  BY <1>1, <1>7 DEF PruneNote
<1>. QED
  BY <1>2, <1>3, <1>4, <1>5, <1>6, <1>7 DEF Notify

(* The invariant is inductive.                                              *)
LEMMA NoteStep == NoteIInv /\ [NoteNext]_<<noteVars, faults>> => NoteIInv'
<1>. SUFFICES ASSUME NoteIInv, [NoteNext]_<<noteVars, faults>>
              PROVE  NoteIInv'
  OBVIOUS
<1>1. ASSUME NEW s \in Socket, handleNotificationWS(s) \/ SocketCloses(s)
      PROVE  NoteIInv'
  BY <1>1, SocketSteps
<1>2. CASE \/ \E h \in Handler : Notify(h)
           \/ \E u \in User : MarkAllRead(u) \/ (\E n \in Note : MarkNoteRead(n, u))
           \/ \E n \in Note : PruneNote(n)
  <2>1. UNCHANGED <<sockets, conns>>
    BY <1>2 DEF Notify, CreateNote, LookUpConn, WriteNote, MarkAllRead,
       MarkNoteRead, PruneNote
  <2>. QED
    BY <1>2, <2>1, NoteSteps
<1>3. CASE UNCHANGED <<noteVars, faults>>
  BY <1>3 DEF NoteIInv, NoteShapes, SocketHasUser, NotifyHasRow,
     OpenSocketIsRegistered, noteVars
<1>. QED
  BY <1>1, <1>2, <1>3 DEF NoteNext

LEMMA NoteInvariant == NoteSpec => []NoteIInv
<1>. QED
  BY NoteInitially, NoteStep, PTL DEF NoteSpec

(* The tables, the hub and the goroutines keep their types: the row of a    *)
(* Notify under way is there when it is looked up (notification/service.go).*)
THEOREM NotificationTypes == NoteSpec => []NoteTypeOK
<1>1. NoteIInv => NoteTypeOK
  BY DEF NoteIInv, NoteShapes, NoteTypeOK, Row, SocketRecord, SocketStage,
     NotifyRecord, NotifyStage
<1>. QED
  BY <1>1, NoteInvariant, PTL

(* The dashboard that is connected is the one notifications go to, however  *)
(* many sockets of a user come and go (notification/ws.go:33-50).           *)
THEOREM OpenSocketRegistered == NoteSpec => []OpenSocketIsRegistered
<1>1. NoteIInv => OpenSocketIsRegistered
  BY DEF NoteIInv
<1>. QED
  BY <1>1, NoteInvariant, PTL

-----------------------------------------------------------------------------
(* The rate limiter (server/ratelimit.go).                                 *)
-----------------------------------------------------------------------------
(* A request costs Period tokens.                                           *)
Spent(k) == allowed[k] * Period

(* The argument: what a key has spent and what it still has never exceed a  *)
(* full bucket and the time; a bucket is full or gained a token with each   *)
(* tick since it was last seen, so that one idle long enough is full, and   *)
(* forgetting it is as good as keeping it.                                  *)
Accounted(k) ==
  IF limiters[k] = None THEN Spent(k) <= now
  ELSE /\ Spent(k) + limiters[k].tokens <= Full + now
       /\ limiters[k].lastSeen <= now
       /\ \/ limiters[k].tokens = Full
          \/ limiters[k].tokens >= now - limiters[k].lastSeen

LimIInv == LimTypeOK /\ (Full <= IdleTicks + 1 => \A k \in ClientKey : Accounted(k))

(* A bucket's size is a number.                                             *)
LEMMA FullNat == Full \in Nat
  BY LimiterConstants DEF Full

(* One more request costs one more period.                                  *)
LEMMA SpendOne ==
  ASSUME NEW a \in Nat
  PROVE  a * Period \in Nat /\ (a + 1) * Period = a * Period + Period
  BY LimiterConstants

(* The steps keep the types.                                                *)
LEMMA LimTypeStep == LimTypeOK /\ [LimNext]_<<limVars, faults>> => LimTypeOK'
<1>. SUFFICES ASSUME LimTypeOK, [LimNext]_<<limVars, faults>>
              PROVE  LimTypeOK'
  OBVIOUS
<1>. USE LimiterConstants, FullNat, NoneIsNoBucket DEF LimTypeOK, Bucket
<1>1. CASE Tick
  BY <1>1 DEF Tick, Gain
<1>2. ASSUME NEW k \in ClientKey, Allow(k)
      PROVE  LimTypeOK'
  <2>1. GetLimiter(k).tokens \in 0..Full
    BY DEF GetLimiter
  <2>2. GetLimiter(k).tokens - Period \in 0..Full
    BY <1>2, <2>1 DEF Allow
  <2>. QED
    BY <1>2, <2>2 DEF Allow
<1>3. ASSUME NEW k \in ClientKey, Deny(k)
      PROVE  LimTypeOK'
  BY <1>3 DEF Deny, GetLimiter
<1>4. CASE Cleanup
  BY <1>4 DEF Cleanup
<1>5. CASE UNCHANGED limVars
  BY <1>5 DEF limVars
<1>. QED
  BY <1>1, <1>2, <1>3, <1>4, <1>5 DEF LimNext

(* The steps keep the account.                                              *)
LEMMA AccountStep ==
  ASSUME LimIInv, LimTypeOK', [LimNext]_<<limVars, faults>>, Full <= IdleTicks + 1,
         NEW k \in ClientKey
  PROVE  Accounted(k)'
<1>. USE LimiterConstants, FullNat, NoneIsNoBucket DEF LimTypeOK
<1>1. Accounted(k) /\ Spent(k) \in Nat
  BY SpendOne DEF LimIInv, Spent
<1>2. limiters[k] # None => limiters[k] \in Bucket
  BY DEF LimIInv
<1>3. CASE Tick
  <2>1. Spent(k)' = Spent(k) /\ now' = now + 1
    BY <1>3 DEF Tick, Spent
  <2>2. CASE limiters[k] = None
    BY <1>1, <1>3, <2>1, <2>2 DEF Tick, Accounted, LimIInv
  <2>3. CASE limiters[k] # None
    <3>1. /\ limiters'[k] # None
          /\ limiters'[k].tokens = Gain(limiters[k].tokens)
          /\ limiters'[k].lastSeen = limiters[k].lastSeen
      BY <1>2, <1>3, <2>3 DEF Tick, Bucket, Gain
    <3>. QED
      BY <1>1, <1>2, <2>1, <2>3, <3>1 DEF Accounted, Gain, Bucket, LimIInv
  <2>. QED
    BY <2>2, <2>3
<1>4. ASSUME NEW j \in ClientKey, Allow(j) \/ Deny(j), j # k
      PROVE  Accounted(k)'
  BY <1>1, <1>4 DEF Allow, Deny, Accounted, Spent, LimIInv
<1>5. CASE Allow(k)
  <2>. DEFINE b == [tokens |-> GetLimiter(k).tokens - Period, lastSeen |-> now]
  <2>1. limiters'[k] = b /\ now' = now
    BY <1>5 DEF Allow, LimIInv
  <2>2. b # None
    <3>1. GetLimiter(k).tokens \in 0..Full /\ GetLimiter(k).tokens >= Period
      BY <1>2, <1>5 DEF GetLimiter, Bucket, Allow
    <3>2. b \in Bucket
      BY <3>1 DEF Bucket, LimIInv
    <3>. QED
      BY <3>2
  <2>3. Spent(k)' = Spent(k) + Period
    BY <1>5, SpendOne DEF Allow, Spent, LimIInv
  <2>4. Spent(k) + GetLimiter(k).tokens <= Full + now
    BY <1>1, <1>2 DEF Accounted, GetLimiter, Bucket, LimIInv
  <2>5. GetLimiter(k).tokens \in 0..Full /\ GetLimiter(k).tokens >= Period
    BY <1>2, <1>5 DEF GetLimiter, Bucket, Allow
  <2>. QED
    BY <1>1, <2>1, <2>2, <2>3, <2>4, <2>5 DEF Accounted, LimIInv
<1>6. CASE Deny(k)
  <2>1. /\ limiters'[k] = GetLimiter(k) /\ now' = now
        /\ Spent(k)' = Spent(k)
    BY <1>6 DEF Deny, Spent, LimIInv
  <2>2. CASE limiters[k] = None
    <3>1. GetLimiter(k) = [tokens |-> Full, lastSeen |-> now]
      BY <2>2 DEF GetLimiter
    <3>2. GetLimiter(k) # None
      BY <3>1 DEF LimIInv, Bucket
    <3>. QED
      BY <1>1, <2>1, <2>2, <3>1, <3>2 DEF Accounted, LimIInv
  <2>3. CASE limiters[k] # None
    <3>1. /\ GetLimiter(k).tokens = limiters[k].tokens
          /\ GetLimiter(k).lastSeen = now
          /\ GetLimiter(k) \in Bucket
      BY <1>2, <2>3 DEF GetLimiter, Bucket, LimIInv
    <3>. QED
      BY <1>1, <1>2, <2>1, <2>3, <3>1 DEF Accounted, Bucket, LimIInv
  <2>. QED
    BY <2>2, <2>3
<1>7. CASE Cleanup
  <2>1. Spent(k)' = Spent(k) /\ now' = now
    BY <1>7 DEF Cleanup, Spent
  <2>2. CASE Stale(k)
    <3>1. limiters[k] # None /\ limiters[k].tokens = Full
      <4>1. limiters[k] # None /\ now - limiters[k].lastSeen > IdleTicks
        BY <2>2 DEF Stale
      <4>2. limiters[k].tokens \in 0..Full /\ limiters[k].lastSeen \in 0..Horizon
        BY <1>2, <4>1 DEF Bucket
      <4>3. \/ limiters[k].tokens = Full
            \/ limiters[k].tokens >= now - limiters[k].lastSeen
        BY <1>1, <4>1 DEF Accounted
      <4>4. now \in Nat
        BY DEF LimIInv
      <4>. HIDE DEF LimTypeOK
      <4>. QED
        BY <4>1, <4>2, <4>3, <4>4
    <3>. QED
      BY <1>1, <1>7, <2>1, <2>2, <3>1 DEF Cleanup, Accounted, LimIInv
  <2>3. CASE ~Stale(k)
    BY <1>1, <1>7, <2>1, <2>3 DEF Cleanup, Accounted
  <2>. QED
    BY <2>2, <2>3
<1>8. CASE UNCHANGED limVars
  BY <1>1, <1>8 DEF limVars, Accounted, Spent
<1>. QED
  BY <1>3, <1>4, <1>5, <1>6, <1>7, <1>8 DEF LimNext

LEMMA LimStart == LimInit => LimIInv
  BY LimiterConstants, FullNat DEF LimInit, LimIInv, LimTypeOK, Accounted, Spent

LEMMA LimStep == LimIInv /\ [LimNext]_<<limVars, faults>> => LimIInv'
<1>. SUFFICES ASSUME LimIInv, [LimNext]_<<limVars, faults>>
              PROVE  LimIInv'
  OBVIOUS
<1>1. LimTypeOK'
  BY LimTypeStep DEF LimIInv
<1>2. Full <= IdleTicks + 1 => \A k \in ClientKey : Accounted(k)'
  BY <1>1, AccountStep
<1>. QED
  BY <1>1, <1>2 DEF LimIInv

LEMMA LimInvariant == LimSpec => []LimIInv
  BY LimStart, LimStep, PTL DEF LimSpec

(* The buckets stay within their bounds.                                    *)
THEOREM LimiterTypes == LimSpec => []LimTypeOK
<1>1. LimIInv => LimTypeOK
  BY DEF LimIInv
<1>. QED
  BY <1>1, LimInvariant, PTL

(* The clean-up gives no key more than its burst and its rate when a bucket *)
(* fills up within the idle time (ratelimit.go:70-96).                      *)
THEOREM CleanupTransparent == LimSpec => []CleanupIsTransparent
<1>1. LimIInv => CleanupIsTransparent
  <2>. SUFFICES ASSUME LimIInv, Full <= IdleTicks + 1, NEW k \in ClientKey
                PROVE  Spent(k) <= Full + now
    BY DEF CleanupIsTransparent, Spent
  <2>1. Accounted(k) /\ Spent(k) \in Nat /\ now \in Nat
    BY SpendOne, LimiterConstants DEF LimIInv, LimTypeOK, Spent
  <2>. QED
    BY <2>1, FullNat DEF Accounted, LimIInv, LimTypeOK, Bucket
<1>. QED
  BY <1>1, LimInvariant, PTL

-----------------------------------------------------------------------------
(* Reputation (internal/reputation, internal/verification).                *)
-----------------------------------------------------------------------------
(* The rows of the log and of the challenges.                              *)
LogRow == [agent : Agent, after : Score]
ChallengeRow == [agent : Agent, status : {"pending", "failed", "verified"}]

(* An agent that answered a challenge.                                     *)
Proven(a) == \E url \in Url : <<a, url>> \in proven

(* Who has read the score of an agent and not written it has what the      *)
(* score has, but for the excused events: whatever another recording wrote *)
(* meanwhile is excused by the overlap.  Who has inserted an event finds it*)
(* in the log, and who is to verify an agent has its proof.                *)
JudgeOK(h) ==
  /\ judge[h].at # "idle" => judge[h].agent \in Agent
  /\ judge[h].at \in {"ask", "status"} =>
       judge[h].nonce \in Challenge /\ challenges[judge[h].nonce] \in ChallengeRow
  /\ judge[h].at = "ask" => judge[h].url \in Url
  /\ judge[h].at = "verify" \/ (judge[h].at = "status" /\ judge[h].passed)
       => Proven(judge[h].agent)
  /\ judge[h].at # "update" => judge[h].event = None
  /\ judge[h].at = "update" =>
       /\ judge[h].event \in Event
       /\ log[judge[h].event] # None /\ log[judge[h].event].agent = judge[h].agent
  /\ judge[h].at \in {"insert", "update"} =>
       judge[h].base.folded \ excused = score[judge[h].agent].folded \ excused

(* A deleted agent's score is gone.                                        *)
GoneInv == \A a \in Agent : endpoint[a] = None => score[a].folded = {}

Tables ==
  /\ endpoint \in [Agent -> Url \cup {None}]
  /\ score \in [Agent -> Score]
  /\ log \in [Event -> LogRow \cup {None}]
  /\ excused \in SUBSET Event

Proofs ==
  /\ verified \in SUBSET Agent
  /\ challenges \in [Challenge -> ChallengeRow \cup {None}]
  /\ proven \in SUBSET (Agent \X Url)
  /\ vouched \in SUBSET Agent
  /\ faults \in 0..MaxFaults

RepIInv ==
  /\ Tables /\ Proofs /\ judge \in [Handler -> Judging]
  /\ \A h \in Handler : JudgeOK(h)
  /\ GoneInv /\ ScoreFollowsLog /\ VerifiedWasChallenged

LEMMA RepTypeParts == RepTypeOK <=> Tables /\ Proofs /\ judge \in [Handler -> Judging]
  BY DEF RepTypeOK, Tables, Proofs, LogRow, ChallengeRow

(* A goroutine that is at nothing.                                         *)
LEMMA NoJudgeIdle ==
  /\ NoJudge \in Judging /\ NoJudge.at = "idle" /\ NoJudge.event = None
  /\ NoJudge.passed = FALSE
  BY DEF NoJudge, Judging, DefaultScore, Score

LEMMA RepStart == RepInit => RepIInv
<1>. SUFFICES ASSUME RepInit PROVE RepIInv
  OBVIOUS
<1>1. DefaultScore \in Score /\ DefaultScore.folded = {}
  BY DEF DefaultScore, Score
<1>2. Tables /\ Proofs /\ judge \in [Handler -> Judging]
  BY <1>1, NoJudgeIdle, FaultBound DEF RepInit, Tables, Proofs
<1>3. \A h \in Handler : JudgeOK(h)
  BY NoJudgeIdle DEF RepInit, JudgeOK
<1>4. GoneInv /\ ScoreFollowsLog /\ VerifiedWasChallenged
  BY <1>1 DEF RepInit, GoneInv, ScoreFollowsLog, VerifiedWasChallenged
<1>. QED
  BY <1>2, <1>3, <1>4 DEF RepIInv

-----------------------------------------------------------------------------
(* A step of one goroutine that leaves the scores and the log alone.       *)
LEMMA JudgeMoves ==
  ASSUME RepIInv, NEW h \in Handler, NEW w \in Judging, judge' = [judge EXCEPT ![h] = w],
         w.event = judge[h].event, UNCHANGED <<endpoint, scoring>>,
         Proofs', \A n \in Challenge : challenges[n] \in ChallengeRow
                                         => challenges'[n] \in ChallengeRow,
         proven \subseteq proven', VerifiedWasChallenged', JudgeOK(h)'
  PROVE  RepIInv'
<1>1. /\ judge' \in [Handler -> Judging] /\ judge'[h] = w
      /\ \A g \in Handler \ {h} : judge'[g] = judge[g]
      /\ \A g \in Handler : judge'[g].event = judge[g].event
  BY DEF RepIInv
<1>2. Tables' /\ GoneInv'
  BY DEF RepIInv, scoring, Tables, GoneInv
<1>3. ScoreFollowsLog'
  BY <1>1 DEF RepIInv, scoring, ScoreFollowsLog
<1>4. ASSUME NEW g \in Handler \ {h}
      PROVE  JudgeOK(g)'
  <2>1. JudgeOK(g) /\ judge'[g] = judge[g] /\ UNCHANGED <<score, log, excused>>
    BY <1>1 DEF RepIInv, scoring
  <2>2. judge[g].at = "verify" \/ (judge[g].at = "status" /\ judge[g].passed)
          => \E url \in Url : <<judge[g].agent, url>> \in proven'
    BY <2>1 DEF JudgeOK, Proven
  <2>. QED
    BY <2>1, <2>2 DEF JudgeOK, Proven
<1>. QED
  BY <1>1, <1>2, <1>3, <1>4 DEF RepIInv

LEMMA StartKeeps ==
  ASSUME RepIInv, NEW h \in Handler, NEW a \in Agent, StartEvent(h, a) \/ AdminVerify(h, a)
  PROVE  RepIInv'
<1>. DEFINE w == [NoJudge EXCEPT !.at = "read", !.agent = a]
<1>1. w \in Judging /\ w.at = "read" /\ w.agent = a /\ w.event = None
  BY NoJudgeIdle DEF Judging, NoJudge
<1>2. /\ judge' = [judge EXCEPT ![h] = w] /\ judge[h] = NoJudge
      /\ UNCHANGED <<endpoint, scoring, challenges, proven, faults>>
  BY DEF StartEvent, AdminVerify, agents
<1>. HIDE DEF w
<1>3. judge'[h] = w
  BY <1>2 DEF RepIInv
<1>4. \/ UNCHANGED <<verified, vouched>>
      \/ verified' = verified \cup {a} /\ vouched' = vouched \cup {a}
  BY DEF StartEvent, AdminVerify, SetAgentVerified, agents
<1>5. Proofs' /\ VerifiedWasChallenged'
  BY <1>2, <1>4 DEF RepIInv, Proofs, VerifiedWasChallenged
<1>6. JudgeOK(h)'
  BY <1>1, <1>3 DEF JudgeOK
<1>. QED
  BY <1>1, <1>2, <1>5, <1>6, NoJudgeIdle, JudgeMoves

LEMMA ReadScoreKeeps ==
  ASSUME RepIInv, NEW h \in Handler, ReadScore(h)
  PROVE  RepIInv'
<1>. DEFINE w == [judge[h] EXCEPT !.at = "insert", !.base = GetScore(judge[h].agent)]
<1>1. /\ judge' = [judge EXCEPT ![h] = w] /\ judge[h].at = "read"
      /\ UNCHANGED <<agents, scoring, challenges, proven, faults>>
  BY DEF ReadScore, JudgeAt
<1>2. judge[h] \in Judging /\ JudgeOK(h)
  BY DEF RepIInv
<1>3. PICK a \in Agent : judge[h].agent = a
  BY <1>1, <1>2 DEF JudgeOK
<1>4. /\ GetScore(a) \in Score /\ GetScore(a).folded = score[a].folded
  BY DEF RepIInv, Tables, GetScore, DefaultScore, Score, GoneInv
<1>5. /\ w \in Judging /\ w.at = "insert" /\ w.agent = a /\ w.event = judge[h].event
      /\ w.base = GetScore(a)
  BY <1>2, <1>3, <1>4 DEF Judging
<1>. HIDE DEF w
<1>6. judge'[h] = w /\ judge[h].event = None
  BY <1>1, <1>2 DEF RepIInv, JudgeOK
<1>7. UNCHANGED <<score, log, excused>>
  BY <1>1 DEF scoring
<1>8. JudgeOK(h)'
  BY <1>4, <1>5, <1>6, <1>7 DEF JudgeOK
<1>9. Proofs' /\ VerifiedWasChallenged'
  BY <1>1 DEF RepIInv, Proofs, VerifiedWasChallenged, agents
<1>. QED
  BY <1>1, <1>5, <1>8, <1>9, JudgeMoves DEF agents

LEMMA ChallengeKeeps ==
  ASSUME RepIInv, NEW h \in Handler, NEW a \in Agent, NEW n \in Challenge,
         InitiateChallenge(h, a, n)
  PROVE  RepIInv'
<1>. DEFINE w == [NoJudge EXCEPT !.at = "ask", !.agent = a, !.url = endpoint[a], !.nonce = n]
            row == [agent |-> a, status |-> "pending"]
<1>1. /\ judge' = [judge EXCEPT ![h] = w] /\ judge[h] = NoJudge /\ endpoint[a] # None
      /\ challenges' = [challenges EXCEPT ![n] = row]
      /\ UNCHANGED <<agents, scoring, proven, faults>>
  BY DEF InitiateChallenge
<1>2. endpoint[a] \in Url
  BY <1>1 DEF RepIInv, Tables
<1>3. /\ w \in Judging /\ w.at = "ask" /\ w.agent = a /\ w.event = None /\ w.nonce = n
      /\ w.url \in Url
  BY <1>2, NoJudgeIdle DEF Judging, NoJudge
<1>4. row \in ChallengeRow
  BY DEF ChallengeRow
<1>. HIDE DEF w, row
<1>5. judge'[h] = w
  BY <1>1 DEF RepIInv
<1>6. /\ challenges' \in [Challenge -> ChallengeRow \cup {None}]
      /\ challenges'[n] = row /\ \A m \in Challenge \ {n} : challenges'[m] = challenges[m]
  BY <1>1, <1>4 DEF RepIInv, Proofs
<1>7. Proofs' /\ VerifiedWasChallenged'
  BY <1>1, <1>6 DEF RepIInv, Proofs, VerifiedWasChallenged, agents
<1>8. JudgeOK(h)'
  BY <1>3, <1>4, <1>5, <1>6 DEF JudgeOK
<1>9. \A m \in Challenge : challenges[m] \in ChallengeRow => challenges'[m] \in ChallengeRow
  BY <1>4, <1>6
<1>. QED
  BY <1>1, <1>3, <1>7, <1>8, <1>9, NoJudgeIdle, JudgeMoves DEF agents

LEMMA AnswerKeeps ==
  ASSUME RepIInv, NEW h \in Handler, NEW passed \in BOOLEAN, AnswerChallenge(h, passed)
  PROVE  RepIInv'
<1>. DEFINE w == [judge[h] EXCEPT !.at = "status", !.passed = passed]
<1>1. /\ judge' = [judge EXCEPT ![h] = w] /\ judge[h].at = "ask"
      /\ proven' = IF passed THEN proven \cup {<<judge[h].agent, judge[h].url>>} ELSE proven
      /\ UNCHANGED <<agents, scoring, challenges, faults>>
  BY DEF AnswerChallenge, JudgeAt
<1>2. judge[h] \in Judging /\ JudgeOK(h)
  BY DEF RepIInv
<1>3. PICK a \in Agent, u \in Url : judge[h].agent = a /\ judge[h].url = u
  BY <1>1, <1>2 DEF JudgeOK
<1>4. /\ w \in Judging /\ w.at = "status" /\ w.agent = a /\ w.event = judge[h].event
      /\ w.nonce = judge[h].nonce /\ w.passed = passed
  BY <1>2, <1>3 DEF Judging
<1>. HIDE DEF w
<1>5. judge'[h] = w /\ judge[h].event = None
  BY <1>1, <1>2 DEF RepIInv, JudgeOK
<1>6. /\ proven \subseteq proven' /\ proven' \in SUBSET (Agent \X Url)
      /\ passed => <<a, u>> \in proven'
  BY <1>1, <1>3 DEF RepIInv, Proofs
<1>7. passed => Proven(a)'
  BY <1>6 DEF Proven
<1>8. JudgeOK(h)'
  BY <1>1, <1>2, <1>4, <1>5, <1>7 DEF JudgeOK, Proven
<1>9. Proofs' /\ VerifiedWasChallenged'
  BY <1>1, <1>6 DEF RepIInv, Proofs, VerifiedWasChallenged, agents
<1>. QED
  BY <1>1, <1>4, <1>6, <1>8, <1>9, JudgeMoves DEF agents

LEMMA StatusKeeps ==
  ASSUME RepIInv, NEW h \in Handler,
         UpdateChallengeStatus(h) \/ UpdateChallengeStatusFails(h)
  PROVE  RepIInv'
<1>. DEFINE w == [judge[h] EXCEPT !.at = Verdict(h), !.nonce = None, !.url = None]
<1>1. /\ judge' = [judge EXCEPT ![h] = w] /\ judge[h].at = "status"
      /\ UNCHANGED <<agents, scoring, proven>>
  BY DEF UpdateChallengeStatus, UpdateChallengeStatusFails, JudgeAt
<1>2. judge[h] \in Judging /\ JudgeOK(h)
  BY DEF RepIInv
<1>3. PICK a \in Agent, n \in Challenge :
        judge[h].agent = a /\ judge[h].nonce = n /\ challenges[n] \in ChallengeRow
  BY <1>1, <1>2 DEF JudgeOK
<1>4. Verdict(h) \in {"verify", "read"} /\ (Verdict(h) = "verify" => judge[h].passed)
  BY DEF Verdict
<1>5. /\ w \in Judging /\ w.at = Verdict(h) /\ w.agent = a /\ w.event = judge[h].event
  BY <1>2, <1>3, <1>4 DEF Judging
<1>6. judge[h].event = None /\ (judge[h].passed => Proven(a))
  BY <1>1, <1>2, <1>3 DEF JudgeOK
<1>. HIDE DEF w
<1>7. judge'[h] = w /\ Proven(a)' = Proven(a)
  BY <1>1 DEF RepIInv, Proven
<1>8. JudgeOK(h)'
  BY <1>4, <1>5, <1>6, <1>7 DEF JudgeOK, Proven
<1>9. /\ challenges' \in [Challenge -> ChallengeRow \cup {None}]
      /\ \A m \in Challenge : challenges[m] \in ChallengeRow => challenges'[m] \in ChallengeRow
      /\ faults' \in 0..MaxFaults
  <2>1. challenges \in [Challenge -> ChallengeRow \cup {None}] /\ faults \in 0..MaxFaults
    BY DEF RepIInv, Proofs
  <2>2. CASE UpdateChallengeStatusFails(h)
    BY <2>1, <2>2, FaultBound DEF UpdateChallengeStatusFails, Fault
  <2>3. CASE UpdateChallengeStatus(h)
    <3>. DEFINE row == [challenges[n] EXCEPT !.status =
                          IF judge[h].passed THEN "verified" ELSE "failed"]
    <3>1. row \in ChallengeRow
      BY <1>3 DEF ChallengeRow
    <3>2. challenges' = [challenges EXCEPT ![n] = row] /\ faults' = faults
      BY <1>3, <2>3 DEF UpdateChallengeStatus
    <3>. HIDE DEF row
    <3>. QED
      BY <2>1, <3>1, <3>2
  <2>. QED
    BY <2>2, <2>3
<1>10. Proofs' /\ VerifiedWasChallenged'
  BY <1>1, <1>9 DEF RepIInv, Proofs, VerifiedWasChallenged, agents
<1>. QED
  BY <1>1, <1>5, <1>8, <1>9, <1>10, JudgeMoves DEF agents

LEMMA VerifyKeeps ==
  ASSUME RepIInv, NEW h \in Handler, SetVerified(h)
  PROVE  RepIInv'
<1>. DEFINE w == [judge[h] EXCEPT !.at = "read", !.passed = FALSE]
<1>1. /\ judge' = [judge EXCEPT ![h] = w] /\ judge[h].at = "verify"
      /\ SetAgentVerified(judge[h].agent)
      /\ UNCHANGED <<endpoint, vouched, scoring, challenges, proven, faults>>
  BY DEF SetVerified, JudgeAt
<1>2. judge[h] \in Judging /\ JudgeOK(h)
  BY DEF RepIInv
<1>3. PICK a \in Agent : judge[h].agent = a /\ Proven(a)
  BY <1>1, <1>2 DEF JudgeOK
<1>4. /\ w \in Judging /\ w.at = "read" /\ w.agent = a /\ w.event = judge[h].event
  BY <1>2, <1>3 DEF Judging
<1>. HIDE DEF w
<1>5. judge'[h] = w /\ judge[h].event = None
  BY <1>1, <1>2 DEF RepIInv, JudgeOK
<1>6. JudgeOK(h)'
  BY <1>4, <1>5 DEF JudgeOK
<1>7. verified' \subseteq verified \cup {a}
  BY <1>1, <1>3 DEF SetAgentVerified
<1>8. Proofs' /\ VerifiedWasChallenged'
  BY <1>1, <1>3, <1>7 DEF RepIInv, Proofs, VerifiedWasChallenged, Proven
<1>. QED
  BY <1>1, <1>4, <1>6, <1>8, JudgeMoves

-----------------------------------------------------------------------------
(* The score is written, or the log or the excuses: each part of the       *)
(* invariant is stated for what is left of it.                             *)
LEMMA ScoreMoves ==
  ASSUME RepIInv, Tables', judge' \in [Handler -> Judging], faults' \in 0..MaxFaults,
         UNCHANGED <<verified, vouched, challenges, proven>>,
         \A h \in Handler : JudgeOK(h)', GoneInv', ScoreFollowsLog'
  PROVE  RepIInv'
<1>1. Proofs' /\ VerifiedWasChallenged'
  BY DEF RepIInv, Proofs, VerifiedWasChallenged
<1>. QED
  BY <1>1 DEF RepIInv

(* More is excused, and the scores and the log stay.                       *)
LEMMA MoreExcused ==
  ASSUME RepIInv, NEW g \in Handler, judge'[g] = judge[g],
         UNCHANGED <<score, log, challenges, proven>>, excused \subseteq excused'
  PROVE  JudgeOK(g)'
<1>1. JudgeOK(g)
  BY DEF RepIInv
<1>2. judge[g].at \in {"insert", "update"} =>
        judge[g].base.folded \ excused' = score[judge[g].agent].folded \ excused'
  BY <1>1 DEF JudgeOK
<1>. QED
  BY <1>1, <1>2 DEF JudgeOK, Proven

LEMMA ReadFailsKeeps ==
  ASSUME RepIInv, NEW h \in Handler, ReadScoreFails(h)
  PROVE  RepIInv'
<1>. DEFINE w == [judge[h] EXCEPT !.at = "insert", !.base = DefaultScore]
<1>1. /\ judge' = [judge EXCEPT ![h] = w] /\ judge[h].at = "read"
      /\ excused' = excused \cup Counted(judge[h].agent)
      /\ faults' = faults + 1 /\ faults < MaxFaults
      /\ UNCHANGED <<endpoint, verified, vouched, score, log, challenges, proven>>
  BY DEF ReadScoreFails, JudgeAt, agents, Fault
<1>2. judge[h] \in Judging /\ JudgeOK(h) /\ Tables /\ faults \in 0..MaxFaults
  BY DEF RepIInv, Proofs
<1>3. PICK a \in Agent : judge[h].agent = a
  BY <1>1, <1>2 DEF JudgeOK
<1>4. DefaultScore \in Score /\ DefaultScore.folded = {}
  BY DEF DefaultScore, Score
<1>5. /\ w \in Judging /\ w.at = "insert" /\ w.agent = a /\ w.event = judge[h].event
      /\ w.base = DefaultScore
  BY <1>2, <1>3, <1>4 DEF Judging
<1>. HIDE DEF w
<1>6. /\ judge' \in [Handler -> Judging] /\ judge'[h] = w
      /\ \A g \in Handler \ {h} : judge'[g] = judge[g]
      /\ \A g \in Handler : judge'[g].event = judge[g].event
  BY <1>1, <1>5 DEF RepIInv
<1>7. /\ score[a].folded \subseteq Event /\ excused' = excused \cup score[a].folded
      /\ excused \subseteq excused'
  BY <1>1, <1>2, <1>3 DEF Counted, Tables, Score
<1>8. Tables' /\ GoneInv' /\ faults' \in 0..MaxFaults
  BY <1>1, <1>2, <1>7, FaultBound DEF RepIInv, Tables, GoneInv
<1>9. ScoreFollowsLog'
  BY <1>1, <1>6, <1>7 DEF RepIInv, ScoreFollowsLog
<1>10. JudgeOK(h)'
  <2>1. judge[h].event = None
    BY <1>1, <1>2 DEF JudgeOK
  <2>2. DefaultScore.folded \ excused' = score[a].folded \ excused'
    BY <1>4, <1>7
  <2>. QED
    BY <1>1, <1>5, <1>6, <2>1, <2>2 DEF JudgeOK
<1>11. \A g \in Handler \ {h} : JudgeOK(g)'
  BY <1>1, <1>6, <1>7, MoreExcused
<1>. QED
  BY <1>1, <1>6, <1>8, <1>9, <1>10, <1>11, ScoreMoves

LEMMA InsertKeeps ==
  ASSUME RepIInv, NEW h \in Handler, NEW e \in Event, InsertEvent(h, e)
  PROVE  RepIInv'
<1>. DEFINE w == [judge[h] EXCEPT !.at = "update", !.event = e]
            row == [agent |-> judge[h].agent, after |-> Fold(judge[h].base, e)]
<1>1. /\ judge' = [judge EXCEPT ![h] = w] /\ judge[h].at = "insert"
      /\ log[e] = None /\ e \notin excused
      /\ log' = [log EXCEPT ![e] = row]
      /\ UNCHANGED <<endpoint, verified, vouched, score, excused, challenges, proven, faults>>
      /\ \A b \in Agent : e \notin score[b].folded
  BY DEF InsertEvent, JudgeAt, agents
<1>2. judge[h] \in Judging /\ JudgeOK(h) /\ Tables /\ faults \in 0..MaxFaults
  BY DEF RepIInv, Proofs
<1>3. PICK a \in Agent : judge[h].agent = a
  BY <1>1, <1>2 DEF JudgeOK
<1>4. judge[h].base \in Score
  BY <1>2 DEF Judging
<1>5. Fold(judge[h].base, e) \in Score
  BY <1>4 DEF Fold, Score
<1>6. row \in LogRow /\ row.agent = a /\ row # None
  BY <1>3, <1>5, NoneIsNoLogRow DEF LogRow
<1>7. /\ w \in Judging /\ w.at = "update" /\ w.agent = a /\ w.event = e
      /\ w.base = judge[h].base
  BY <1>2, <1>3 DEF Judging
<1>. HIDE DEF w, row
<1>8. /\ judge' \in [Handler -> Judging] /\ judge'[h] = w
      /\ \A g \in Handler \ {h} : judge'[g] = judge[g]
  BY <1>1, <1>7 DEF RepIInv
<1>9. /\ log' \in [Event -> LogRow \cup {None}] /\ log'[e] = row
      /\ \A d \in Event \ {e} : log'[d] = log[d]
  BY <1>1, <1>2, <1>6 DEF Tables
<1>10. Tables' /\ GoneInv' /\ faults' \in 0..MaxFaults
  BY <1>1, <1>2, <1>9 DEF RepIInv, Tables, GoneInv
<1>11. judge[h].event = None
  BY <1>1, <1>2 DEF JudgeOK
<1>12. \A g \in Handler, d \in Event : judge[g].event = d => judge'[g].event = d
  BY <1>8, <1>11, NoneIsNoEvent
<1>13. ScoreFollowsLog'
  <2>. SUFFICES ASSUME NEW b \in Agent, NEW d \in Event
                PROVE  /\ d \in score[b].folded \ excused => log'[d] # None /\ log'[d].agent = b
                       /\ log'[d] # None /\ log'[d].agent = b /\ d \notin excused =>
                            \/ d \in score[b].folded
                            \/ \E g \in Handler : judge'[g].event = d
    BY <1>1 DEF ScoreFollowsLog
  <2>1. CASE d = e
    BY <1>1, <1>7, <1>8, <2>1
  <2>2. CASE d # e
    BY <1>9, <1>12, <2>2 DEF RepIInv, ScoreFollowsLog
  <2>. QED
    BY <2>1, <2>2
<1>14. JudgeOK(h)'
  <2>1. judge[h].base.folded \ excused = score[a].folded \ excused
    BY <1>1, <1>2, <1>3 DEF JudgeOK
  <2>. QED
    BY <1>1, <1>6, <1>7, <1>8, <1>9, <2>1 DEF JudgeOK
<1>15. ASSUME NEW g \in Handler \ {h}
       PROVE  JudgeOK(g)'
  <2>1. JudgeOK(g) /\ judge'[g] = judge[g]
    BY <1>8 DEF RepIInv
  <2>2. judge[g].at = "update" => judge[g].event # e
    BY <1>1, <2>1 DEF JudgeOK
  <2>. QED
    BY <1>1, <1>9, <2>1, <2>2 DEF JudgeOK, Proven
<1>. QED
  BY <1>1, <1>8, <1>10, <1>13, <1>14, <1>15, ScoreMoves

(* The recording ends; what was written in the score is excused when others*)
(* overlap, and what was not written is excused.                           *)
LEMMA UpdateKeeps ==
  ASSUME RepIInv, NEW h \in Handler, UpdateScore(h) \/ UpdateScoreFails(h)
  PROVE  RepIInv'
<1>1. /\ judge' = [judge EXCEPT ![h] = NoJudge] /\ judge[h].at = "update"
      /\ UNCHANGED <<endpoint, verified, vouched, log, challenges, proven>>
  BY DEF UpdateScore, UpdateScoreFails, JudgeAt, EndJudge, agents
<1>2. judge[h] \in Judging /\ JudgeOK(h) /\ Tables /\ faults \in 0..MaxFaults
  BY DEF RepIInv, Proofs
<1>3. PICK a \in Agent, e \in Event, base \in Score :
        /\ judge[h].agent = a /\ judge[h].event = e /\ judge[h].base = base
        /\ log[e] # None /\ log[e].agent = a
        /\ base.folded \ excused = score[a].folded \ excused
  BY <1>1, <1>2 DEF JudgeOK, Judging
<1>4. /\ Fold(base, e) \in Score /\ Fold(base, e).folded = base.folded \cup {e}
  BY DEF Fold, Score
<1>5. /\ judge' \in [Handler -> Judging] /\ judge'[h] = NoJudge
      /\ \A g \in Handler \ {h} : judge'[g] = judge[g]
  BY <1>1, NoJudgeIdle DEF RepIInv
<1>6. /\ excused' \in {excused, excused \cup {e}}
      /\ faults' \in 0..MaxFaults
      /\ \/ score' = score /\ excused' = excused \cup {e}
         \/ /\ score' = [score EXCEPT ![a] = Fold(base, e)] /\ endpoint[a] # None
            /\ Overlapped(h) => excused' = excused \cup {e}
  <2>1. CASE UpdateScore(h)
    BY <1>2, <1>3, <2>1 DEF UpdateScore, UpdateAgentReputation
  <2>2. CASE UpdateScoreFails(h)
    BY <1>2, <1>3, <2>2, FaultBound DEF UpdateScoreFails, Fault
  <2>. QED
    BY <2>1, <2>2
<1>7. excused \subseteq excused' /\ excused' \in SUBSET Event
  BY <1>2, <1>6 DEF Tables
<1>8. /\ score' \in [Agent -> Score] /\ \A b \in Agent \ {a} : score'[b] = score[b]
      /\ score'[a].folded \ (excused' \cup {e}) = score[a].folded \ (excused' \cup {e})
      /\ e \in score'[a].folded \cup excused'
  <2>1. CASE score' = score /\ excused' = excused \cup {e}
    BY <1>2, <2>1 DEF Tables
  <2>2. CASE score' = [score EXCEPT ![a] = Fold(base, e)]
    <3>1. /\ score' \in [Agent -> Score] /\ \A b \in Agent \ {a} : score'[b] = score[b]
          /\ score'[a] = Fold(base, e)
      BY <1>2, <1>4, <2>2 DEF Tables
    <3>. QED
      BY <1>3, <1>4, <1>7, <3>1
  <2>. QED
    BY <1>6, <2>1, <2>2
<1>9. Tables'
  BY <1>1, <1>2, <1>7, <1>8 DEF Tables
<1>10. GoneInv'
  BY <1>1, <1>6, <1>8 DEF RepIInv, GoneInv
<1>11. ScoreFollowsLog'
  <2>. SUFFICES ASSUME NEW b \in Agent, NEW d \in Event
                PROVE  /\ d \in score'[b].folded \ excused' => log[d] # None /\ log[d].agent = b
                       /\ log[d] # None /\ log[d].agent = b /\ d \notin excused' =>
                            \/ d \in score'[b].folded
                            \/ \E g \in Handler : judge'[g].event = d
    BY <1>1 DEF ScoreFollowsLog
  <2>1. /\ d \in score[b].folded \ excused => log[d] # None /\ log[d].agent = b
        /\ log[d] # None /\ log[d].agent = b /\ d \notin excused =>
             \/ d \in score[b].folded
             \/ \E g \in Handler : judge[g].event = d
    BY DEF RepIInv, ScoreFollowsLog
  <2>2. CASE d = e
    <3>1. ASSUME b # a
          PROVE  d \notin score'[b].folded \ excused'
      BY <1>3, <1>7, <1>8, <2>1, <2>2, <3>1
    <3>. QED
      BY <1>3, <1>8, <2>2, <3>1
  <2>3. CASE d # e
    <3>1. d \in score'[b].folded \ excused' <=> d \in score[b].folded \ excused'
      BY <1>8, <2>3
    <3>2. \A g \in Handler : judge[g].event = d => judge'[g].event = d
      BY <1>3, <1>5, <2>3
    <3>. QED
      BY <1>7, <2>1, <3>1, <3>2
  <2>. QED
    BY <2>2, <2>3
<1>12. JudgeOK(h)'
  BY <1>5, NoJudgeIdle DEF JudgeOK
<1>13. ASSUME NEW g \in Handler \ {h}
       PROVE  JudgeOK(g)'
  <2>1. JudgeOK(g) /\ judge'[g] = judge[g]
    BY <1>5 DEF RepIInv
  <2>2. ASSUME judge[g].at \in {"insert", "update"}
        PROVE  judge[g].base.folded \ excused' = score'[judge[g].agent].folded \ excused'
    <3>1. /\ judge[g].agent \in Agent
          /\ judge[g].base.folded \ excused = score[judge[g].agent].folded \ excused
      BY <2>1, <2>2 DEF JudgeOK
    <3>2. CASE judge[g].agent # a
      BY <1>7, <1>8, <3>1, <3>2
    <3>3. CASE judge[g].agent = a
      <4>1. Overlapped(h)
        BY <1>3, <2>2, <3>3 DEF Overlapped
      <4>2. excused' = excused \cup {e}
        BY <1>6, <4>1
      <4>. QED
        BY <1>8, <3>1, <3>3, <4>2
    <3>. QED
      BY <3>2, <3>3
  <2>. QED
    BY <1>1, <2>1, <2>2 DEF JudgeOK, Proven
<1>. QED
  BY <1>1, <1>5, <1>6, <1>9, <1>10, <1>11, <1>12, <1>13, ScoreMoves

-----------------------------------------------------------------------------
(* What happens to the agents and the log beside the goroutines.           *)
LEMMA AgentSteps ==
  ASSUME RepIInv, NEW a \in Agent,
         UnsetVerified(a) \/ \E url \in Url : MoveEndpoint(a, url)
  PROVE  RepIInv'
<1>1. /\ UNCHANGED <<score, log, excused, challenges, judge, proven, faults>>
      /\ \/ endpoint' = endpoint /\ verified' = verified \ {a} /\ vouched' = vouched \ {a}
         \/ /\ \E url \in Url : endpoint' = [endpoint EXCEPT ![a] = url]
            /\ endpoint[a] # None /\ UNCHANGED <<verified, vouched>>
  BY DEF UnsetVerified, MoveEndpoint, scoring
<1>2. Tables' /\ Proofs' /\ GoneInv'
  BY <1>1, NoneIsNoEvent DEF RepIInv, Tables, Proofs, GoneInv
<1>3. VerifiedWasChallenged'
  BY <1>1 DEF RepIInv, Proofs, VerifiedWasChallenged
<1>4. ScoreFollowsLog' /\ \A h \in Handler : JudgeOK(h)'
  BY <1>1 DEF RepIInv, ScoreFollowsLog, JudgeOK, Proven
<1>. QED
  BY <1>1, <1>2, <1>3, <1>4 DEF RepIInv

LEMMA DeleteKeeps ==
  ASSUME RepIInv, NEW a \in Agent, DeleteAgent(a)
  PROVE  RepIInv'
<1>1. /\ endpoint' = [endpoint EXCEPT ![a] = None] /\ verified' = verified \ {a}
      /\ score' = [score EXCEPT ![a] = DefaultScore]
      /\ excused' = excused \cup score[a].folded
      /\ UNCHANGED <<vouched, log, challenges, judge, proven, faults>>
  BY DEF DeleteAgent, Counted
<1>2. DefaultScore \in Score /\ DefaultScore.folded = {}
  BY DEF DefaultScore, Score
<1>3. Tables /\ score[a].folded \subseteq Event
  BY DEF RepIInv, Tables, Score
<1>4. /\ score'[a].folded = {} /\ \A b \in Agent \ {a} : score'[b] = score[b]
      /\ score' \in [Agent -> Score]
  BY <1>1, <1>2, <1>3 DEF Tables
<1>5. Tables' /\ Proofs'
  BY <1>1, <1>3, <1>4 DEF RepIInv, Tables, Proofs
<1>6. GoneInv'
  BY <1>1, <1>3, <1>4 DEF RepIInv, GoneInv, Tables
<1>7. VerifiedWasChallenged'
  BY <1>1 DEF RepIInv, VerifiedWasChallenged
<1>8. ScoreFollowsLog'
  BY <1>1, <1>4 DEF RepIInv, ScoreFollowsLog
<1>9. ASSUME NEW h \in Handler
      PROVE  JudgeOK(h)'
  <2>1. JudgeOK(h)
    BY DEF RepIInv
  <2>2. ASSUME judge[h].at \in {"insert", "update"}
        PROVE  judge[h].base.folded \ excused' = score'[judge[h].agent].folded \ excused'
    <3>1. /\ judge[h].agent \in Agent
          /\ judge[h].base.folded \ excused = score[judge[h].agent].folded \ excused
      BY <2>1, <2>2 DEF JudgeOK
    <3>. QED
      BY <1>1, <1>4, <3>1
  <2>. QED
    BY <1>1, <2>1, <2>2 DEF JudgeOK, Proven
<1>. QED
  BY <1>1, <1>5, <1>6, <1>7, <1>8, <1>9 DEF RepIInv

LEMMA PruneKeeps ==
  ASSUME RepIInv, NEW e \in Event, PruneEvents(e)
  PROVE  RepIInv'
<1>1. /\ log' = [log EXCEPT ![e] = None] /\ excused' = excused \cup {e}
      /\ \A h \in Handler : judge[h].event # e
      /\ UNCHANGED <<endpoint, verified, vouched, score, challenges, judge, proven, faults>>
  BY DEF PruneEvents, agents
<1>2. Tables' /\ GoneInv' /\ faults' \in 0..MaxFaults /\ judge' \in [Handler -> Judging]
  BY <1>1 DEF RepIInv, Tables, Proofs, GoneInv
<1>3. log'[e] = None /\ \A d \in Event \ {e} : log'[d] = log[d]
  BY <1>1 DEF RepIInv, Tables
<1>4. ScoreFollowsLog'
  BY <1>1, <1>3 DEF RepIInv, ScoreFollowsLog
<1>5. ASSUME NEW h \in Handler
      PROVE  JudgeOK(h)'
  <2>1. JudgeOK(h) /\ judge[h].event # e
    BY <1>1 DEF RepIInv
  <2>2. judge[h].at \in {"insert", "update"} =>
          judge[h].base.folded \ excused' = score[judge[h].agent].folded \ excused'
    BY <1>1, <2>1 DEF JudgeOK
  <2>. QED
    BY <1>1, <1>3, <2>1, <2>2 DEF JudgeOK, Proven
<1>. QED
  BY <1>1, <1>2, <1>4, <1>5, ScoreMoves

LEMMA CrashKeeps ==
  ASSUME RepIInv, RepCrash
  PROVE  RepIInv'
<1>1. /\ judge' = [h \in Handler |-> NoJudge]
      /\ excused' = excused \cup {e \in Event : \E h \in Handler : judge[h].event = e}
      /\ faults' = faults + 1 /\ faults < MaxFaults
      /\ UNCHANGED <<endpoint, verified, vouched, score, log, challenges, proven>>
  BY DEF RepCrash, Fault, agents
<1>2. /\ Tables' /\ GoneInv' /\ faults' \in 0..MaxFaults /\ judge' \in [Handler -> Judging]
  BY <1>1, NoJudgeIdle, FaultBound DEF RepIInv, Tables, Proofs, GoneInv
<1>3. ScoreFollowsLog'
  BY <1>1 DEF RepIInv, ScoreFollowsLog
<1>4. \A h \in Handler : JudgeOK(h)'
  BY <1>1, NoJudgeIdle DEF JudgeOK
<1>. QED
  BY <1>1, <1>2, <1>3, <1>4, ScoreMoves

LEMMA RepStep == RepIInv /\ [RepNext]_repVars => RepIInv'
<1>. SUFFICES ASSUME RepIInv, [RepNext]_repVars PROVE RepIInv'
  OBVIOUS
<1>1. CASE UNCHANGED repVars
  BY <1>1 DEF repVars, RepIInv, Tables, Proofs, JudgeOK, Proven, GoneInv, ScoreFollowsLog,
     VerifiedWasChallenged
<1>2. ASSUME NEW h \in Handler, RecordEvent(h)
      PROVE  RepIInv'
  BY <1>2, ReadScoreKeeps, ReadFailsKeeps, InsertKeeps, UpdateKeeps DEF RecordEvent
<1>3. ASSUME NEW h \in Handler, handleVerifyEndpoint(h)
      PROVE  RepIInv'
  BY <1>3, ChallengeKeeps, AnswerKeeps, StatusKeeps, VerifyKeeps DEF handleVerifyEndpoint
<1>. QED
  BY <1>1, <1>2, <1>3, StartKeeps, AgentSteps, DeleteKeeps, PruneKeeps, CrashKeeps
  DEF RepNext

LEMMA RepInductive == RepSpec => []RepIInv
  BY RepStart, RepStep, PTL DEF RepSpec

(* The log, the scores, the challenges and the goroutines stay well formed.*)
THEOREM ReputationTypes == RepSpec => []RepTypeOK
<1>1. RepIInv => RepTypeOK
  BY RepTypeParts DEF RepIInv
<1>. QED
  BY <1>1, RepInductive, PTL

(* The score has what the log has, for any number of recordings of any     *)
(* agents, deletions, prunings and faults (Engine.RecordEvent).            *)
THEOREM ScoreSafe == RepSpec => []ScoreFollowsLog
<1>1. RepIInv => ScoreFollowsLog
  BY DEF RepIInv
<1>. QED
  BY <1>1, RepInductive, PTL

(* No agent is verified that did not pass a challenge of its own or has an *)
(* administrator's word (handleVerifyEndpoint, SetVerified).               *)
THEOREM VerifiedSafe == RepSpec => []VerifiedWasChallenged
<1>1. RepIInv => VerifiedWasChallenged
  BY DEF RepIInv
<1>. QED
  BY <1>1, RepInductive, PTL

-----------------------------------------------------------------------------
(* Reviews, reports and categories (internal/review).                      *)
-----------------------------------------------------------------------------
(* A submission under way knows its review.                                *)
ReviewingInv ==
  \A h \in Handler : reviewing[h] # NotReviewing =>
    reviewing[h] \in [agent : Agent, user : User, rating : Rating]

RevIInv == RevTypeOK /\ faults \in Nat /\ ReviewingInv /\ StandingReviewsCount

LEMMA RevStart == RevInit /\ faults = 0 => RevIInv
<1>. SUFFICES ASSUME RevInit, faults = 0 PROVE RevIInv
  OBVIOUS
<1>1. NotReviewing \in [agent : Agent \cup {None}, user : User \cup {None},
                        rating : Rating \cup {None}]
  BY DEF NotReviewing
<1>2. RevTypeOK
  BY <1>1 DEF RevInit, RevTypeOK
<1>3. ReviewingInv /\ StandingReviewsCount
  BY NoneIsNoRating DEF RevInit, ReviewingInv, StandingReviewsCount, Rating
<1>. QED
  BY <1>2, <1>3 DEF RevIInv

(* Steps that leave the reviews and the submissions alone.                 *)
LEMMA ReviewsStay ==
  ASSUME RevIInv, UNCHANGED <<reviews, reviewing, raised, faults>>, RevTypeOK'
  PROVE  RevIInv'
  BY DEF RevIInv, ReviewingInv, StandingReviewsCount

(* Service.SubmitReview and the deletion of a review.                      *)
LEMMA UpsertKeeps ==
  ASSUME RevIInv, NEW h \in Handler, NEW a \in Agent, NEW u \in User,
         NEW rating \in Rating, UpsertReview(h, a, u, rating)
  PROVE  RevIInv'
<1>. DEFINE w == [agent |-> a, user |-> u, rating |-> rating]
<1>1. /\ reviewing[h] = NotReviewing /\ reviewing' = [reviewing EXCEPT ![h] = w]
      /\ reviews' = [reviews EXCEPT ![a][u] = rating]
      /\ UNCHANGED <<raised, reports, oldReports, categories, agentCategories, faults>>
  BY DEF UpsertReview
<1>2. /\ w \in [agent : Agent, user : User, rating : Rating]
      /\ w.agent = a /\ w.user = u /\ w.rating = rating
  OBVIOUS
<1>3. /\ w \in [agent : Agent \cup {None}, user : User \cup {None}, rating : Rating \cup {None}]
  OBVIOUS
<1>4. NotReviewing.rating = None
  BY DEF NotReviewing
<1>5. \A b \in Agent, v \in User : \A r \in Rating :
        NotReviewing # [agent |-> b, user |-> v, rating |-> r]
  BY <1>4, NoneIsNoRating
<1>6. /\ \A b \in Agent, v \in User : <<b, v>> # <<a, u>> => reviews'[b][v] = reviews[b][v]
      /\ reviews'[a][u] = rating
      /\ reviews' \in [Agent -> [User -> Rating \cup {None}]]
  BY <1>1 DEF RevIInv, RevTypeOK
<1>. HIDE DEF w
<1>7. /\ reviewing'[h] = w /\ \A g \in Handler \ {h} : reviewing'[g] = reviewing[g]
      /\ reviewing' \in [Handler -> [agent : Agent \cup {None}, user : User \cup {None},
                                     rating : Rating \cup {None}]]
  BY <1>1, <1>3 DEF RevIInv, RevTypeOK
<1>8. RevTypeOK'
  BY <1>1, <1>6, <1>7 DEF RevIInv, RevTypeOK, SlugFree
<1>9. ReviewingInv'
  BY <1>2, <1>7 DEF RevIInv, ReviewingInv
<1>10. ASSUME NEW b \in Agent, NEW v \in User, reviews'[b][v] \in {"good", "bad"}
       PROVE  \/ <<b, v, reviews'[b][v]>> \in raised'
              \/ \E g \in Handler :
                   reviewing'[g] = [agent |-> b, user |-> v, rating |-> reviews'[b][v]]
              \/ faults' > 0
  <2>1. CASE <<b, v>> = <<a, u>>
    BY <1>6, <1>7, <2>1 DEF w
  <2>2. CASE <<b, v>> # <<a, u>>
    <3>1. reviews'[b][v] = reviews[b][v] /\ reviews[b][v] \in Rating
      BY <1>6, <1>10, <2>2 DEF Rating
    <3>2. \/ <<b, v, reviews[b][v]>> \in raised
          \/ \E g \in Handler :
               reviewing[g] = [agent |-> b, user |-> v, rating |-> reviews[b][v]]
          \/ faults > 0
      BY <1>10, <3>1 DEF RevIInv, StandingReviewsCount
    <3>. QED
      BY <1>1, <1>5, <1>7, <3>1, <3>2
  <2>. QED
    BY <2>1, <2>2
<1>. QED
  BY <1>1, <1>8, <1>9, <1>10 DEF RevIInv, StandingReviewsCount

LEMMA RaiseKeeps ==
  ASSUME RevIInv, NEW h \in Handler, RaiseReviewEvent(h)
  PROVE  RevIInv'
<1>1. /\ reviewing[h] # NotReviewing
      /\ reviewing' = [reviewing EXCEPT ![h] = NotReviewing]
      /\ UNCHANGED <<reviews, reports, oldReports, categories, agentCategories, faults>>
  BY DEF RaiseReviewEvent
<1>2. PICK a \in Agent, u \in User, rating \in Rating :
        reviewing[h] = [agent |-> a, user |-> u, rating |-> rating]
  BY <1>1 DEF RevIInv, ReviewingInv
<1>3. raised' = IF rating = "fair" THEN raised ELSE raised \cup {<<a, u, rating>>}
  BY <1>2 DEF RaiseReviewEvent
<1>4. NotReviewing \in [agent : Agent \cup {None}, user : User \cup {None},
                        rating : Rating \cup {None}]
  BY DEF NotReviewing
<1>5. /\ reviewing'[h] = NotReviewing /\ \A g \in Handler \ {h} : reviewing'[g] = reviewing[g]
      /\ reviewing' \in [Handler -> [agent : Agent \cup {None}, user : User \cup {None},
                                     rating : Rating \cup {None}]]
  BY <1>1, <1>4 DEF RevIInv, RevTypeOK
<1>6. RevTypeOK'
  BY <1>1, <1>3, <1>5 DEF RevIInv, RevTypeOK, SlugFree
<1>7. ReviewingInv'
  BY <1>5 DEF RevIInv, ReviewingInv
<1>8. StandingReviewsCount'
  <2>. SUFFICES ASSUME NEW b \in Agent, NEW v \in User, reviews[b][v] \in {"good", "bad"}
                PROVE  \/ <<b, v, reviews[b][v]>> \in raised'
                       \/ \E g \in Handler :
                            reviewing'[g] = [agent |-> b, user |-> v, rating |-> reviews[b][v]]
                       \/ faults > 0
    BY <1>1 DEF StandingReviewsCount
  <2>1. \/ <<b, v, reviews[b][v]>> \in raised
        \/ \E g \in Handler :
             reviewing[g] = [agent |-> b, user |-> v, rating |-> reviews[b][v]]
        \/ faults > 0
    BY DEF RevIInv, StandingReviewsCount
  <2>2. ASSUME reviewing[h] = [agent |-> b, user |-> v, rating |-> reviews[b][v]]
        PROVE  <<b, v, reviews[b][v]>> \in raised'
    <3>1. a = b /\ u = v /\ rating = reviews[b][v]
      BY <1>2, <2>2
    <3>. QED
      BY <1>3, <3>1
  <2>. QED
    BY <1>3, <1>5, <2>1, <2>2
<1>. QED
  BY <1>1, <1>6, <1>7, <1>8 DEF RevIInv

LEMMA RevLossKeeps ==
  ASSUME RevIInv, ReviewCrash \/ \E h \in Handler : ReviewEventFails(h)
  PROVE  RevIInv'
<1>1. NotReviewing \in [agent : Agent \cup {None}, user : User \cup {None},
                        rating : Rating \cup {None}]
  BY DEF NotReviewing
<1>2. /\ faults' = faults + 1
      /\ UNCHANGED <<reviews, raised, reports, oldReports, categories, agentCategories>>
      /\ reviewing' \in [Handler -> [agent : Agent \cup {None}, user : User \cup {None},
                                     rating : Rating \cup {None}]]
      /\ \A g \in Handler : reviewing'[g] \in {reviewing[g], NotReviewing}
  BY <1>1 DEF ReviewCrash, ReviewEventFails, Fault, RevIInv, RevTypeOK
<1>3. RevTypeOK'
  BY <1>2 DEF RevIInv, RevTypeOK, SlugFree
<1>4. ReviewingInv'
  BY <1>2 DEF RevIInv, ReviewingInv
<1>5. faults' \in Nat /\ faults' > 0
  BY <1>2 DEF RevIInv
<1>. QED
  BY <1>3, <1>4, <1>5 DEF RevIInv, StandingReviewsCount

LEMMA DeleteReviewKeeps ==
  ASSUME RevIInv, NEW a \in Agent, NEW u \in User, DeleteReview(a, u)
  PROVE  RevIInv'
<1>1. /\ reviews' = [reviews EXCEPT ![a][u] = None]
      /\ UNCHANGED <<reviewing, raised, reports, oldReports, categories, agentCategories, faults>>
  BY DEF DeleteReview
<1>2. /\ reviews' \in [Agent -> [User -> Rating \cup {None}]]
      /\ \A b \in Agent, v \in User : reviews'[b][v] \in {reviews[b][v], None}
  BY <1>1 DEF RevIInv, RevTypeOK
<1>3. RevTypeOK' /\ ReviewingInv'
  BY <1>1, <1>2 DEF RevIInv, RevTypeOK, SlugFree, ReviewingInv
<1>4. StandingReviewsCount'
  <2>. SUFFICES ASSUME NEW b \in Agent, NEW v \in User, reviews'[b][v] \in {"good", "bad"}
                PROVE  reviews'[b][v] = reviews[b][v]
    BY <1>1 DEF RevIInv, StandingReviewsCount
  <2>. QED
    BY <1>2, NoneIsNoRating DEF Rating
<1>. QED
  BY <1>1, <1>3, <1>4 DEF RevIInv

(* The reports and the categories.                                         *)
LEMMA OthersKeep ==
  ASSUME RevIInv,
         \/ \E r \in Report : SubmitReport(r) \/ handleAdminBulkReports(r) \/ ReportAges(r)
         \/ PruneResolvedReports
         \/ \E c \in Category :
              \/ DeleteCategory(c)
              \/ \E s \in Slug : CreateCategory(c, s) \/ UpdateCategory(c, s)
         \/ \E a \in Agent : SetAgentCategories(a)
  PROVE  RevIInv'
<1>. USE DEF RevTypeOK, SlugFree
<1>0. RevTypeOK
  BY DEF RevIInv
<1>1. UNCHANGED <<reviews, reviewing, raised, faults>>
  BY DEF SubmitReport, handleAdminBulkReports, UpdateReportStatus, DeleteReport, ReportAges,
     PruneResolvedReports, DeleteCategory, CreateCategory, UpdateCategory, SetAgentCategories
<1>2. ASSUME NEW r \in Report, SubmitReport(r) \/ handleAdminBulkReports(r) \/ ReportAges(r)
      PROVE  RevTypeOK'
  BY <1>0, <1>1, <1>2 DEF SubmitReport, handleAdminBulkReports, UpdateReportStatus,
     DeleteReport, ReportAges, ReportStatus
<1>3. ASSUME PruneResolvedReports
      PROVE  RevTypeOK'
  BY <1>0, <1>1, <1>3 DEF PruneResolvedReports
<1>4. ASSUME NEW c \in Category,
             DeleteCategory(c) \/ \E s \in Slug : CreateCategory(c, s) \/ UpdateCategory(c, s)
      PROVE  RevTypeOK'
  BY <1>0, <1>1, <1>4 DEF DeleteCategory, CreateCategory, UpdateCategory
<1>5. ASSUME NEW a \in Agent, SetAgentCategories(a)
      PROVE  RevTypeOK'
  BY <1>0, <1>1, <1>5 DEF SetAgentCategories
<1>6. RevTypeOK'
  BY <1>2, <1>3, <1>4, <1>5
<1>. QED
  BY <1>1, <1>6, ReviewsStay

LEMMA RevStep == RevIInv /\ [RevNext]_<<revVars, faults>> => RevIInv'
<1>. SUFFICES ASSUME RevIInv, [RevNext]_<<revVars, faults>> PROVE RevIInv'
  OBVIOUS
<1>1. CASE UNCHANGED <<revVars, faults>>
  BY <1>1 DEF revVars, RevIInv, RevTypeOK, SlugFree, ReviewingInv, StandingReviewsCount
<1>. QED
  BY <1>1, UpsertKeeps, RaiseKeeps, RevLossKeeps, DeleteReviewKeeps, OthersKeep
  DEF RevNext, SubmitReview

LEMMA RevInductive == RevSpec => []RevIInv
  BY RevStart, RevStep, PTL DEF RevSpec

(* The reviews, the reports and the categories stay well formed, and no two*)
(* categories have one slug.                                               *)
THEOREM ReviewTypes == RevSpec => []RevTypeOK
<1>1. RevIInv => RevTypeOK
  BY DEF RevIInv
<1>. QED
  BY <1>1, RevInductive, PTL

(* A review that stands has raised its event or is about to, for any number*)
(* of reviewers, edits and deletions, unless there was a fault             *)
(* (Service.SubmitReview).                                                 *)
THEOREM ReviewSafe == RevSpec => []StandingReviewsCount
<1>1. RevIInv => StandingReviewsCount
  BY DEF RevIInv
<1>. QED
  BY <1>1, RevInductive, PTL

-----------------------------------------------------------------------------
(* The services in one process.  A step of one of them leaves the variables *)
(* of the others alone, so its invariant need hold only while it runs, and  *)
(* the types and limits of the others are kept with their variables.        *)
-----------------------------------------------------------------------------
FaultsCounted == faults \in 0..MaxFaults

RunningInv ==
  /\ part = "claim" => PendingIInv
  /\ part = "req" => ReqIInv
  /\ part = "inv" => InvIInv
  /\ part = "acc" => AccIInv
  /\ part = "code" => CodeIInv
  /\ part = "session" => SessionIInv
  /\ part = "rep" => RepIInv
  /\ part = "acp" => ACPIInv
  /\ part = "mcp" => MCPIInv
  /\ part = "out" => OutIInv
  /\ part = "rev" => RevIInv
  /\ part = "note" => NoteIInv
  /\ part = "lim" => LimIInv
  /\ part = "life" => LifeIInv

ServicesIInv ==
  /\ FaultsCounted /\ RunningInv
  /\ ServicesTypeOK /\ LimitsOvershootByConcurrency

(* The types of the notifications, with the sets of their records named.   *)
NoteParts ==
  /\ sockets \in [Socket -> SocketRecord] /\ conns \in [User -> Socket \cup {None}]
  /\ \A n \in Note : notes[n] # None => notes[n] \in Row
  /\ notifying \in [Handler -> NotifyRecord] /\ shown \subseteq Note

(* Variables that stay keep their types, whatever the count of faults does.*)
LEMMA ClaimTypesStay ==
  ASSUME ClaimTypeOK, UNCHANGED claimOwn, FaultsCounted'
  PROVE  ClaimTypeOK'
  BY DEF ClaimTypeOK, claimOwn, FaultsCounted

LEMMA ReqTypesStay ==
  ASSUME ReqTypeOK, UNCHANGED reqOwn, FaultsCounted'
  PROVE  ReqTypeOK'
  BY DEF ReqTypeOK, reqOwn, FaultsCounted

LEMMA InvTypesStay ==
  ASSUME InvTypeOK, UNCHANGED invOwn, FaultsCounted'
  PROVE  InvTypeOK'
  BY DEF InvTypeOK, invOwn, FaultsCounted

LEMMA AccTypesStay ==
  ASSUME AccTypeOK, UNCHANGED accOwn, FaultsCounted'
  PROVE  AccTypeOK'
  BY DEF AccTypeOK, accOwn, FaultsCounted

LEMMA CodeTypesStay ==
  ASSUME CodeTypeOK, UNCHANGED codeOwn, FaultsCounted'
  PROVE  CodeTypeOK'
  BY DEF CodeTypeOK, codeOwn, FaultsCounted

LEMMA SessionTypesStay ==
  ASSUME SessionTypeOK, UNCHANGED sessionOwn, FaultsCounted'
  PROVE  SessionTypeOK'
  BY DEF SessionTypeOK, sessionOwn, FaultsCounted

LEMMA RepTypesStay ==
  ASSUME RepTypeOK, UNCHANGED repOwn, FaultsCounted'
  PROVE  RepTypeOK'
  BY DEF RepTypeOK, repOwn, FaultsCounted

LEMMA ACPTypesStay ==
  ASSUME ACPTypeOK, UNCHANGED acpVars
  PROVE  ACPTypeOK'
  BY DEF ACPTypeOK, acpVars

LEMMA MCPTypesStay ==
  ASSUME MCPTypeOK, UNCHANGED mcpVars
  PROVE  MCPTypeOK'
  BY DEF MCPTypeOK, mcpVars

LEMMA OutTypesStay ==
  ASSUME OutTypeOK, UNCHANGED outVars
  PROVE  OutTypeOK'
  BY DEF OutTypeOK, outVars

LEMMA RevTypesStay ==
  ASSUME RevTypeOK, UNCHANGED revVars
  PROVE  RevTypeOK'
  BY DEF RevTypeOK, revVars, SlugFree

LEMMA NoteTypeParts ==
  /\ NoteTypeOK <=> NoteParts
  /\ NoteTypeOK' <=> NoteParts'
<1>1. NoteTypeOK <=> NoteParts
  BY ZenonT(20) DEF NoteTypeOK, NoteParts, Row, SocketRecord, SocketStage,
     NotifyRecord, NotifyStage
<1>2. NoteTypeOK' <=> NoteParts'
  BY ZenonT(20) DEF NoteTypeOK, NoteParts, Row, SocketRecord, SocketStage,
     NotifyRecord, NotifyStage
<1>. QED
  BY <1>1, <1>2

LEMMA NoteTypesStay ==
  ASSUME NoteTypeOK, UNCHANGED noteVars
  PROVE  NoteTypeOK'
<1>1. NoteParts
  BY NoteTypeParts
<1>2. NoteParts'
  BY <1>1 DEF NoteParts, noteVars
<1>. QED
  BY <1>2, NoteTypeParts

LEMMA LimTypesStay ==
  ASSUME LimTypeOK, UNCHANGED limVars
  PROVE  LimTypeOK'
  BY DEF LimTypeOK, limVars

LEMMA LifeTypesStay ==
  ASSUME LifeTypeOK, UNCHANGED lifeVars
  PROVE  LifeTypeOK'
  BY DEF LifeTypeOK, lifeVars

LEMMA LimitsStay ==
  /\ PendingBounded /\ UNCHANGED claimOwn => PendingBounded'
  /\ SessionsBounded /\ UNCHANGED mcpVars => SessionsBounded'
  /\ EmailsApart /\ UNCHANGED accOwn => EmailsApart'
<1>1. PendingBounded /\ UNCHANGED claimOwn => PendingBounded'
  BY DEF PendingBounded, Pending, ClaimAt, claimOwn
<1>2. SessionsBounded /\ UNCHANGED mcpVars => SessionsBounded'
  BY DEF SessionsBounded, Admitted, mcpVars
<1>3. EmailsApart /\ UNCHANGED accOwn => EmailsApart'
  BY DEF EmailsApart, accOwn
<1>. QED
  BY <1>1, <1>2, <1>3

(* Two invariants have the types in parts.                                 *)
LEMMA RepTyped ==
  /\ RepIInv => RepTypeOK
  /\ RepIInv' => RepTypeOK'
<1>1. RepIInv => RepTypeOK
  BY DEF RepIInv, RepTypeOK, Tables, Proofs, LogRow, ChallengeRow
<1>2. RepIInv' => RepTypeOK'
  BY DEF RepIInv, RepTypeOK, Tables, Proofs, LogRow, ChallengeRow
<1>. QED
  BY <1>1, <1>2

LEMMA NoteTyped ==
  /\ NoteIInv => NoteTypeOK
  /\ NoteIInv' => NoteTypeOK'
<1>1. NoteIInv => NoteParts
  BY DEF NoteIInv, NoteShapes, NoteParts
<1>2. NoteIInv' => NoteParts'
  BY DEF NoteIInv, NoteShapes, NoteParts
<1>. QED
  BY <1>1, <1>2, NoteTypeParts

LEMMA ServicesStart == ServicesInit => ServicesIInv
<1>. SUFFICES ASSUME ServicesInit PROVE ServicesIInv
  OBVIOUS
<1>1. PendingIInv
  BY PendingStart DEF ServicesInit
<1>2. ReqIInv
  BY ReqStart DEF ServicesInit
<1>3. InvIInv
  BY InvStart DEF ServicesInit
<1>4. AccIInv
  BY AccStart DEF ServicesInit
<1>5. CodeIInv
  BY CodeStart DEF ServicesInit
<1>6. SessionIInv
  BY SessionStart DEF ServicesInit
<1>7. RepIInv
  BY RepStart DEF ServicesInit
<1>8. ACPIInv
  BY ACPStart DEF ServicesInit
<1>9. MCPIInv
  BY MCPStart DEF ServicesInit
<1>10. OutIInv
  BY OutStart DEF ServicesInit
<1>11. RevIInv
  BY RevStart DEF ServicesInit
<1>12. NoteIInv
  BY NoteInitially DEF ServicesInit
<1>13. LimIInv
  BY LimStart DEF ServicesInit
<1>14. LifeIInv
  BY LifeInitially DEF ServicesInit
<1>15. FaultsCounted
  BY FaultBound DEF FaultsCounted, ServicesInit
<1>16. ServicesTypeOK
  BY <1>1, <1>2, <1>3, <1>4, <1>5, <1>6, <1>7, <1>8, <1>9, <1>10, <1>11, <1>12,
     <1>13, <1>14, RepTyped, NoteTyped
  DEF ServicesTypeOK, PendingIInv, ClaimIInv, ReqIInv, InvIInv, AccIInv, CodeIInv,
      SessionIInv, ACPIInv, MCPIInv, OutIInv, RevIInv, LimIInv, LifeIInv
<1>17. LimitsOvershootByConcurrency
  BY <1>1, <1>9 DEF LimitsOvershootByConcurrency, PendingIInv, MCPIInv
<1>. QED
  BY <1>1, <1>2, <1>3, <1>4, <1>5, <1>6, <1>7, <1>8, <1>9, <1>10, <1>11, <1>12,
     <1>13, <1>14, <1>15, <1>16, <1>17 DEF ServicesIInv, RunningInv

(* A fault is counted, in whichever service.                               *)
LEMMA ReviewFaults == ASSUME FaultsCounted, RevNext PROVE FaultsCounted'
  BY FaultBound DEF FaultsCounted, RevNext, SubmitReview, UpsertReview,
     RaiseReviewEvent, ReviewEventFails, DeleteReview, SubmitReport,
     UpdateReportStatus, DeleteReport, handleAdminBulkReports, ReportAges,
     PruneResolvedReports, CreateCategory, UpdateCategory, DeleteCategory, SetAgentCategories, ReviewCrash, Fault

LEMMA ClaimTurn ==
  ASSUME ServicesIInv, part = "claim", UNCHANGED part, ClaimNext,
         UNCHANGED <<reqOwn, invOwn, accOwn, codeOwn, sessionOwn, repOwn, acpVars,
                     mcpVars, outVars, revVars, noteVars, limVars, lifeVars>>
  PROVE  ServicesIInv'
<1>1. PendingIInv /\ PendingIInv'
  BY PendingStep DEF ServicesIInv, RunningInv
<1>2. FaultsCounted'
  BY <1>1 DEF FaultsCounted, PendingIInv, ClaimIInv, ClaimTypeOK
<1>3. ServicesTypeOK' /\ LimitsOvershootByConcurrency'
  BY <1>1, <1>2, LimitsStay,
     ReqTypesStay, InvTypesStay, AccTypesStay, CodeTypesStay, SessionTypesStay,
     RepTypesStay, ACPTypesStay, MCPTypesStay, OutTypesStay, RevTypesStay,
     NoteTypesStay, LimTypesStay, LifeTypesStay
  DEF ServicesIInv, ServicesTypeOK, LimitsOvershootByConcurrency, PendingIInv, ClaimIInv
<1>. QED
  BY <1>1, <1>2, <1>3 DEF ServicesIInv, RunningInv

LEMMA ReqTurn ==
  ASSUME ServicesIInv, part = "req", UNCHANGED part, ReqNext,
         UNCHANGED <<claimOwn, invOwn, accOwn, codeOwn, sessionOwn, repOwn,
                     acpVars, mcpVars, outVars, revVars, noteVars, limVars, lifeVars>>
  PROVE  ServicesIInv'
<1>1. ReqIInv /\ ReqIInv'
  BY ReqStep DEF ServicesIInv, RunningInv
<1>2. FaultsCounted'
  BY <1>1 DEF FaultsCounted, ReqIInv, ReqTypeOK
<1>3. ServicesTypeOK' /\ LimitsOvershootByConcurrency'
  BY <1>1, <1>2, LimitsStay,
     ClaimTypesStay, InvTypesStay, AccTypesStay, CodeTypesStay, SessionTypesStay,
     RepTypesStay, ACPTypesStay, MCPTypesStay, OutTypesStay, RevTypesStay,
     NoteTypesStay, LimTypesStay, LifeTypesStay
  DEF ServicesIInv, ServicesTypeOK, LimitsOvershootByConcurrency, ReqIInv
<1>. QED
  BY <1>1, <1>2, <1>3 DEF ServicesIInv, RunningInv

LEMMA InvTurn ==
  ASSUME ServicesIInv, part = "inv", UNCHANGED part, InvNext,
         UNCHANGED <<claimOwn, reqOwn, accOwn, codeOwn, sessionOwn, repOwn,
                     acpVars, mcpVars, outVars, revVars, noteVars, limVars, lifeVars>>
  PROVE  ServicesIInv'
<1>1. InvIInv /\ InvIInv'
  BY InvStepKeeps DEF ServicesIInv, RunningInv
<1>2. FaultsCounted'
  BY <1>1 DEF FaultsCounted, InvIInv, InvTypeOK
<1>3. ServicesTypeOK' /\ LimitsOvershootByConcurrency'
  BY <1>1, <1>2, LimitsStay,
     ClaimTypesStay, ReqTypesStay, AccTypesStay, CodeTypesStay, SessionTypesStay,
     RepTypesStay, ACPTypesStay, MCPTypesStay, OutTypesStay, RevTypesStay,
     NoteTypesStay, LimTypesStay, LifeTypesStay
  DEF ServicesIInv, ServicesTypeOK, LimitsOvershootByConcurrency, InvIInv
<1>. QED
  BY <1>1, <1>2, <1>3 DEF ServicesIInv, RunningInv

LEMMA AccTurn ==
  ASSUME ServicesIInv, part = "acc", UNCHANGED part, AccNext,
         UNCHANGED <<claimOwn, reqOwn, invOwn, codeOwn, sessionOwn, repOwn,
                     acpVars, mcpVars, outVars, revVars, noteVars, limVars, lifeVars>>
  PROVE  ServicesIInv'
<1>1. AccIInv /\ AccIInv'
  BY AccStep DEF ServicesIInv, RunningInv
<1>2. FaultsCounted'
  BY <1>1 DEF FaultsCounted, AccIInv, AccTypeOK
<1>3. ServicesTypeOK' /\ LimitsOvershootByConcurrency'
  BY <1>1, <1>2, LimitsStay,
     ClaimTypesStay, ReqTypesStay, InvTypesStay, CodeTypesStay, SessionTypesStay,
     RepTypesStay, ACPTypesStay, MCPTypesStay, OutTypesStay, RevTypesStay,
     NoteTypesStay, LimTypesStay, LifeTypesStay
  DEF ServicesIInv, ServicesTypeOK, LimitsOvershootByConcurrency, AccIInv
<1>. QED
  BY <1>1, <1>2, <1>3 DEF ServicesIInv, RunningInv

LEMMA CodeTurn ==
  ASSUME ServicesIInv, part = "code", UNCHANGED part, CodeNext,
         UNCHANGED <<claimOwn, reqOwn, invOwn, accOwn, sessionOwn, repOwn, acpVars,
                     mcpVars, outVars, revVars, noteVars, limVars, lifeVars>>
  PROVE  ServicesIInv'
<1>1. CodeIInv /\ CodeIInv'
  BY CodeStep DEF ServicesIInv, RunningInv
<1>2. FaultsCounted'
  BY <1>1 DEF FaultsCounted, CodeIInv, CodeTypeOK
<1>3. ServicesTypeOK' /\ LimitsOvershootByConcurrency'
  BY <1>1, <1>2, LimitsStay,
     ClaimTypesStay, ReqTypesStay, InvTypesStay, AccTypesStay, SessionTypesStay,
     RepTypesStay, ACPTypesStay, MCPTypesStay, OutTypesStay, RevTypesStay,
     NoteTypesStay, LimTypesStay, LifeTypesStay
  DEF ServicesIInv, ServicesTypeOK, LimitsOvershootByConcurrency, CodeIInv
<1>. QED
  BY <1>1, <1>2, <1>3 DEF ServicesIInv, RunningInv

LEMMA SessionTurn ==
  ASSUME ServicesIInv, part = "session", UNCHANGED part, SessionNext,
         UNCHANGED <<claimOwn, reqOwn, invOwn, accOwn, codeOwn, repOwn, acpVars,
                     mcpVars, outVars, revVars, noteVars, limVars, lifeVars>>
  PROVE  ServicesIInv'
<1>1. SessionIInv /\ SessionIInv'
  BY SessionStep DEF ServicesIInv, RunningInv
<1>2. FaultsCounted'
  BY <1>1 DEF FaultsCounted, SessionIInv, SessionTypeOK
<1>3. ServicesTypeOK' /\ LimitsOvershootByConcurrency'
  BY <1>1, <1>2, LimitsStay,
     ClaimTypesStay, ReqTypesStay, InvTypesStay, AccTypesStay, CodeTypesStay,
     RepTypesStay, ACPTypesStay, MCPTypesStay, OutTypesStay, RevTypesStay,
     NoteTypesStay, LimTypesStay, LifeTypesStay
  DEF ServicesIInv, ServicesTypeOK, LimitsOvershootByConcurrency, SessionIInv
<1>. QED
  BY <1>1, <1>2, <1>3 DEF ServicesIInv, RunningInv

LEMMA RepTurn ==
  ASSUME ServicesIInv, part = "rep", UNCHANGED part, RepNext,
         UNCHANGED <<claimOwn, reqOwn, invOwn, accOwn, codeOwn, sessionOwn,
                     acpVars, mcpVars, outVars, revVars, noteVars, limVars, lifeVars>>
  PROVE  ServicesIInv'
<1>1. RepIInv /\ RepIInv'
  BY RepStep DEF ServicesIInv, RunningInv
<1>2. FaultsCounted'
  BY <1>1, RepTyped DEF FaultsCounted, RepTypeOK
<1>3. ServicesTypeOK' /\ LimitsOvershootByConcurrency'
  BY <1>1, <1>2, LimitsStay, RepTyped,
     ClaimTypesStay, ReqTypesStay, InvTypesStay, AccTypesStay, CodeTypesStay,
     SessionTypesStay, ACPTypesStay, MCPTypesStay, OutTypesStay, RevTypesStay,
     NoteTypesStay, LimTypesStay, LifeTypesStay
  DEF ServicesIInv, ServicesTypeOK, LimitsOvershootByConcurrency
<1>. QED
  BY <1>1, <1>2, <1>3 DEF ServicesIInv, RunningInv

LEMMA ACPTurn ==
  ASSUME ServicesIInv, part = "acp", UNCHANGED part, ACPNext,
         UNCHANGED <<claimOwn, reqOwn, invOwn, accOwn, codeOwn, sessionOwn, repOwn,
                     mcpVars, outVars, revVars, noteVars, limVars, lifeVars>>
  PROVE  ServicesIInv'
<1>1. ACPIInv /\ ACPIInv'
  BY ACPStep DEF ServicesIInv, RunningInv
<1>2. FaultsCounted'
  BY DEF ServicesIInv, FaultsCounted, ACPNext
<1>3. ServicesTypeOK' /\ LimitsOvershootByConcurrency'
  BY <1>1, <1>2, LimitsStay,
     ClaimTypesStay, ReqTypesStay, InvTypesStay, AccTypesStay, CodeTypesStay,
     SessionTypesStay, RepTypesStay, MCPTypesStay, OutTypesStay, RevTypesStay,
     NoteTypesStay, LimTypesStay, LifeTypesStay
  DEF ServicesIInv, ServicesTypeOK, LimitsOvershootByConcurrency, ACPIInv
<1>. QED
  BY <1>1, <1>2, <1>3 DEF ServicesIInv, RunningInv

LEMMA MCPTurn ==
  ASSUME ServicesIInv, part = "mcp", UNCHANGED part, MCPNext,
         UNCHANGED <<claimOwn, reqOwn, invOwn, accOwn, codeOwn, sessionOwn, repOwn,
                     acpVars, outVars, revVars, noteVars, limVars, lifeVars>>
  PROVE  ServicesIInv'
<1>1. MCPIInv /\ MCPIInv'
  BY MCPStep DEF ServicesIInv, RunningInv
<1>2. FaultsCounted'
  BY DEF ServicesIInv, FaultsCounted, MCPNext
<1>3. ServicesTypeOK' /\ LimitsOvershootByConcurrency'
  BY <1>1, <1>2, LimitsStay,
     ClaimTypesStay, ReqTypesStay, InvTypesStay, AccTypesStay, CodeTypesStay,
     SessionTypesStay, RepTypesStay, ACPTypesStay, OutTypesStay, RevTypesStay,
     NoteTypesStay, LimTypesStay, LifeTypesStay
  DEF ServicesIInv, ServicesTypeOK, LimitsOvershootByConcurrency, MCPIInv
<1>. QED
  BY <1>1, <1>2, <1>3 DEF ServicesIInv, RunningInv

LEMMA OutTurn ==
  ASSUME ServicesIInv, part = "out", UNCHANGED part, OutNext,
         UNCHANGED <<claimOwn, reqOwn, invOwn, accOwn, codeOwn, sessionOwn, repOwn,
                     acpVars, mcpVars, revVars, noteVars, limVars, lifeVars>>
  PROVE  ServicesIInv'
<1>1. OutIInv /\ OutIInv'
  BY OutStep DEF ServicesIInv, RunningInv
<1>2. FaultsCounted'
  BY DEF ServicesIInv, FaultsCounted, OutNext
<1>3. ServicesTypeOK' /\ LimitsOvershootByConcurrency'
  BY <1>1, <1>2, LimitsStay,
     ClaimTypesStay, ReqTypesStay, InvTypesStay, AccTypesStay, CodeTypesStay,
     SessionTypesStay, RepTypesStay, ACPTypesStay, MCPTypesStay, RevTypesStay,
     NoteTypesStay, LimTypesStay, LifeTypesStay
  DEF ServicesIInv, ServicesTypeOK, LimitsOvershootByConcurrency, OutIInv
<1>. QED
  BY <1>1, <1>2, <1>3 DEF ServicesIInv, RunningInv

LEMMA RevTurn ==
  ASSUME ServicesIInv, part = "rev", UNCHANGED part, RevNext,
         UNCHANGED <<claimOwn, reqOwn, invOwn, accOwn, codeOwn, sessionOwn, repOwn,
                     acpVars, mcpVars, outVars, noteVars, limVars, lifeVars>>
  PROVE  ServicesIInv'
<1>1. RevIInv /\ RevIInv'
  BY RevStep DEF ServicesIInv, RunningInv
<1>2. FaultsCounted'
  BY ReviewFaults DEF ServicesIInv
<1>3. ServicesTypeOK' /\ LimitsOvershootByConcurrency'
  BY <1>1, <1>2, LimitsStay,
     ClaimTypesStay, ReqTypesStay, InvTypesStay, AccTypesStay, CodeTypesStay,
     SessionTypesStay, RepTypesStay, ACPTypesStay, MCPTypesStay, OutTypesStay,
     NoteTypesStay, LimTypesStay, LifeTypesStay
  DEF ServicesIInv, ServicesTypeOK, LimitsOvershootByConcurrency, RevIInv
<1>. QED
  BY <1>1, <1>2, <1>3 DEF ServicesIInv, RunningInv

LEMMA NoteTurn ==
  ASSUME ServicesIInv, part = "note", UNCHANGED part, NoteNext,
         UNCHANGED <<claimOwn, reqOwn, invOwn, accOwn, codeOwn, sessionOwn, repOwn,
                     acpVars, mcpVars, outVars, revVars, limVars, lifeVars>>
  PROVE  ServicesIInv'
<1>1. NoteIInv /\ NoteIInv'
  BY NoteStep DEF ServicesIInv, RunningInv
<1>2. FaultsCounted'
  BY DEF ServicesIInv, FaultsCounted, NoteNext
<1>3. ServicesTypeOK' /\ LimitsOvershootByConcurrency'
  BY <1>1, <1>2, LimitsStay, NoteTyped,
     ClaimTypesStay, ReqTypesStay, InvTypesStay, AccTypesStay, CodeTypesStay,
     SessionTypesStay, RepTypesStay, ACPTypesStay, MCPTypesStay, OutTypesStay,
     RevTypesStay, LimTypesStay, LifeTypesStay
  DEF ServicesIInv, ServicesTypeOK, LimitsOvershootByConcurrency
<1>. QED
  BY <1>1, <1>2, <1>3 DEF ServicesIInv, RunningInv

LEMMA LimTurn ==
  ASSUME ServicesIInv, part = "lim", UNCHANGED part, LimNext,
         UNCHANGED <<claimOwn, reqOwn, invOwn, accOwn, codeOwn, sessionOwn, repOwn,
                     acpVars, mcpVars, outVars, revVars, noteVars, lifeVars>>
  PROVE  ServicesIInv'
<1>1. LimIInv /\ LimIInv'
  BY LimStep DEF ServicesIInv, RunningInv
<1>2. FaultsCounted'
  BY DEF ServicesIInv, FaultsCounted, LimNext
<1>3. ServicesTypeOK' /\ LimitsOvershootByConcurrency'
  BY <1>1, <1>2, LimitsStay,
     ClaimTypesStay, ReqTypesStay, InvTypesStay, AccTypesStay, CodeTypesStay,
     SessionTypesStay, RepTypesStay, ACPTypesStay, MCPTypesStay, OutTypesStay,
     RevTypesStay, NoteTypesStay, LifeTypesStay
  DEF ServicesIInv, ServicesTypeOK, LimitsOvershootByConcurrency, LimIInv
<1>. QED
  BY <1>1, <1>2, <1>3 DEF ServicesIInv, RunningInv

LEMMA LifeTurn ==
  ASSUME ServicesIInv, part = "life", UNCHANGED part, LifeNext,
         UNCHANGED <<claimOwn, reqOwn, invOwn, accOwn, codeOwn, sessionOwn, repOwn,
                     acpVars, mcpVars, outVars, revVars, noteVars, limVars>>
  PROVE  ServicesIInv'
<1>1. LifeIInv /\ LifeIInv'
  BY LifeStep DEF ServicesIInv, RunningInv
<1>2. FaultsCounted'
  BY DEF ServicesIInv, FaultsCounted, LifeNext
<1>3. ServicesTypeOK' /\ LimitsOvershootByConcurrency'
  BY <1>1, <1>2, LimitsStay,
     ClaimTypesStay, ReqTypesStay, InvTypesStay, AccTypesStay, CodeTypesStay,
     SessionTypesStay, RepTypesStay, ACPTypesStay, MCPTypesStay, OutTypesStay,
     RevTypesStay, NoteTypesStay, LimTypesStay
  DEF ServicesIInv, ServicesTypeOK, LimitsOvershootByConcurrency, LifeIInv
<1>. QED
  BY <1>1, <1>2, <1>3 DEF ServicesIInv, RunningInv

LEMMA ServicesStep ==
  ASSUME ServicesIInv,
         [ServicesNext]_<<part, faults, claimOwn, reqOwn, invOwn, accOwn, codeOwn,
                          sessionOwn, repOwn, acpVars, mcpVars, outVars, revVars,
                          noteVars, limVars, lifeVars>>
  PROVE  ServicesIInv'
<1>1. CASE ServicesNext
  BY <1>1, ClaimTurn, ReqTurn, InvTurn, AccTurn, CodeTurn, SessionTurn, RepTurn,
     ACPTurn, MCPTurn, OutTurn, RevTurn, NoteTurn, LimTurn, LifeTurn
  DEF ServicesNext
<1>2. CASE UNCHANGED <<part, faults, claimOwn, reqOwn, invOwn, accOwn, codeOwn,
                       sessionOwn, repOwn, acpVars, mcpVars, outVars, revVars,
                       noteVars, limVars, lifeVars>>
  <2>1. FaultsCounted' /\ ServicesTypeOK' /\ LimitsOvershootByConcurrency'
    BY <1>2, LimitsStay, ClaimTypesStay, ReqTypesStay, InvTypesStay, AccTypesStay,
       CodeTypesStay, SessionTypesStay, RepTypesStay, ACPTypesStay, MCPTypesStay,
       OutTypesStay, RevTypesStay, NoteTypesStay, LimTypesStay, LifeTypesStay
    DEF ServicesIInv, FaultsCounted, ServicesTypeOK, LimitsOvershootByConcurrency
  <2>2. RunningInv'
    BY <1>2, PendingStep, ReqStep, InvStepKeeps, AccStep, CodeStep, SessionStep,
       RepStep, ACPStep, MCPStep, OutStep, RevStep, NoteStep, LimStep, LifeStep
    DEF ServicesIInv, RunningInv, accOwn, accVars, claimOwn, claimVars, codeOwn,
        codeVars, invOwn, invVars, repOwn, repVars, reqOwn, reqVars, sessionOwn,
        sessionVars
  <2>. QED
    BY <2>1, <2>2 DEF ServicesIInv
<1>. QED
  BY <1>1, <1>2

LEMMA ServicesInductive == ServicesSpec => []ServicesIInv
<1>1. ServicesIInv /\ [ServicesNext]_<<part, faults, claimOwn, reqOwn, invOwn, accOwn,
                                       codeOwn, sessionOwn, repOwn, acpVars, mcpVars,
                                       outVars, revVars, noteVars, limVars, lifeVars>>
      => ServicesIInv'
  BY ServicesStep
<1>. QED
  BY <1>1, ServicesStart, PTL DEF ServicesSpec

(* All services keep their types while any of them runs, and no two users  *)
(* ever share an address.                                                  *)
THEOREM ServicesTypes == ServicesSpec => []ServicesTypeOK
<1>1. ServicesIInv => ServicesTypeOK
  BY DEF ServicesIInv
<1>. QED
  BY <1>1, ServicesInductive, PTL

(* Pending tokens and MCP sessions overshoot their limits by concurrent    *)
(* requests only, for any limits and any number of goroutines              *)
(* (Service.Generate, handleMCPBridgeInitialize).                          *)
THEOREM OvershootSafe == ServicesSpec => []LimitsOvershootByConcurrency
<1>1. ServicesIInv => LimitsOvershootByConcurrency
  BY DEF ServicesIInv
<1>. QED
  BY <1>1, ServicesInductive, PTL

=============================================================================
