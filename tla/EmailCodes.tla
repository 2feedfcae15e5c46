------------------------------- MODULE EmailCodes -------------------------------
(***************************************************************************)
(* The one-time codes of one email address: to verify it and to reset the  *)
(* password (internal/userauth: sendOTP, VerifyEmail, ResetPassword, the   *)
(* table email_verifications; the clean-up in cmd/peerclawd).              *)
(*                                                                         *)
(* Failed attempts are counted in memory, in a tracker that goroutines     *)
(* increment without a lock.                                               *)
(***************************************************************************)
EXTENDS Platform

CONSTANTS
  Code,       \* codes that can be drawn
  MaxPerHour, \* OTPConfig.MaxPerHour
  MaxFailed   \* OTPConfig.MaxFailedAttempts

ASSUME NoneIsNoCode == None \notin Code
ASSUME LimitsPositive == MaxPerHour \in Nat \ {0} /\ MaxFailed \in Nat \ {0}

VARIABLES
  codes,    \* table email_verifications: the row of a code, or None
  tracker,  \* otpFailures: the count, 0 when there is no tracker
  calm,     \* the tracker's lastFail is BlockDuration ago
  tester,   \* what a goroutine is at
  failures, \* history: wrong codes since the tracker was last dropped
  hour,     \* history: codes sent within the last hour
  uses,     \* history: how often a code was accepted
  reusable  \* history: codes that a fault kept from being marked

codeVars == <<codes, tracker, calm, tester, failures, hour, uses, reusable, faults>>

Purpose == {"register", "password_reset"}
CodeRow == [purpose : Purpose, used : BOOLEAN, expired : BOOLEAN]

Testing == [at : {"idle", "create", "lookup", "count", "mark"},
            purpose : Purpose, code : Code \cup {None},
            seen : Nat \cup {None}] \* the count it read in the tracker, or
                                   \* None when that tracker was dropped

NoTest == [at |-> "idle", purpose |-> "register", code |-> None, seen |-> None]

CodeTypeOK ==
  /\ codes \in [Code -> CodeRow \cup {None}]
  /\ tracker \in Nat
  /\ calm \in BOOLEAN
  /\ tester \in [Handler -> Testing]
  /\ failures \in Nat
  /\ hour \in SUBSET Code
  /\ uses \in [Code -> Nat]
  /\ reusable \in SUBSET Code
  /\ faults \in 0..MaxFaults

CodeInit ==
  /\ codes = [c \in Code |-> None]
  /\ tracker = 0
  /\ calm = FALSE
  /\ tester = [h \in Handler |-> NoTest]
  /\ failures = 0
  /\ hour = {}
  /\ uses = [c \in Code |-> 0]
  /\ reusable = {}
  /\ faults = 0

history == <<hour, uses, reusable>>
counting == <<tracker, calm, failures>>

-----------------------------------------------------------------------------
TesterAt(h, stage) == tester[h].at = stage
EndTest(h) == tester' = [tester EXCEPT ![h] = NoTest]

(* SQLiteStore.CountRecentVerifications: the rows created within the hour. *)
CountRecent == Cardinality({c \in hour : codes[c] # None})

SendAllowed == CountRecent < MaxPerHour

(* ResendVerification, RequestPasswordReset and sendOTP, up to the count;  *)
(* the user exists, or nothing is sent.                                    *)
SendCheck(h, c, purpose) ==
  /\ tester[h] = NoTest
  /\ codes[c] = None /\ c \notin hour /\ uses[c] = 0
  /\ \A g \in Handler : tester[g].code # c
  /\ SendAllowed
  /\ tester' = [tester EXCEPT ![h] =
       [NoTest EXCEPT !.at = "create", !.purpose = purpose, !.code = c]]
  /\ UNCHANGED <<codes, counting, history, faults>>

(* Service.sendOTP, from CreateEmailVerification on.                       *)
CreateCode(h) ==
  /\ TesterAt(h, "create")
  /\ codes' = [codes EXCEPT ![tester[h].code] =
       [purpose |-> tester[h].purpose, used |-> FALSE, expired |-> FALSE]]
  /\ hour' = hour \cup {tester[h].code}
  /\ EndTest(h)
  /\ UNCHANGED <<counting, uses, reusable, faults>>

-----------------------------------------------------------------------------
(* Service.isOTPBlocked                                                    *)
Blocked == tracker >= MaxFailed /\ ~calm

(* Variant: the count is set to zero, the tracker stays.                   *)
ClearInPlace(h, next) ==
  /\ tracker' = 0
  /\ calm' = FALSE
  /\ failures' = 0
  /\ tester' = [tester EXCEPT ![h] = next]

(* Service.clearOTPFailures drops the tracker: a goroutine that has loaded *)
(* it goes on with it, unseen.                                             *)
ClearFailures(h, next) ==
  /\ tracker' = 0
  /\ calm' = FALSE
  /\ failures' = 0
  /\ tester' = [g \in Handler |->
       IF g = h THEN next
       ELSE IF TesterAt(g, "count") THEN [tester[g] EXCEPT !.seen = None]
       ELSE tester[g]]

(* VerifyEmail and ResetPassword: an address that is not blocked may try;  *)
(* a tracker that was left alone for long goes.                            *)
Try(h, purpose) ==
  /\ tester[h] = NoTest
  /\ ~Blocked
  /\ LET try == [NoTest EXCEPT !.at = "lookup", !.purpose = purpose]
     IN  IF calm THEN ClearFailures(h, try)
         ELSE /\ tester' = [tester EXCEPT ![h] = try]
              /\ UNCHANGED counting
  /\ UNCHANGED <<codes, history, faults>>

(* Variant: a used code is found as well.                                  *)
GetAnyVerification(c, purpose) == codes[c] # None /\ codes[c].purpose = purpose

(* SQLiteStore.GetEmailVerification                                        *)
GetEmailVerification(c, purpose) ==
  codes[c] # None /\ codes[c].purpose = purpose /\ ~codes[c].used

LookUpCode(h, c) ==
  /\ TesterAt(h, "lookup")
  /\ GetEmailVerification(c, tester[h].purpose)
  /\ IF codes[c].expired
     THEN EndTest(h)
     ELSE tester' = [tester EXCEPT ![h].at = "mark", ![h].code = c]
  /\ UNCHANGED <<codes, counting, history, faults>>

(* A wrong code, or one that is used: recordOTPFailure reads the count of  *)
(* the tracker; a new one has never failed, which is long ago ...          *)
LookUpFails(h) ==
  /\ TesterAt(h, "lookup")
  /\ tester' = [tester EXCEPT ![h].at = "count", ![h].seen = tracker]
  /\ calm' = (calm \/ tracker = 0)
  /\ failures' = failures + 1
  /\ UNCHANGED <<codes, tracker, history, faults>>

(* ... and writes it, though others have written it meanwhile.             *)
RecordFailure(h) ==
  /\ TesterAt(h, "count")
  /\ IF tester[h].seen = None
     THEN UNCHANGED <<tracker, calm>>
     ELSE tracker' = tester[h].seen + 1 /\ calm' = FALSE
  /\ EndTest(h)
  /\ UNCHANGED <<codes, failures, history, faults>>

(* MarkEmailVerificationUsed and clearOTPFailures; the user is verified,   *)
(* or gets a password, then (Accounts).                                    *)
MarkUsed(h) ==
  /\ TesterAt(h, "mark")
  /\ codes' = IF codes[tester[h].code] = None THEN codes
              ELSE [codes EXCEPT ![tester[h].code].used = TRUE]
  /\ uses' = [uses EXCEPT ![tester[h].code] = @ + 1]
  /\ ClearFailures(h, NoTest)
  /\ UNCHANGED <<hour, reusable, faults>>

(* The error of MarkEmailVerificationUsed is ignored.                      *)
MarkUsedFails(h) ==
  /\ TesterAt(h, "mark")
  /\ uses' = [uses EXCEPT ![tester[h].code] = @ + 1]
  /\ reusable' = reusable \cup {tester[h].code}
  /\ ClearFailures(h, NoTest)
  /\ Fault
  /\ UNCHANGED <<codes, hour>>

-----------------------------------------------------------------------------
(* CodeExpiry passes, BlockDuration passes, the hour passes.               *)
CodeExpires(c) ==
  /\ codes[c] # None
  /\ ~codes[c].expired
  /\ codes' = [codes EXCEPT ![c].expired = TRUE]
  /\ UNCHANGED <<counting, tester, history, faults>>

BlockPasses ==
  /\ tracker > 0
  /\ ~calm
  /\ calm' = TRUE
  /\ UNCHANGED <<codes, tracker, failures, tester, history, faults>>

HourPasses ==
  /\ \A c \in hour : codes[c] # None => codes[c].expired
  /\ hour # {}
  /\ hour' = {}
  /\ UNCHANGED <<codes, counting, tester, uses, reusable, faults>>

(* Service.DeleteExpiredVerifications, every hour.                         *)
CleanUpCodes ==
  /\ \E c \in Code : codes[c] # None /\ codes[c].expired
  /\ codes' = [c \in Code |-> IF codes[c] # None /\ codes[c].expired THEN None
                              ELSE codes[c]]
  /\ UNCHANGED <<counting, tester, hour, uses, reusable, faults>>

CodeCrash ==
  /\ Fault
  /\ tester' = [h \in Handler |-> NoTest]
  /\ tracker' = 0
  /\ calm' = FALSE
  /\ failures' = 0
  /\ UNCHANGED <<codes, history>>

sendOTP(h) ==
  (\E c \in Code, p \in Purpose : SendCheck(h, c, p)) \/ CreateCode(h)

UseCode(h) ==
  \/ \E p \in Purpose : Try(h, p)
  \/ \E c \in Code : LookUpCode(h, c)
  \/ LookUpFails(h) \/ RecordFailure(h)
  \/ MarkUsed(h) \/ MarkUsedFails(h)

CodeNext ==
  \/ \E h \in Handler : sendOTP(h) \/ UseCode(h)
  \/ \E c \in Code : CodeExpires(c)
  \/ BlockPasses \/ HourPasses \/ CleanUpCodes \/ CodeCrash

CodeSpec == CodeInit /\ [][CodeNext]_codeVars

-----------------------------------------------------------------------------
(* A code is accepted again only by goroutines that looked it up before it *)
(* was marked: together no more than there are, unless marking it failed   *)
(* (VerifyEmail, ResetPassword).                                           *)
CodeUsedOnce ==
  \A c \in Code \ reusable :
    uses[c] + Cardinality({h \in Handler : TesterAt(h, "mark") /\ tester[h].code = c})
    <= Cardinality(Handler)

(* An address is blocked for wrong codes that were tried since it was last *)
(* cleared, by a right code or a pause: an attempt that loaded the count   *)
(* before that does not bring it back (isOTPBlocked, recordOTPFailure,     *)
(* clearOTPFailures).                                                      *)
BlockedForFailures == tracker <= failures

=============================================================================
