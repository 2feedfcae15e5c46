------------------------------- MODULE RateLimiter ------------------------------
(***************************************************************************)
(* The limiter behind the request, invocation and bridge limits: a token   *)
(* bucket for each key, made when the key is first seen and forgotten by   *)
(* the clean-up that runs every minute when the key was idle for more than *)
(* five minutes.  A forgotten key starts again with a full bucket.  Time   *)
(* is counted in ticks; tokens in parts of 1/Period, so that a bucket      *)
(* gains one part a tick and a request costs Period of them.               *)
(***************************************************************************)
EXTENDS Platform, Integers

CONSTANTS
  ClientKey,  \* addresses, user ids or agent ids
  Burst,      \* requests a full bucket allows
  Period,     \* ticks in which a bucket gains one request
  IdleTicks,  \* ticks after which the clean-up forgets an idle key
  Hour,       \* ticks in an hour
  Horizon     \* bound: ticks in one behaviour

ASSUME LimiterConstants ==
  /\ Burst \in Nat \ {0} /\ Period \in Nat \ {0}
  /\ IdleTicks \in Nat /\ Hour \in Nat /\ Horizon \in Nat

VARIABLES
  now,       \* the clock
  limiters,  \* limiters: a key's bucket [tokens, lastSeen], or None
  allowed    \* requests allowed so far

limVars == <<now, limiters, allowed>>

Full == Burst * Period
Bucket == [tokens : 0..Full, lastSeen : 0..Horizon]

ASSUME NoneIsNoBucket == None \notin Bucket

LimInit ==
  /\ now = 0
  /\ limiters = [k \in ClientKey |-> None]
  /\ allowed = [k \in ClientKey |-> 0]

Gain(tokens) == IF tokens < Full THEN tokens + 1 ELSE Full

Tick ==
  /\ now < Horizon
  /\ now' = now + 1
  /\ limiters' = [k \in ClientKey |->
       IF limiters[k] = None THEN None
       ELSE [limiters[k] EXCEPT !.tokens = Gain(limiters[k].tokens)]]
  /\ UNCHANGED allowed

(* GetLimiter: the key's bucket, a full one for a key not seen.             *)
GetLimiter(k) ==
  IF limiters[k] = None THEN [tokens |-> Full, lastSeen |-> now]
  ELSE [limiters[k] EXCEPT !.lastSeen = now]

Allow(k) ==
  /\ GetLimiter(k).tokens >= Period
  /\ limiters' = [limiters EXCEPT ![k] =
       [tokens |-> GetLimiter(k).tokens - Period, lastSeen |-> now]]
  /\ allowed' = [allowed EXCEPT ![k] = allowed[k] + 1]
  /\ UNCHANGED now

Deny(k) ==
  /\ GetLimiter(k).tokens < Period
  /\ limiters' = [limiters EXCEPT ![k] = GetLimiter(k)]
  /\ UNCHANGED <<now, allowed>>

(* Variant: an entry is old one clean-up after it was seen.                 *)
StaleSoon(k) == limiters[k] # None /\ now > limiters[k].lastSeen

Stale(k) == limiters[k] # None /\ now - limiters[k].lastSeen > IdleTicks

Cleanup ==
  /\ \E k \in ClientKey : Stale(k)
  /\ limiters' = [k \in ClientKey |-> IF Stale(k) THEN None ELSE limiters[k]]
  /\ UNCHANGED <<now, allowed>>

LimNext ==
  /\ UNCHANGED faults
  /\ \/ Tick
     \/ \E k \in ClientKey : Allow(k) \/ Deny(k)
     \/ Cleanup

LimSpec == LimInit /\ faults = 0 /\ [][LimNext]_<<limVars, faults>>

-----------------------------------------------------------------------------
(* Types.                                                                   *)
LimTypeOK ==
  /\ now \in 0..Horizon
  /\ limiters \in [ClientKey -> Bucket \cup {None}]
  /\ allowed \in [ClientKey -> Nat]

(* The clean-up is transparent when a bucket fills up within the idle time: *)
(* from the start, no key is allowed more than a full bucket and what the   *)
(* rate adds, as if no entry were ever forgotten (ratelimit.go:70-96).      *)
CleanupIsTransparent ==
  Full <= IdleTicks + 1 =>
    \A k \in ClientKey : allowed[k] * Period <= Full + now

(* "Anonymous: 10 calls/hour/IP", main.go:405, with a burst on top of it:   *)
(* NewIPRateLimiter(10.0/3600.0, 3) is Period 6 and Burst 3 with a tick of  *)
(* a minute.                                                                *)
HourlyLimit ==
  \A k \in ClientKey : now <= Hour => allowed[k] <= Burst + Hour \div Period

=============================================================================
