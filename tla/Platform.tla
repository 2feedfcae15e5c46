-------------------------------- MODULE Platform --------------------------------
(***************************************************************************)
(* What the modules of the services behind the HTTP handlers have in       *)
(* common.  A handler is a goroutine that runs one SQL statement after the *)
(* other, without a transaction.  Each statement is a step; a statement    *)
(* may fail (the request's context is cancelled when the client leaves,    *)
(* SQLite is busy) and the process may crash and restart between two       *)
(* steps.  A statement that fails before the first change of a handler and *)
(* ends it leaves nothing to see, and is not a step.                       *)
(***************************************************************************)
EXTENDS Naturals, FiniteSets

CONSTANTS
  Agent,     \* agent ids
  User,      \* user accounts
  Handler,   \* goroutines that serve requests
  None,      \* "no value"
  MaxFaults  \* failed statements and crashes in one behaviour

ASSUME NoneIsNoValue == None \notin Agent \cup User \cup Handler
ASSUME FaultBound == MaxFaults \in Nat
ASSUME FinitelyManyHandlers == IsFiniteSet(Handler)

VARIABLE faults  \* faults so far

Fault ==
  /\ faults < MaxFaults
  /\ faults' = faults + 1

=============================================================================
