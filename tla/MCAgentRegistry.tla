---------------------------- MODULE MCAgentRegistry ----------------------------
(***************************************************************************)
(* Instances of AgentRegistry for TLC.  Goroutines and protocols are       *)
(* interchangeable, also for SilentGoesAway: neither the property nor the  *)
(* actions that are fair (the checker's, which leave handlers and routes   *)
(* alone) name one.                                                        *)
(***************************************************************************)
EXTENDS AgentRegistry, TLC

Symmetry == Permutations(Handler) \cup Permutations(Protocol)
=============================================================================
