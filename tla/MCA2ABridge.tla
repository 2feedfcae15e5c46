---------------------------- MODULE MCA2ABridge ----------------------------
(* A2ABridge on small instances: as many requests as are needed to reach   *)
(* the limit, to pass it, and to have one task removed while its handler   *)
(* or a tasks/cancel call still holds a copy.                              *)
EXTENDS A2ABridge, TLC

Symmetric == Permutations(Task) \cup Permutations(Canceler)
=============================================================================
