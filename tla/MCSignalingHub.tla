--------------------------- MODULE MCSignalingHub ---------------------------
(* SignalingHub on small instances: two agents and two or three upgrades,  *)
(* so that an agent reconnects while its previous goroutine still runs.    *)
EXTENDS SignalingHub, TLC

ConnSymmetry == Permutations(Conn)
=============================================================================
