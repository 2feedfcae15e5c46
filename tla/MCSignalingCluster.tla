------------------------- MODULE MCSignalingCluster -------------------------
(* SignalingCluster on small instances: two nodes, either of which may     *)
(* have fallen back to a LocalBroker, and two concurrent publishers.       *)
EXTENDS SignalingCluster, TLC

Symmetric == Permutations(Node) \cup Permutations(Agent)
               \cup Permutations(Source) \cup Permutations(Message)
=============================================================================
