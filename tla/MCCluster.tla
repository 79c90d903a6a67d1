------------------------------- MODULE MCCluster -------------------------------
(* Instances of Cluster: the clusters a run starts with.                     *)
EXTENDS Cluster

CONSTANTS n1, n2, n3, n4, n5

Two == <<n1, n2>>
Three == <<n1, n2, n3>>
Five == <<n1, n2, n3, n4, n5>>
=============================================================================
