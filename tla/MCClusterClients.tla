-------------------------- MODULE MCClusterClients --------------------------
(* Instances of ClusterClients for TLC. *)
EXTENDS ClusterClients

CONSTANTS g1, g2, y1, r1, r2
=============================================================================
