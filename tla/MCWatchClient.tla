---------------------------- MODULE MCWatchClient ----------------------------
(* Instances of WatchClient for TLC. *)
EXTENDS WatchClient

CONSTANTS h1, h2, h3, pods, nodes

\* Two places watch the pods and one the nodes.
Watches == [h \in Hook |-> IF h = h3 THEN nodes ELSE pods]
=============================================================================
