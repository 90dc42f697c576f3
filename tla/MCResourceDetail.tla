--------------------------- MODULE MCResourceDetail ---------------------------
(* Instances of ResourceDetail for TLC. *)
EXTENDS ResourceDetail
CONSTANTS ns, pod
=============================================================================
