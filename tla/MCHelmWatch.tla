----------------------------- MODULE MCHelmWatch -----------------------------
(* Instances of HelmWatch for TLC. *)
EXTENDS HelmWatch

CONSTANTS web
=============================================================================
