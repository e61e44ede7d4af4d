----------------------------- MODULE MCLifecycle -----------------------------
(* Instances of Lifecycle with three sessions. *)
EXTENDS Lifecycle, TLC

CONSTANTS s1, s2, s3
=============================================================================
