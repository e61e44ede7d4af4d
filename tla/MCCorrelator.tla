---------------------------- MODULE MCCorrelator ----------------------------
(* Instances of Correlator: two sessions, s1..s3 in one and s4 in the other. *)
EXTENDS Correlator, TLC

CONSTANTS s1, s2, s3, s4, c1, c2

MCSessionOf == s1 :> c1 @@ s2 :> c1 @@ s3 :> c1 @@ s4 :> c2
=============================================================================
