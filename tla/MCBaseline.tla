----------------------------- MODULE MCBaseline -----------------------------
(* Constants of the run `baseline`: two sessions in repository a, one in b; w1 is *)
(* a stop of an agent of r1, s2 ends on a run it never touched.                   *)
EXTENDS Baseline, TLC

CONSTANTS s1, s2, s3, w1, pa, pb, r1, r3

MCRepos   == <<pa, pb>>
MCHome    == (s1 :> pa @@ s2 :> pa @@ s3 :> pb)
MCDrives  == (s1 :> {r1} @@ s2 :> {} @@ s3 :> {r3})
MCModeOf  == (r1 :> "full" @@ r3 :> "full")
MCStopRun == (w1 :> r1)
MCSpent   == (s1 :> 300 @@ s2 :> Unknown @@ s3 :> 50 @@ w1 :> 100)
MCCalls   == (s1 :> Unknown @@ s2 :> Unknown @@ s3 :> Unknown @@ w1 :> 12)
=============================================================================
