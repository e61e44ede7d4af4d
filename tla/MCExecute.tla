------------------------------ MODULE MCExecute ------------------------------
(* A small instance of Execute for TLC: b depends on a, and owns no file with it. *)
EXTENDS Execute, TLC

CONSTANTS a, b, c, k

MCBranching == (a :> {}) @@ (b :> {a}) @@ (c :> {})

MCPair        == [t \in Tasks |-> IF t = c THEN {} ELSE {k}]

MCShares   == {{a, c}}
=============================================================================
