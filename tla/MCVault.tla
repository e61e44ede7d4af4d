------------------------------- MODULE MCVault -------------------------------
(***************************************************************************)
(* Small instances for TLC of the vault (Vault) and of the two halves of   *)
(* the clamp, bounded reads (Clamp) and compressed output (Compress).      *)
(* They share nothing; a behaviour is one of one of them.                  *)
(***************************************************************************)
EXTENDS Vault, Clamp, Compress, TLC

CONSTANTS k1, k2, k3, p1, p2, a1, s1, s2, f1, f2

VARIABLE part   \* "vault", "reads" or "output": what this behaviour is about

\* With margin 1: lines 1-2, 1-3, 4-6 (adjacent to it) and 1-5.
MCSpans == {{<<1, 1>>}, {<<2, 2>>}, {<<5, 5>>}, {<<2, 2>>, <<4, 4>>}}

\* A command that is taken for a diff, a test or a build may run another tool beside it.
\* A match of a Grep is a line of a source file.
MCPrints ==
  [grep  |-> {{}, {f1}, {f2}},
   git   |-> {{}, {"header"}, {"hunk"}, {"stat"}, {"failure", "signal"}},
   tests |-> {{}, {"newblock"}, {"summary"}, {"failure"}, {"failure", "newblock"},
              {"failure", "signal"}, {"signal"}},
   build |-> {{}, {"signal"}, {"failure"}},
   none  |-> {{}}]

Symmetry == Permutations(Slots)

MCInit ==
  /\ part \in {"vault", "reads", "output"}
  /\ Init
  /\ ClampInit  /\ (part # "reads"  => length = 1)
  /\ OutputInit /\ (part # "output" => tool = "Read")

MCNext ==
  \/ part = "vault"  /\ Next       /\ UNCHANGED <<part, clampVars, outputVars>>
  \/ part = "reads"  /\ ClampNext  /\ UNCHANGED <<part, vars, outputVars>>
  \/ part = "output" /\ OutputNext /\ UNCHANGED <<part, vars, clampVars>>

MCSpec == MCInit /\ [][MCNext]_<<part, vars, clampVars, outputVars>>
=============================================================================
