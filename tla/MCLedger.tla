------------------------------- MODULE MCLedger -------------------------------
(* Instances of Ledger: agents of one node, a1 resumed for a second round. *)
EXTENDS Ledger

CONSTANTS a1, a2, n1

MCNodeOf == [a \in Agents |-> n1]
MCMaxResumes == [a \in Agents |-> IF a = a1 THEN 1 ELSE 0]
MCFormsOf == [a \in Agents |-> IF a = a1 THEN {"valid", "invalid"} ELSE {"valid"}]
=============================================================================
