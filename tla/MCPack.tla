------------------------------- MODULE MCPack -------------------------------
(* Constants of the runs `pack`, `pack_tail` and `pack_unowned`. *)
EXTENDS Pack

CONSTANTS a1, a2, n1, n2, t1, t2, c1

\* n1 is spawned twice; n2 may have left a receipt for a file of n1.
MCNodeOf == a1 :> n1 @@ a2 :> n1
Alike == Permutations({a1, a2})
MCWorksOn == n1 :> t1 @@ n2 :> t2

\* Nodes that are called like their tasks, as in tests/ and meter-handoff.md.
MCTaskOf == MCWorksOn
\* <task-id>-worker, as in skills/orchestrator/SKILL.md: no task has such an id.
MCSuffixed == n1 :> NoTask @@ n2 :> NoTask

\* The whole tree.  Its pushed pack is over the budget: the neighbours are skipped,
\* and the log behind them just fits.  A torn tasks.json makes for a smaller one.
MCTrees == {{1, 2, 3, 4}}
MCOwns == t1 :> {1, 2} @@ t2 :> {2}
MCConsumes == t1 :> {c1} @@ t2 :> {}
MCImports == 1 :> {2, 3, 4} @@ 2 :> {3} @@ 3 :> {} @@ 4 :> {}
=============================================================================
