CONSTANTS
  a1 = a1
  a2 = a2
  n1 = n1
  n2 = n2
  t1 = t1
  t2 = t2
  c1 = c1
  NoTask = NoTask
  Unclaimed = Unclaimed
  Agents = {a1, a2}
  Nodes = {n1, n2}
  Tasks = {t1, t2}
  Contracts = {c1}
  Files = {1, 2, 3, 4}
  Shunned = {2}
  NodeOf <- MCNodeOf
  Trees <- MCTrees
  Finished = {n1, n2}
  Finds = {"git_log", "search"}
  WorksOn <- MCWorksOn
  TaskOf <- MCTaskOf
  Owns <- MCOwns
  Consumes <- MCConsumes
  Imports <- MCImports
  ApplyTo = {a1, a2}
  MaxNeighbours = 2
  MaxTokens = 11
  MaxFaults = 2
SYMMETRY Alike
SPECIFICATION PackSpec
INVARIANT CutFromTail
CHECK_DEADLOCK FALSE
