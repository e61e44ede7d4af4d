\* A contract shared by a task and its dependent, a file shared by two others; a session may die between or inside steps.
SPECIFICATION FairSpec
CONSTANTS
  a = a
  b = b
  c = c
  k = k
  Tasks = {a, b, c}
  DependsOn <- MCBranching
  Consumes <- MCPair
  Shares <- MCShares
  Contracts = {k}
  Classes = {"spec-defect"}
  Numbers = {1, 2}
  MaxCrashes = 1
CHECK_DEADLOCK FALSE
INVARIANTS
  BuiltOnDependencies
  CurrentContracts
  LandsOnce
  NoneStranded
PROPERTY
  Ends
