\* Two agents of one node: one resumed, with any receipts, one that stops once; a daemon exit and a hook, job or write that raises, under the fairness of live threads.
SPECIFICATION FairSpec
CONSTANTS
  a1 = a1
  a2 = a2
  n1 = n1
  NoReceipt = NoReceipt
  Agents = {a1, a2}
  Nodes = {n1}
  NodeOf <- MCNodeOf
  RepairTurns = 1
  MaxResumes <- MCMaxResumes
  FormsOf <- MCFormsOf
  MaxExits = 1
  MaxFailures = 1
CHECK_DEADLOCK FALSE
INVARIANTS
  RepairBounded
  LatestReceiptKept
PROPERTIES
  StopsAccounted
  RoundEnds
