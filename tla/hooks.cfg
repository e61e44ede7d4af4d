\* Two slots of one agent's message, failing hooks, deliveries and starts; two calls of one agent
\* in a worktree and one of the main thread search, record and edit at once.
SPECIFICATION MCSpec
CONSTANTS
  a1 = a1
  s1 = s1
  s2 = s2
  p1 = p1
  Agents = {a1}
  Slots = {s1, s2}
  Paths = {p1}
  MaxDenials = 1
  MaxPathDenials = 1
  Predictions = {1}
  Multiplier = 4
  MaxCalls = 4
  MaxLosses = 2
  MaxDeliveries = 2
  c1 = c1
  c2 = c2
  c3 = c3
  r1 = r1
  NoRun = NoRun
  main = main
  wt = wt
  f1 = f1
  foo = foo
  bar = bar
  is = is
  Calls = {c1, c2, c3}
  Runs = {r1}
  RunOf <- MCRunOf
  Trees = {main, wt}
  Checkout = main
  TreeOf <- MCTreeOf
  Files = {f1}
  Contents <- MCContents
  Stopwords = {is}
  Queries <- MCQueries
  MaxEntries = 1
  MaxEdits = 1
SYMMETRY Symmetry
CHECK_DEADLOCK FALSE
INVARIANTS
  SerialExact
  CapsNearlyKept
  ReadOpens
  Contained
  AnswerStands
  EditsInvalidate
  CapSlack
