\* One command runs two tools: the compressor of the first judges what the second prints.
SPECIFICATION MCSpec
CONSTANTS
  k1 = k1
  k2 = k2
  k3 = k3
  p1 = p1
  p2 = p2
  Keys = {k1, k2, k3}
  Patches = {p1, p2}
  MaxFiles = 1
  MaxJobs = 3
  MaxPurges = 2
  a1 = a1
  s1 = s1
  s2 = s2
  f1 = f1
  f2 = f2
  Agents = {a1}
  Slots = {s1, s2}
  MaxLine = 6
  Threshold = 2
  Margin = 1
  SpanSets <- MCSpans
  MaxBuilds = 2
  MaxEdits = 1
  Hit = {f1, f2}
  Prints <- MCPrints
  MaxLines = 6
  MinLines = 3
  TailLines = 1
  BlockLines = 2
  MaxPerFile = 1
SYMMETRY Symmetry
CHECK_DEADLOCK FALSE
INVARIANT NoErrorRemoved
