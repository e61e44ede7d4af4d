\* Two sessions under every disturbance; s3 has no marker.
SPECIFICATION Spec
CONSTANTS
  s1 = s1
  s2 = s2
  s3 = s3
  s4 = s4
  c1 = c1
  c2 = c2
  NoNode = NoNode
  Spawns = {s1, s2, s3, s4}
  Sessions = {c1, c2}
  SessionOf <- MCSessionOf
  Marked = {s1, s2, s4}
  TTL = 1
  MaxTime = 2
  MaxRestarts = 1
CHECK_DEADLOCK FALSE
INVARIANT
  Exact
PROPERTY
  Attributes
