\* Three sessions, one with the meter off: boots, ends, crashes, a compaction, failed starts, slow daemons and `dag-meter off` in any order.
SPECIFICATION FairSpec
CONSTANTS
  s1 = s1
  s2 = s2
  s3 = s3
  NoSession = NoSession
  Sessions = {s1, s2, s3}
  Disabled = {s3}
  MaxReboots = 1
CHECK_DEADLOCK FALSE
INVARIANTS
  CountsSessions
  OneDaemon
PROPERTY
  NothingHangs
