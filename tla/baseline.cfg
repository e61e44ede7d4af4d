SPECIFICATION BaselineSpec
CONSTANTS
  s1 = s1
  s2 = s2
  s3 = s3
  w1 = w1
  pa = pa
  pb = pb
  r1 = r1
  r3 = r3
  Sessions = {s1, s2, s3}
  Stops = {w1}
  Runs = {r1, r3}
  Repos <- MCRepos
  Drives <- MCDrives
  Home <- MCHome
  ModeOf <- MCModeOf
  StopRun <- MCStopRun
  Spent <- MCSpent
  Calls <- MCCalls
  MaxFaults = 1
INVARIANTS EndsCounted NothingMadeUp LedgerHeals
CHECK_DEADLOCK FALSE
