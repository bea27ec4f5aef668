SPECIFICATION Spec
CONSTANTS
  a = a
  b = b
  s1 = s1
  Channels = {a, b}
  Sources = {s1}
  Carries <- MCCarries
  NoFile = NoFile
  MaxTime = 2
  MaxRequests = 1
  MaxRuns = 2
  MaxFaults = 1
  MaxCrashes = 1
INVARIANT
  FailedRunKeepsSlugs
CHECK_DEADLOCK FALSE
