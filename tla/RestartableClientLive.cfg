\* One fault (a hang and its end, say), a configuration restart and Close.
SPECIFICATION FairSpec
CONSTANTS
  MaxGen = 3
  MaxFaults = 1
  MaxRestarts = 1
  NumBackoffs = 1
  Files = {f1}
  Starter = Starter
  Closer = Closer
  Callers = {c1}
  Users = {}
PROPERTIES
  NobodyWaitsForEver
  CrashRecovered
\* The supervisor stops for good when Start fails.
CHECK_DEADLOCK FALSE
