\* A new server dies before the flag is reset.
SPECIFICATION FairSpec
CONSTANTS
  MaxGen = 3
  MaxFaults = 2
  MaxRestarts = 0
  NumBackoffs = 2
  Files = {}
  Starter = Starter
  Closer = Closer
  Callers = {}
  Users = {}
PROPERTY AutoRestart
\* The supervisor stops for good when Start fails.
CHECK_DEADLOCK FALSE
