\* A configuration callback, health monitors and a tool handler race across a crash.
SPECIFICATION HistorySpec
CONSTANTS
  MaxGen = 3
  MaxFaults = 1
  MaxRestarts = 1
  NumBackoffs = 2
  Files = {f1, f2}
  Starter = Starter
  Closer = Closer
  Callers = {c1}
  Users = {u1}
INVARIANTS
  HandedOutReady
  FilesKept
PROPERTY SlotSpec
\* The supervisor stops for good when Start fails.
CHECK_DEADLOCK FALSE
