\* A tool handler in any sequence of operations next to two timers of the watcher.
SPECIFICATION Spec
CONSTANTS
  Tools = {t1}
  Timers = {w1, w2}
  Ops = {"open", "sync", "change", "close"}
  MaxWrites = 2
  MaxInfos = 2
  MaxVersion = 3
SYMMETRY TimerSymmetry
INVARIANTS
  SyncEnsures
  TableMatchesServer
  ChangeNeedsOpen
  VersionsUnique
\* The bounds on entries and versions end a behaviour.
CHECK_DEADLOCK FALSE
