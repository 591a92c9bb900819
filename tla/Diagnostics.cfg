\* One tool handler, one timer of the watcher, and a server that publishes in instalments.
SPECIFICATION DiagnosticsSpec
CONSTANTS
  Checkers = {t1}
  Timers = {w1}
  MaxRev = 2
  MaxPubs = 3
  MaxChans = 3
INVARIANTS
  FreshWhenWoken
  NoLostWakeup
  DiffStartsBefore
\* The bounds end a behaviour.
CHECK_DEADLOCK FALSE
