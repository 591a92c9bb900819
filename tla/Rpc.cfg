\* Two concurrent calls to a server that answers late, asks, notifies, garbles, stops reading and dies.
SPECIFICATION FairSpec
CONSTANTS
  Calls = {c1, c2}
  NoCall = NoCall
  MaxId = 2
  MaxSent = 2
  MaxOut = 2
INVARIANTS
  ReaderNeverBlocks
  RepliesInOrder
PROPERTIES
  PromiseSpec
  CallsReturn
\* Everything has returned and the server is gone.
CHECK_DEADLOCK FALSE
