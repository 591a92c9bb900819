\* One server from its start to its end: it talks during initialize, hangs, dies, is killed.
SPECIFICATION FairSpec
CONSTANTS
  Tokens = {t1}
  Asked = {}
  Noted = {}
  NumFiles = 1
  InRoom = 1
  OutRoom = 1
  MaxSent = 3
INVARIANTS
  LostOnlyEarly
  ProgressSettles
  NoProcessLeft
PROPERTIES
  CloseReturns
  ReplyLeaves
\* Everything is closed, or has crashed.
CHECK_DEADLOCK FALSE
