\* A source file, a configuration file and three timers; every order of two changes.
SPECIFICATION FairSpec
CONSTANTS
  source = source
  conf = conf
  Files = {source, conf}
  Config = {conf}
  Timers = {w1, w2, w3}
  Masks <- SomeMasks
  NewDirs = {conf}
  MaxMods = 2
  MaxRegs = 1
  MaxFaults = 1
  NoFile = NoFile
  NoTimer = NoTimer
INVARIANTS
  NoChangeMissed
  PresentIsTold
  ConfigApplied
PROPERTY ChangesReported
CHECK_DEADLOCK FALSE
