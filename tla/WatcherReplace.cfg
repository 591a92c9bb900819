\* One source file in a watched directory, opened by a tool.
SPECIFICATION Spec
CONSTANTS
  source = source
  conf = conf
  Files = {source}
  Config = {}
  Timers = {w1, w2}
  Masks = {}
  NewDirs = {}
  MaxMods = 2
  MaxRegs = 0
  MaxFaults = 0
  NoFile = NoFile
  NoTimer = NoTimer
INVARIANT OpenFilesFollow
CHECK_DEADLOCK FALSE
