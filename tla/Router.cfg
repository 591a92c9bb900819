\* Two goroutines, three languages of which two share a server, two servers: two running, or one that failed and its retry.
SPECIFICATION FairSpec
CONSTANTS
  cLang = cLang
  cppLang = cppLang
  goLang = goLang
  Langs = {cLang, cppLang, goLang}
  Primary <- Groups
  Configs = {cLang, goLang}
  Procs = {p1, p2}
  MaxServers = 2
  NoLang = NoLang
  NoOne = NoOne
INVARIANTS
  NoServerLost
PROPERTY ShutdownEnds
\* The process ends.
CHECK_DEADLOCK FALSE
