SPECIFICATION MCSpec
CONSTANTS
  Files = {f1, f2}
  MaxTexts = 4
  MaxFixes = 2
  ResponseSize = 4
SYMMETRY FileSymmetry
INVARIANTS
  EditsFit
  ServerTold
  WholeOrAborted
  EditsExact
  DiffBalances
  ViewsAgree
  PlacesShown
  NamesResolve
  PlacesAsked
  FixChosen
  GraphRight
  MeantIsRead
  FilesAreServed
CHECK_DEADLOCK FALSE
