CONSTANTS
  Names <- MCNames
  Sizes <- MCSizes
  NoSize = NoSize
  NoRange = NoRange
  NoTarget = NoTarget
  Modules <- MCModules
SPECIFICATION FairSpec
INVARIANTS
  TypeOK
  IInv
  VerdictMatchesErrors
  TableSpeaksForAll
  BailReportsOnce
  AcceptedWithAllWarnings
PROPERTIES
  VerdictIsCorrect
  Terminates
