SPECIFICATION FairSpec
CONSTANTS
  Names <- MCNames
  Sizes <- MCSizes
  NoSize = NoSize
  NoRange = NoRange
  Modules <- MCModules
  ErrorDefn = "B"
INVARIANTS
  IInv
  NothingLeftOpen
  TempsAreFresh
  OutputIsTheCode
PROPERTIES
  SynthesisEnds
