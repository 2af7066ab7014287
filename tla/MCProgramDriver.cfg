SPECIFICATION FairRunSpec
CONSTANTS
  Names <- MCNames
  Sizes <- MCSizes
  NoSize = NoSize
  NoRange = NoRange
  NoTarget = NoTarget
  Modules <- MCModules
  ErrorDefn = "B"
INVARIANTS
  RefusedInputTouchesNothing
  SuccessIsEarned
  FailureIsExplained
  HandlerIsScoped
PROPERTIES
  RunReturns
