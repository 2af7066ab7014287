SPECIFICATION Spec
CONSTANTS
  Names <- MCNames
  Sizes <- MCSizes
  NoSize = NoSize
  NoRange = NoRange
  NoTarget = NoTarget
  Modules <- NameModules
INVARIANT
  ClassNameIsOptional
