SPECIFICATION Spec
CONSTANTS
  Names <- MCNames
  Sizes <- MCSizes
  NoSize = NoSize
  NoRange = NoRange
  Modules <- MCModules
  ErrorDefn = "B"
INVARIANT
  DeclaredOnce
