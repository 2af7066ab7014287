CONSTANTS
  LongMax = 99
  LongestLexeme = 12
  NUL = "~"
  NoBuffer = NoBuffer
  Running = Running
  Walking = Walking
  Unreadable = Unreadable
  Sessions <- MCSessions
  Visitors <- MCVisitors
  Sentences <- MCSentences
SPECIFICATION Spec
INVARIANTS
  TokensAreTheLongestMatches
  LiteralsHaveTheirValue
  TokensAreLocated
  StackSpellsTheText
  ModuleIsTheText
  ErrorsAreReal
  ErrorsAreReportedOnce
  WalkFollowsTheText
PROPERTIES
  ParsesReturn
