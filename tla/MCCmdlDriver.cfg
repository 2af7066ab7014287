CONSTANTS
  in1 = in1
  in2 = in2
  empty = empty
  zero = zero
  Keys <- MCKeys
  Letters <- MCLetters
  Texts <- MCTexts
  Numbers <- MCNumbers
  True = True
  False = False
  EmptyPath <- MCEmptyPath
  NoKey = NoKey
  NoOption = NoOption
  NoValue = NoValue
  NoToken = NoToken
  Unassigned = Unassigned
  Extracted <- MCExtracted
  Registrations = {}
  Minimums = {}
  CommandLines <- MCCommandLines
  MaxRegistrations = 0
SPECIFICATION DriverSpec
INVARIANTS
  UsageIsAccepted
  OptionsFollowTheLine
