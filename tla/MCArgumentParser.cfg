CONSTANTS
  a = a
  b = b
  x = x
  y = y
  text = text
  zero = zero
  one = one
  Keys <- MCKeys
  Letters <- MCLetters
  Texts <- MCTexts
  Numbers <- MCNumbers
  True = True
  False = False
  NoKey = NoKey
  NoOption = NoOption
  NoValue = NoValue
  NoToken = NoToken
  Unassigned = Unassigned
  Extracted <- MCExtracted
  Registrations <- MCRegistrations
  Minimums <- MCMinimums
  CommandLines <- MCCommandLines
  MaxRegistrations = 3
SPECIFICATION FairSpec
INVARIANTS
  IInv
  LettersAreUnique
PROPERTIES
  ParsesTheLine
  ParseReturns
