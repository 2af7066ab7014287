CONSTANTS
  v1 = v1
  v2 = v2
  v3 = v3
  Variants = {v1, v2, v3}
  Types <- MCTypes
  Values <- MCValues
  Convertible <- MCConvertible
  Converted <- MCConverted
  Nothing = Nothing
  Temp = Temp
  TmpData = TmpData
  Raw = Raw
  Corrupt = Corrupt
  MovedFrom = MovedFrom
  Garbage = Garbage
  Threw = Threw
  WordSize = 16
SPECIFICATION Spec
INVARIANTS
  StorageIsSound
  VisitsGetTheOperands
  OrderIsTotal
PROPERTIES
  ValueSemantics
