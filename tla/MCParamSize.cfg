SPECIFICATION Spec
CONSTANTS
  p1 = p1
  NoPtr = NoPtr
  Ptrs = {p1}
  NullPtr <- NoPtr
  ReadSizeOf <- MCReadSizeOf
  IntMax <- MCIntMax
  WordMod <- MCWordMod
  Lists <- MCLists
  CellValues <- MCCellValues
  Results <- MCResults
CHECK_DEADLOCK FALSE
INVARIANT TypeOK
INVARIANT NoConsumedAssert
INVARIANT RecordsWholeSource
