SPECIFICATION Spec
CONSTANTS
  PageSize = 2
  AddrLimit = 8
  MaxSize = 16
  NotFound = NotFound
  Searching = Searching
  Panic = Panic
  Layouts <- MCLayouts
  Contents <- MCContents
  MemContents <- MCMemContents
  Patterns <- MCPatterns
  Wheres <- MCWheres
  MemLens <- MCMemLens
  WordSize <- MCWordSize
  OrigReg <- MCOrigReg
  TopYmmReg <- MCTopYmmReg
  GprSize <- MCGprSize
  XsaveSize <- MCXsaveSize
CHECK_DEADLOCK FALSE
INVARIANT TypeOK
INVARIANT FindsFirstMatch
INVARIANT StubReturnAddressHidden
PROPERTY SearchTerminates
