SPECIFICATION Spec
CONSTANTS
  t1 = t1
  t2 = t2
  Tasks = {t1, t2}
  Programs <- MCPrograms
  Inputs <- MCInputs
  RdPageSyscalls <- MCRdPageSyscalls
  DataBits = 2
  BaseCustomData = 1
  ActKill = 0
  ActTrap = 3
  ActErrno = 5
  ActTrace = 14
  ActAllow = 15
  MaxInstalls = 3
CHECK_DEADLOCK FALSE
INVARIANT StatusImpliesFilter
