CONSTANTS
  Tasks = {t1, t2}
  Good = Good
  Null = Null
  Options <- MCOptions
  Args2 <- MCArgs2
  Ptrs = {Good, Null}
  Programs <- MCPrograms
  Inputs <- MCInputs
  RdPageSyscalls <- MCRdPageSyscalls
  DataBits <- MCDataBits
  BaseCustomData = 1
  ActKill = 0
  ActTrap = 3
  ActErrno = 5
  ActTrace = 14
  ActAllow = 15
  MaxInstalls = 2
SPECIFICATION Spec
SYMMETRY MCSymmetry
INVARIANT TraceeSeesLinux
