SPECIFICATION Spec
CONSTANTS
  x = x
  Blank = Blank
  Nul = Nul
  Unset = Unset
  Char = {x, Blank}
  MaxLen = 4
  MaxPath = 3
  CSize = 2
  Lib <- MCLib
  Lib2 <- MCLib2
  System <- MCSystem
  Arg <- MCArg
INVARIANTS TypeOK OnlyOwnMemory FortranAgrees CAgrees
PROPERTIES WholeOrNothing
CHECK_DEADLOCK FALSE
