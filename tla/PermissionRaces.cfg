SPECIFICATION Spec
CONSTANTS
  a = a
  b = b
  f1 = f1
  f2 = f2
  p1 = p1
  p2 = p2
  NoFile = NoFile
  Name = {a, b}
  File = {f1, f2}
  Proc = {p1, p2}
  MaxCalls = 3
  MaxEnv = 1
  MayFail = TRUE
  EnvBits <- MCEnvBits
  Kind <- MCKind
  Class <- MCClass
  Starts <- MCStarts
  Calls <- MCCalls
INVARIANTS TypeOK AsAsked SeenAsSet AgreedStays
PROPERTIES OnlyUserBits
SYMMETRY Symmetry
CHECK_DEADLOCK FALSE
