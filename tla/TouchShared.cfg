SPECIFICATION Spec
CONSTANTS
  a = a
  b = b
  l = l
  p1 = p1
  p2 = p2
  x = x
  y = y
  NoName = NoName
  Hole = Hole
  Name = {a, b, l}
  Block = {x, y, Hole}
  MaxIno = 5
  Proc = {p1}
  MaxCalls = 1
  EnvData <- MCEnvData
  MaxEnv = 0
  MayFail = FALSE
  MayCrash = FALSE
  Dirs <- SharedDirs
  Calls <- TouchCalls
PROPERTIES TouchKeepsData
CHECK_DEADLOCK FALSE
