SPECIFICATION FairSpec
CONSTANTS
  a = a
  b = b
  l = l
  p1 = p1
  p2 = p2
  x = x
  y = y
  NoName = NoName
  Hole = Hole
  Name = {a, b, l}
  Block = {x, y, Hole}
  MaxIno = 5
  Proc = {p1, p2}
  MaxCalls = 2
  EnvData <- MCEnvData
  MaxEnv = 1
  MayFail = FALSE
  MayCrash = FALSE
  Dirs <- CopyDirs
  Calls <- LongCalls
PROPERTIES CallsReturn
CHECK_DEADLOCK FALSE
