SPECIFICATION FairSpec
CONSTANTS
  x = x
  y = y
  p1 = p1
  p2 = p2
  Proc = {p1, p2}
  Comp = {x, y}
  MaxDepth = 3
  Trees <- MCTrees
  Requests <- MCRequests
  MaxCalls = 3
  FilePlaces <- MCPlaces
  MaxEnv = 2
  MayCrash = TRUE
INVARIANTS TypeOK FailureHasCause
PROPERTIES KeepsPromise PathAppears
CHECK_DEADLOCK FALSE
