SPECIFICATION Spec
CONSTANTS
  p = p
  q = q
  tmp = tmp
  f = f
  g = g
  d = d
  e = e
  s = s
  me = me
  you = you
  ghost = ghost
  n1 = n1
  n2 = n2
  sh1 = sh1
  sh2 = sh2
  Path = {p, q, tmp}
  Obj = {f, g, d, e, s}
  NoObj = NoObj
  Id = {me, you, ghost}
  Self = me
  NoRecord = NoRecord
  Tmp = tmp
  Unset = Unset
  Empty = Empty
  Torn = Torn
  Gap = Gap
  InRoot = tmp
  NoPath = NoPath
  Typed = {d}
  MaxEnv = 3
  Kind <- MCKind
  Number <- MCNumber
  MayRun <- MCMayRun
  Record <- MCRecord
  Holder <- MCHolder
  Worlds <- MCWorlds
  Calls <- MCCalls
  Searches <- MCSearches
  Settings <- MCSettings
INVARIANTS TypeOK InquiriesHold SearchHolds AccountsHold
CHECK_DEADLOCK FALSE
