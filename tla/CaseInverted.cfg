SPECIFICATION Spec
CONSTANTS
  root = root
  a = a
  b = b
  l = l
  m = m
  o = o
  f = f
  t = t
  Dir = {root, a, b}
  File = {f, t}
  Link = {l, m, o}
  Root = root
  Up <- MCUp
  NameOf <- MCNameOf
  Target <- MCTarget
  Name <- MCName
  Lower <- MCLower
  Home <- MCHome
  MaxLinks = 2
  None = None
  Loop = Loop
  Nothing = Nothing
  Camel = "X"
  Temp = t
  Writable = {a}
  Trees <- MCTrees
  Calls <- MCCalls
  Stays = {root, a}
  Changes <- MCChanges
  MaxEnv = 3
INVARIANTS CaseDetected
CHECK_DEADLOCK FALSE
