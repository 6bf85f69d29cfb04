SPECIFICATION Spec
CONSTANTS
  Word = {"homedir", "absolute", "same", "chdir", "set_cwd", "ls", "set_perm", "q", "quit", "exit", "+x", "-r", "/d", "/e"}
  NoArgs = {"homedir"}
  OneArgs = {"absolute"}
  TwoArgs = {"same", "absolute"}
  Inputs <- MCInputs
  Places = {"/d", "/e"}
  Gives <- MCGives
  Takes <- MCTakes
  Put <- MCPut
  Start = "/d"
  MaxEnv = 2
INVARIANTS SessionHolds
PROPERTIES SessionEnds
CHECK_DEADLOCK FALSE
