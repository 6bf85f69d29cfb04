SPECIFICATION Spec
CONSTANTS
  Letter <- MCLetter
  Drawn <- MCDrawn
  HomeVar <- MCHome
  Cwd <- MCCwd
  MaxLen = 7
  MaxOther = 4
INVARIANTS TypeOK NormalHolds ParentAndName PlacesHold JoinIsWalk SubdirsFound SuffixSwapsBack
CHECK_DEADLOCK FALSE
