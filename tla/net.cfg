SPECIFICATION NetFairSpec
CONSTANTS
  N = 4
  Flipped = {1}
  NULL = NULL
  MaxChanges = 2
  ANNOUNCE_INT = 1
PROPERTIES Protected NeverForgotten 
