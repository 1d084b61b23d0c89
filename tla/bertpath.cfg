SPECIFICATION PathSpec
CONSTANTS
  p0 = p0
  p1 = p1
  Port = {p0, p1}
  RESETS = 1
  MaxSeq = 4
  MaxTests = 2
  MaxWire = 2
  MaxFaults = 1
SYMMETRY PathSymmetry
INVARIANTS  AnswersAreAsked
CHECK_DEADLOCK FALSE
