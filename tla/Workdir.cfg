SPECIFICATION Spec
CONSTANTS
  p1 = p1
  p2 = p2
  Process = {p1, p2}
  s1 = s1
  s2 = s2
  Source = {s1, s2}
  First = s1
  MaxCalls = 4
  MaxCrashes = 1
  MaxFaults = 1
SYMMETRY Symmetry
CHECK_DEADLOCK FALSE
INVARIANTS DocumentSurvives
