SPECIFICATION Spec
CONSTANTS
  p1 = p1
  p2 = p2
  Process = {p1, p2}
  None = None
  q1 = q1
  q2 = q2
  Paragraph = {q1, q2}
  a = a
  b = b
  Text = {a, b}
  Coupled = {q2}
  Blank = a
  Kinds = {"edit", "gc", "restore", "verify"}
  KeepLast = {0, 1}
  MaxCalls = 3
  MaxGenerations = 4
  MaxCrashes = 1
  MaxFaults = 1
SYMMETRY Symmetry
CHECK_DEADLOCK FALSE
INVARIANTS RetainedReadable
PROPERTIES SavedIsVersioned
