SPECIFICATION Spec
CONSTANTS
  s1 = s1
  s2 = s2
  o1 = o1
  o2 = o2
  None = None
  Sessions = {s1, s2}
  Ops = {o1, o2}
  Start <- MCStart
  Protected = {2}
  Queries <- MCQueries
  NewTexts <- MCNewTexts
  NewText <- MCNewText
  Styles = {"bold", "mono"}
  Registered = {"plain", "bold", "mono"}
  Limit = 2
  MaxCalls = 3
SYMMETRY Symmetry
INVARIANTS AnswersAreTrue
PROPERTIES BatchIsAtOnce NoneIsLeft
CHECK_DEADLOCK FALSE
