SPECIFICATION Spec
CONSTANTS
  p1 = p1
  p2 = p2
  replacement = replacement
  insertion = insertion
  d1 = d1
  r1 = r1
  r2 = r2
  Paragraph = {p1, p2}
  Patch = {replacement, insertion}
  Insertion = {insertion}
  Where <- MCWhere
  Decision = {d1}
  Revision = {r1, r2}
  RevisionOf <- MCRevisionOf
  None = None
  MaxCalls = 7
  MaxHandEdits = 1
CHECK_DEADLOCK FALSE
INVARIANTS StagedChainIsRooted OnceInASession
PROPERTIES DriftsOnlyByHand
