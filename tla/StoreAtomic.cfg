CONSTANTS
  w1 = w1
  w2 = w2
CONSTANTS
  Writers = {w1, w2}
  Readers = {r1}
  Ops = {o1, o2}
  Inputs = {i1}
  SaveOps = {o1}
  MaxCalls = 3
  MaxCrashes = 2
  MaxFaults = 1
  None = None
  FaultPoints <- AnyPointOfMutateOrRecovery
SPECIFICATION Spec
INVARIANTS RootMirrorsDocument PinnedInDocument PointerResolves AnswersStayTrue LedgerCoversDocument
PROPERTIES RecordedStays ImplementsAtomicDocument
SYMMETRY Symmetry
CHECK_DEADLOCK FALSE
