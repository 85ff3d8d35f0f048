SPECIFICATION Spec
CONSTANTS
  p1 = p1
  p2 = p2
  out = out
  o1 = o1
  word = word
  base = base
  None = None
  Processes = {p1, p2}
  Outputs = {out}
  Ops = {o1}
  Kinds = {"build", "save"}
  Foreign = {word}
  Source = None
  Baseline = base
  GuardDenies = TRUE
  FaultPoints = {"run", "side-verify", "save-replace", "new-build", "new-ledger"}
  CrashPoints = {"prepare", "link", "record-write", "published", "side-build", "side-verify", "side-ledger", "save-replace", "new-build", "new-verify", "new-ledger", "compare", "save-record", "fix-evidence"}
  MaxCalls = 3
  MaxCrashes = 2
  MaxWrites = 2
  MaxFaults = 1
SYMMETRY Symmetry
INVARIANTS EvidenceOfTheDocument
PROPERTIES ForeignBytesStay
CHECK_DEADLOCK FALSE
