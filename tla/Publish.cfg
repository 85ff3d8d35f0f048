SPECIFICATION Spec
CONSTANTS
  p1 = p1
  p2 = p2
  src = src
  new = new
  o1 = o1
  o2 = o2
  word = word
  base = base
  None = None
  Processes = {p1, p2}
  Outputs = {src, new}
  Ops = {o1, o2}
  Kinds = {"build"}
  Foreign = {word}
  Source = src
  Baseline = base
  GuardDenies = TRUE
  FaultPoints = {"run", "prepare", "replace", "record-write", "commit", "fix-ledger", "fix-record"}
  CrashPoints = {"run", "staged", "prepare", "gate", "link", "hold", "replace", "record", "record-write", "published", "commit", "ledger", "complete", "remove", "abort", "recover", "fix-ledger", "fix-evidence", "fix-complete", "fix-record", "fix-remove"}
  MaxCalls = 3
  MaxCrashes = 2
  MaxWrites = 2
  MaxFaults = 1
SYMMETRY Symmetry
INVARIANTS PublicationRecorded RefusedIsNotPublished PreparedDecidable
CHECK_DEADLOCK FALSE
