SPECIFICATION Spec
CONSTANTS
  Templates <- MCTemplates
  NewTexts <- MCNewTexts
  Surfaces = {"edit", "patch", "replace", "run", "all", "leaf", "hand"}
  Modes = {FALSE, TRUE}
  MaxEdits = 3
  MaxCommits = 1
INVARIANTS SettledBuildsTheDraft VerifierAgrees NoClash
CHECK_DEADLOCK FALSE
