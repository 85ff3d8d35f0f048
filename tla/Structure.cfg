SPECIFICATION Spec
CONSTANTS
  Count = 3
  Protected <- MCProtected
  Named <- MCNamed
  MaxEdits = 3
  MaxDeletes = 2
  MaxCommits = 3
  MaxReverts = 1
INVARIANTS ViewsAgree RightGap
PROPERTIES CommitConverges
CHECK_DEADLOCK FALSE
