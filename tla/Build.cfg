SPECIFICATION Spec
CONSTANTS
  Templates <- MCTemplates
  NewTexts <- MCNewTexts
  Makers = {ann, bob}
  Styles = {"bold", "mono"}
  Wide = {3}
  Escaped = {}
  Readable = {FALSE}
  MaxEdits = 2
  MaxRounds = 1
  MaxTampers = 1
INVARIANTS GenuinePasses ViewsOfTheBuild FormatReachesItsCharacters PassedRevisionsAreRecorded PassedOutsideTheEdits
SYMMETRY MCSymmetry
CHECK_DEADLOCK FALSE
