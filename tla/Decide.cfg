SPECIFICATION PackageSpec
CONSTANTS
  Start <- MCStart
  Remarks = {1}
  MaxAsked = 3
  MaxWidth = 2
  MaxDecisions = 2
INVARIANTS InventoryHonest
PROPERTIES ViewsKept OthersKept IdsStayUnique TablesStayWhole AllIsDecided
CHECK_DEADLOCK FALSE
