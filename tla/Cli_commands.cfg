CONSTANTS
  MaxInteger = 999
  Folded <- MCFolded
  HtmlTypes = {"text/html"}
  Unreadable = Unreadable
  Starts <- MCStarts
  Trees <- MCTrees
  Edits <- MCEdits
  Days = {19782}
  Conforms <- CheckValue
  MaxChanges = 1
SPECIFICATION Spec
INVARIANTS RefusedLeavesNothing GateAgreesWithDiff OnlySourceReportsCompared
  ValidateKnowsItsOwn SarifKeepsFindings EveryCookieGraded
PROPERTIES CommandsEnd
CHECK_DEADLOCK FALSE
