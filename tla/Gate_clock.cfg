CONSTANTS
  SecurityIssues = {"e1", "e2"}
  SecretIssues = {"k1"}
  RuleOf <- Rules
  PathOf <- Places
  SuppressFiles <- Files
  NotGiven = NotGiven
  Malformed = Malformed
  Expiries <- MCExpiries
  FirstDay = 19781
  LastDay = 19783
  MaxChanges = 1
SPECIFICATION Spec
PROPERTIES ClockFailureIsSafe
CHECK_DEADLOCK FALSE
