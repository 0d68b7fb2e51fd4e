CONSTANTS
  Sources = {1, 3, 5}
  Configs = {2, 4, 8}
  Others = {6}
  Links = {7}
  Hidden = {8}
  Unscoped = {4}
  UnscopedName = {3}
  Tree = Tree
  Scans <- MCScans
  Seeds <- AllStreams
SPECIFICATION Spec
INVARIANTS CompleteReportIsTheTree SeedDecidesOrder
           TimedOutIffWorkLeft OverrunAtMostOneFile SingleTargetNeverSkipped
PROPERTIES ScanEnds
CHECK_DEADLOCK FALSE
