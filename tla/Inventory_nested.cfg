CONSTANTS
  CargoLocks = {1, 3, 6}
  NpmLocks = {2}
  Unsupported = {4}
  Others = {5}
  Hidden = {6}
  Tree = Tree
  Targets = {Tree, 1, 2, 4, 5}
  Values = {1, 2, 3, 4, 5, 6}
  WithHash = {6}
  Unquotable = {}
  NoValue = NoValue
  Trees <- MCTrees
  Snapshots <- MCSnapshots
  NoSnapshot = NoSnapshot
SPECIFICATION Spec
INVARIANTS NestedAreDuplicates
CHECK_DEADLOCK FALSE
