CONSTANTS
  Names = {"os", "system", "run"}
  NoAlias = NoAlias
  NotIdentifier = NotIdentifier
  Needles = {"shell", "safe"}
  Files <- MCFiles
  Catalogs <- MCCatalogs
SPECIFICATION Spec
INVARIANTS AliasesAreLastBindings FindingsAreExact NoDoubleReport
CHECK_DEADLOCK FALSE
