CONSTANTS
  Writers = {w1, w2}
  Readers = {r1}
  TempNames = {t1, t2}
  Dest = Dest
  Old = Old
  None = None
  Torn = Torn
  Chunks = 2
  MaxOutages = 1
SPECIFICATION Spec
INVARIANTS TypeOK DestWhole ReaderNeverTorn TempExclusive LeftoverExplained
PROPERTIES ImplementsAtomicReport CallReturns
CHECK_DEADLOCK FALSE
