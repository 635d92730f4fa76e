SPECIFICATION FairSpec
CONSTANTS
  p1 = p1  p2 = p2
  Procs = {p1, p2}
  Records <- MCRecords
  KindOf <- MCKindOf
  Shapes <- MCShapes
  Regimes <- MCOneKindOfFault
  Nobody = Nobody
  None = None
  MaxTx = 2
  MaxFaults = 2
INVARIANTS
  RecoveryIsSafe
  TheCallerIsToldTheTruth
PROPERTIES
  RefinesStore
  JournalIsCompleted
CHECK_DEADLOCK FALSE
