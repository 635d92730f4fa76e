\* Two commands at a time, two seconds, a movement or a pruning, and a fault.
CONSTANTS
  r1 = r1
  r2 = r2
  g1 = g1
  m1 = m1
  h1 = h1
  h2 = h2
  none = none
  torn = torn
  f1 = f1
  f2 = f2
  p1 = p1
  p2 = p2
  Commands <- MCCommands
  FamilyOf <- MCFamilyOf
  TaskOf <- MCTaskOf
  Prior <- MCPrior
  Regimes <- MCRegimes
  Frames <- MCFrames
  Payloads <- MCPayloads
  None = none
  Torn = torn
  Faults = {"crash", "disk", "ledger"}
  MaxClock = 1
  MaxPeople = 1
  MaxFaults = 1
SPECIFICATION Spec
INVARIANTS
  ReceiptsVerify
  EvidenceIsKept
  AttestedScreenshot
  ExecutedAsApproved
  RowsTellTheTruth
\* Every command ends.
CHECK_DEADLOCK FALSE
