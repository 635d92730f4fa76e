SPECIFICATION Spec
CONSTANTS
  rec = rec  other = other  adoption = adoption
  Nobody = Nobody
  Records = {rec, other, adoption}
  Sessions = {s1, s2}
  Guarded = {s1}
  Shapes <- MCShapes
  MaxTx = 3
  MaxFaults = 1
INVARIANTS
  TheCallerIsToldTheTruth
PROPERTY
  RefinesStore
