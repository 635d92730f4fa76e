SPECIFICATION Spec
CONSTANTS
  k1 = k1  k2 = k2  e1 = e1  p1 = p1  p2 = p2  t1 = t1  m1 = m1
  Keys <- MCKeys
  FollowUps = {e1}
  AdoptionOf <- MCAdoptionOf
  MetricOf <- MCMetricOf
  SourceOf <- MCSourceOf
  ViewOf <- MCViewOf
  Findings <- MCFindings
  ReadSets <- MCReadSets
  Tasks = {t1}
  NoTask = NoTask
  Passes = {p1, p2}
  Watched = {k1}
  Window = 1
  MaxTime = 2
  MaxPasses = 2
  MaxDecisions = 3
  MaxMerges = 1
  MaxSeams = 1
SYMMETRY MCSwapPasses
INVARIANTS
  AdoptedIsAccepted
  SeenIsDecided
PROPERTIES
  DecisionsStand
  AdoptedOwnsItsMetric
  VerdictIsClean
CHECK_DEADLOCK FALSE
