SPECIFICATION FairSpec
CONSTANTS
  k1 = k1
  c1 = c1
  c2 = c2
  Keys = {k1}
  Commands = {c1, c2}
  NoCommand = NoCommand
  Theirs = Theirs
  Torn = Torn
  NoEntry = NoEntry
  MaxVersion = 2
  MaxCycles = 1
  MaxTriage = 1
  Sql = TRUE
  MaxFailures = 1
  MaxPasses = 2
INVARIANTS
  PendingIsTracked
PROPERTIES
  OnlyProposedIsSent
  RemovesOnlyItsOwn
  RejectedIsWithdrawn
  RecordedDivergenceSurfaces
CHECK_DEADLOCK FALSE
