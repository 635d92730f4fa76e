SPECIFICATION Spec
CONSTANTS
  t1 = t1  t2 = t2
  Tasks = {t1, t2}
  Base = Base
  NoTask = NoTask
  Modes = {"branch", "inline"}
  Faults = {"kill", "git", "tag", "receipt", "row"}
  MaxRuns = 2
  MaxAdmits = 3
  MaxPxx = 1
  MaxHuman = 1
SYMMETRY MCSwapTasks
INVARIANTS
  PxxWorkIsHeld
  CandidateIsThisRun
  ExecutedIsPinned
  BaseHoldsOnlyMerges
PROPERTY ExitTellsThePosture
CHECK_DEADLOCK FALSE
