SPECIFICATION Spec
CONSTANTS
  t1 = t1  t2 = t2
  Tasks = {t1}
  Base = Base
  NoTask = NoTask
  Modes = {"branch"}
  Faults = {"read"}
  MaxRuns = 1
  MaxAdmits = 1
  MaxPxx = 1
  MaxHuman = 0
INVARIANT PxxWorkIsHeld
CHECK_DEADLOCK FALSE
