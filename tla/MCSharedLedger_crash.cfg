SPECIFICATION Spec
CONSTANTS
  w1 = w1  w2 = w2  c1 = c1  c2 = c2  t1 = t1  t2 = t2
  Writers <- MCWriters
  Clones <- MCClones
  Tasks <- MCTasks
  Genesis = Genesis
  Free = Free
  CloneOf <- MCOwnClones
  MayMerge <- MCOwnTasks
  Faults = {"crash"}
  MaxOps = 2
INVARIANT LockExclusion
CHECK_DEADLOCK FALSE
