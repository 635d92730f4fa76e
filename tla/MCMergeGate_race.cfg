SPECIFICATION Spec
CONSTANTS
  g1 = g1  g2 = g2  r1 = r1  r2 = r2
  c1 = c1  c2 = c2  c3 = c3  c4 = c4
  t1 = t1  s1 = s1  s2 = s2  s3 = s3
  Gates = {g1, g2}
  Runners = {r1}
  Clones = {c1, c2, c3}
  CloneOf <- MCOwnClones
  Tasks = {t1}
  Shas = {s2}
  Touches <- MCClasses
  DeclaredTier = "single-reviewer"
  Modes = {"merge"}
  HumanActions = {"ADMITTED", "REDLINE"}
  Admitted <- MCAdmitted
  Faults = {"late"}
  MaxJobs = 3
  MaxHuman = 1
  NoSha = NoSha
  Free = Free
SYMMETRY MCSwapGates
INVARIANTS
  SignedAsApproved
  MergedFollowsSigned
  MergeHasSignature
  ExecutedOncePerAdmission
CHECK_DEADLOCK FALSE
