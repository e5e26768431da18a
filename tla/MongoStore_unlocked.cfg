SPECIFICATION Spec
CONSTANTS
  t1 = t1
  t2 = t2
  p1 = p1
  p2 = p2
  Threads = {t1, t2}
  ProjectIds = {p1, p2}
  Values = {1}
  Absent = Absent
  SyncOrder <- DocumentOrder
  Kinds = {"create", "ingest", "patch"}
  Faults = {"seed"}
  Existing <- OneProject
SYMMETRY ThreadSymmetry
INVARIANT AckedVisible
