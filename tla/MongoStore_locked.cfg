SPECIFICATION FairSpec
CONSTANTS
  t1 = t1
  t2 = t2
  p1 = p1
  p2 = p2
  Threads = {t1, t2}
  ProjectIds = {p1}
  Values = {1, 2}
  Absent = Absent
  SyncOrder <- GraphOrder
  Kinds = {"upsert", "remove", "delete", "read"}
  Faults = {"crash", "mongo", "blind"}
  Existing <- OneProject
INVARIANT TypeOK
INVARIANT AckedDurable
PROPERTY DeleteSweepsArtifacts
PROPERTY LockReleased
PROPERTY WritesThrough
