CONSTANTS
  Thread = {t1, t2, t3, t4}
  CondThread = {t1, t2, t3, t4}
  Sem = {s1, s2, s3}
  t1 = t1
  t2 = t2
  t3 = t3
  t4 = t4
  s1 = s1
  s2 = s2
  s3 = s3
  NULL = NULL
  SELF = SELF
  SWITCHING = SWITCHING
  MaxCount = 2
  Types = {"NORMAL", "ERRORCHECK", "RECURSIVE"}
  Aborts = TRUE
SPECIFICATION SyncSpec
SYMMETRY Alike
INVARIANTS Exclusion SignalsTheSleepers PoolSound NotDestroyedAsleep
PROPERTY ImplementsMonitor
