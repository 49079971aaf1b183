CONSTANTS
  Thread = {t1, t2, t3}
  CondThread = {t1, t2, t3}
  Sem = {s1, s2, s3}
  t1 = t1
  t2 = t2
  t3 = t3
  s1 = s1
  s2 = s2
  s3 = s3
  NULL = NULL
  SELF = SELF
  SWITCHING = SWITCHING
  MaxCount = 1
  Types = {"NORMAL", "ERRORCHECK"}
  Aborts = FALSE
SPECIFICATION FairSyncSpec

PROPERTY LockGranted
