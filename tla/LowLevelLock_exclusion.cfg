CONSTANTS
  Thread = {t1, t2}
  TryThreads = {}
  t1 = t1
  t2 = t2
SPECIFICATION Spec
INVARIANTS MutualExclusion
