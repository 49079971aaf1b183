CONSTANTS
  Thread = {t1, t2, t3}
  TryThreads = {t3}
  t1 = t1
  t2 = t2
  t3 = t3
SPECIFICATION Spec
INVARIANTS TypeOK HeldOnce
