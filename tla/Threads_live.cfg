CONSTANTS
  NULL = NULL
  NONE = NONE
  NOBODY = NOBODY
  Pair = {}
  Triple = {}
  Parts = {"work", "rwlock", "once"}
  Thread = {m}
  Main = m
  m = m
  Sem = {y1}
  Kinds = {}
  Careful = TRUE
  Adder = {a1}
  Worker = {w1}
  Job = {j1, j2}
  PoolSize = 1
  low = q2
  q2 = q2
  Queue = {q1, q2}
  Prio <- TwoPriorities
  Prios = 2
  ElemMax = 1
  RwThread = {r1, r2, r3}
  MAX_READ_LOCKS = 3
  Racing = FALSE
  Recursive = FALSE
  Mishaps = FALSE
  TsdThread = {}
  tsd_first = 1
  tsd_start = 2
  tsd_end = 3
  Iterations = 1
  MaxGen = 1
  OnceThread = {o1, o2, o3}
SPECIFICATION FairSpec
CHECK_DEADLOCK FALSE
PROPERTIES EveryJobRuns WriterComes OnceReturns
