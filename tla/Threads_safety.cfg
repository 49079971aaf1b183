CONSTANTS
  NULL = NULL
  NONE = NONE
  NOBODY = NOBODY
  Pair = {x1, x2}
  Triple = {y1, y2, y3}
  Parts = {"life", "work", "rwlock", "tsd", "once"}
  \* PthreadLife
  Thread = {m, x1, x2}
  Main = m
  m = m
  Sem = {y1, y2, y3}
  Kinds = {"kernel", "user", "old"}
  Careful = TRUE
  \* WorkQueue
  Adder = {x1, x2}
  Worker = {w1}
  Job = {y1, y2, y3}
  PoolSize = 1
  low = q2
  q2 = q2
  Queue = {q1, q2}
  Prio <- TwoPriorities
  Prios = 2
  ElemMax = 1
  \* PthreadRwlock
  RwThread = {y1, y2, y3}
  MAX_READ_LOCKS = 3
  Racing = FALSE
  Recursive = TRUE
  Mishaps = TRUE
  \* PthreadTsd
  TsdThread = {x1, x2}
  tsd_first = 1
  tsd_start = 2
  tsd_end = 4
  Iterations = 2
  MaxGen = 2
  OnceThread = {y1, y2, y3}
SPECIFICATION Spec
SYMMETRY Alike
CHECK_DEADLOCK FALSE
INVARIANTS NoWildAccess ThreadsEnd  WorkSound
  RwExclusion NoneSleepsForever TsdSound OnceExactly
