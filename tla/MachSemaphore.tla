--------------------------- MODULE MachSemaphore ---------------------------
(***************************************************************************)
(* Mach semaphores, as the pthread code uses them, and the pool it takes   *)
(* them from (core/pthread.c).  The semaphores are external: the kernel    *)
(* keeps a count and, with SYNC_POLICY_FIFO, a queue of waiting threads.   *)
(* The operators below map the state of all semaphores to their state      *)
(* after a call.                                                           *)
(***************************************************************************)
EXTENDS Integers, Sequences, FiniteSets

CONSTANTS Thread,
          Sem,           \* the semaphores there can be
          NULL           \* SEMAPHORE_NULL and the null pointer

ASSUME SemAssumption == NULL \notin Sem /\ NULL \notin Thread

VARIABLES sema,          \* the kernel's semaphores
          sem_pool       \* the semaphores that are not in use, a stack

semVars == <<sema, sem_pool>>

Created == [count |-> 0, queue |-> <<>>]

\* semaphore_signal: wakes up the first waiting thread, or is counted.
Signalled(S, s) ==
  IF S[s].queue # <<>> THEN [S EXCEPT ![s].queue = Tail(@)]
  ELSE [S EXCEPT ![s].count = @ + 1]

\* semaphore_wait by t: takes a count, or queues up.
Waited(S, s, t) ==
  IF S[s].count > 0 THEN [S EXCEPT ![s].count = @ - 1]
  ELSE [S EXCEPT ![s].queue = Append(@, t)]

\* semaphore_wait_signal(w, s) by t: both at once.
WaitSignalled(S, w, s, t) == Waited(Signalled(S, s), w, t)

\* semaphore_signal_thread(s, THREAD_NULL) and semaphore_signal_all(s) wake
\* up waiting threads and are not counted.
SignalledOne(S, s) ==
  [S EXCEPT ![s].queue = IF @ = <<>> THEN @ ELSE Tail(@)]
SignalledAll(S, s) == [S EXCEPT ![s].queue = <<>>]

\* t leaves the queue of s, if it is there, without being signalled.
Without(q, t) ==
  IF \E i \in 1..Len(q) : q[i] = t
  THEN LET i == CHOOSE i \in 1..Len(q) : q[i] = t
       IN  SubSeq(q, 1, i - 1) \o SubSeq(q, i + 1, Len(q))
  ELSE q

Left(S, s, t) == [S EXCEPT ![s].queue = Without(@, t)]

InQueue(t, s) == \E i \in 1..Len(sema[s].queue) : sema[s].queue[i] = t

\* t is asleep in a semaphore_wait.
Blocked(t) == \E s \in Sem : InQueue(t, s)

\* new_sem_from_pool for n semaphores, and restore_sem_to_pool.
InPool(n) == Len(sem_pool) >= n
new_sem_from_pool(n) == sem_pool[n]
Taken(n) == SubSeq(sem_pool, n + 1, Len(sem_pool))
Restored(s) == <<s>> \o sem_pool

\* A semaphore of the pool is as it was created: nobody waits on it and no
\* signal is left in it.
PoolClean == \A i \in 1..Len(sem_pool) : sema[sem_pool[i]] = Created
===========================================================================
