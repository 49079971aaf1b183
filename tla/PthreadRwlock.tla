--------------------------- MODULE PthreadRwlock ---------------------------
(***************************************************************************)
(* Read-write locks (core/pthread_rwlock.c, the functions at its end: the  *)
(* others are compiled for Intel only).  A monitor of a mutex and two      *)
(* condition variables: rwlock->lock, read_signal and write_signal.  From  *)
(* pthread_mutex_lock to pthread_mutex_unlock or pthread_cond_wait a call  *)
(* is one step, since the mutex excludes the others (PthreadCond.tla).  A  *)
(* wait may end without a signal, fail, or be cancelled; the handler of    *)
(* pthread_cond_wait then locks the mutex again and the thread exits.      *)
(***************************************************************************)
EXTENDS Integers, FiniteSets

CONSTANTS RwThread, NOBODY,
          MAX_READ_LOCKS,
          Racing,          \* whether threads race for the static initialization
          Recursive,       \* whether a thread asks for a second read lock
          Mishaps          \* whether waits fail or are cancelled

ASSUME RwAssumption ==
  NOBODY \notin RwThread /\ MAX_READ_LOCKS \in Nat \ {0}
  /\ Racing \in BOOLEAN /\ Recursive \in BOOLEAN /\ Mishaps \in BOOLEAN

VARIABLES rwlock,          \* the pthread_rwlock_t
          monitor,         \* who died with rwlock->lock locked, or NOBODY
          rwpc,            \* where each thread is
          reads,           \* history: the read locks each thread has
          writer,          \* history: the threads that have the write lock
          mishap           \* history: a wait has failed or been cancelled

rwVars == <<rwlock, monitor, rwpc, reads, writer, mishap>>

\* What pthread_rwlock_init leaves.
RwInitialized == [sig |-> "ready", state |-> 0, owner |-> NOBODY, blocked_writers |-> 0]

RwInit ==
  /\ rwlock = [RwInitialized EXCEPT !.sig = "init"]
  /\ monitor = NOBODY
  /\ rwpc = [t \in RwThread |-> "idle"]
  /\ reads = [t \in RwThread |-> 0] /\ writer = {} /\ mishap = FALSE

\* A call by a thread that is not in another one.  The program initializes
\* a lock before other threads use it, unless they race.
RwCalled(t) ==
  /\ rwpc[t] = "idle" /\ monitor = NOBODY /\ rwlock.sig = "ready"
  /\ Racing \/ \A u \in RwThread : rwpc[u] # "i_set"
RwGoto(t, l) == rwpc' = [rwpc EXCEPT ![t] = l]

\* t may go on: it has been called, or has been woken up and has the mutex.
RwAt(t, l) == RwCalled(t) \/ (rwpc[t] = l /\ monitor = NOBODY)

\* The state once the lock is read, or written, and what the threads know.
ReadLocked(t) ==
  IF rwlock.state = MAX_READ_LOCKS THEN UNCHANGED <<rwlock, reads>>  \* EAGAIN
  ELSE /\ rwlock' = [rwlock EXCEPT !.state = @ + 1]
       /\ reads' = [reads EXCEPT ![t] = @ + 1]
WriteLocked(t, l) ==
  /\ rwlock' = [l EXCEPT !.state = -1, !.owner = t]
  /\ writer' = writer \cup {t}

\* Mutant: readers pass waiting writers.
ReaderBlocksOnWriter(l, t) == l.state < 0 /\ l.owner # t

\* Mutant: blocked writers stop a reader, but not a writer at work.
ReaderBlocksOnBlocked(l, t) == l.blocked_writers > 0

\* Writers have priority over readers.
ReaderBlocks(l, t) == l.blocked_writers > 0 \/ (l.state < 0 /\ l.owner # t)

\* pthread_rwlock_rdlock: the call, and its loop when a wait is over.
RdLock(t) ==
  /\ RwAt(t, "r_woken")
  /\ rwpc[t] = "idle" => reads[t] = 0 \/ Recursive
  /\ \/ /\ rwpc[t] = "idle" /\ rwlock.state < 0 /\ rwlock.owner = t
        /\ UNCHANGED <<rwlock, rwpc, reads>>                    \* EDEADLK
     \/ /\ ~(rwlock.state < 0 /\ rwlock.owner = t)
        /\ IF ReaderBlocks(rwlock, t)
           THEN RwGoto(t, "r_wait") /\ UNCHANGED <<rwlock, reads>>
           ELSE ReadLocked(t) /\ RwGoto(t, "idle")
  /\ UNCHANGED <<monitor, writer, mishap>>

TryRdLock(t) ==
  /\ RwCalled(t) /\ (reads[t] = 0 \/ Recursive)
  /\ IF rwlock.blocked_writers > 0 \/ rwlock.state < 0
     THEN UNCHANGED <<rwlock, reads>>                           \* EBUSY
     ELSE ReadLocked(t)
  /\ UNCHANGED <<monitor, rwpc, writer, mishap>>

TryWrLock(t) ==
  /\ RwCalled(t)
  /\ IF rwlock.state # 0 THEN UNCHANGED <<rwlock, writer>>      \* EBUSY
     ELSE WriteLocked(t, rwlock)
  /\ UNCHANGED <<monitor, rwpc, reads, mishap>>

\* pthread_rwlock_wrlock.  A writer counts itself while it waits.  (A thread
\* does not ask for the write lock while it reads: it would wait for itself.)
WrLock(t) ==
  /\ RwAt(t, "w_woken") /\ reads[t] = 0
  /\ LET l == IF rwpc[t] = "idle" THEN rwlock
              ELSE [rwlock EXCEPT !.blocked_writers = @ - 1]
     IN \/ /\ rwpc[t] = "idle" /\ l.state < 0 /\ l.owner = t
           /\ UNCHANGED <<rwlock, rwpc, writer>>                \* EDEADLK
        \/ /\ l.state # 0 /\ ~(l.state < 0 /\ l.owner = t)
           /\ rwlock' = [l EXCEPT !.blocked_writers = @ + 1]
           /\ RwGoto(t, "w_wait") /\ UNCHANGED writer
        \/ /\ l.state = 0
           /\ WriteLocked(t, l) /\ RwGoto(t, "idle")
  /\ UNCHANGED <<monitor, reads, mishap>>

\* pthread_cond_signal(write_signal) and pthread_cond_broadcast(read_signal).
WakeWriter ==
  IF \E u \in RwThread : rwpc[u] = "w_wait"
  THEN \E u \in RwThread : rwpc[u] = "w_wait" /\ RwGoto(u, "w_woken")
  ELSE UNCHANGED rwpc
WakeReaders ==
  rwpc' = [u \in RwThread |-> IF rwpc[u] = "r_wait" THEN "r_woken" ELSE rwpc[u]]

\* Mutant: the last reader wakes up nobody.
UnlockReadQuiet(t) ==
  /\ rwlock.state > 0 /\ reads[t] > 0
  /\ rwlock' = [rwlock EXCEPT !.state = @ - 1]
  /\ reads' = [reads EXCEPT ![t] = @ - 1]
  /\ UNCHANGED <<rwpc, writer>>

UnlockRead(t) ==
  /\ rwlock.state > 0 /\ reads[t] > 0
  /\ rwlock' = [rwlock EXCEPT !.state = @ - 1]
  /\ reads' = [reads EXCEPT ![t] = @ - 1]
  /\ IF rwlock.state = 1 /\ rwlock.blocked_writers > 0 THEN WakeWriter
     ELSE UNCHANGED rwpc
  /\ UNCHANGED writer

UnlockWrite(t) ==
  /\ rwlock.state < 0 /\ t \in writer
  /\ rwlock' = [rwlock EXCEPT !.state = 0, !.owner = NOBODY]
  /\ writer' = writer \ {t}
  /\ IF rwlock.blocked_writers > 0 THEN WakeWriter ELSE WakeReaders
  /\ UNCHANGED reads

\* pthread_rwlock_unlock, by a thread that has the lock.
RwUnlock(t) ==
  /\ RwCalled(t) /\ rwlock.sig = "ready"
  /\ UnlockRead(t) \/ UnlockWrite(t)
  /\ UNCHANGED <<monitor, mishap>>

\* A wait ends without a signal: __semwait_signal was interrupted.
SpuriousWake(t) ==
  /\ \/ rwpc[t] = "r_wait" /\ RwGoto(t, "r_woken")
     \/ rwpc[t] = "w_wait" /\ RwGoto(t, "w_woken")
  /\ UNCHANGED <<rwlock, monitor, reads, writer, mishap>>

\* pthread_cond_wait returns an error: the call returns it.
WaitFails(t) ==
  /\ Mishaps /\ monitor = NOBODY
  /\ \/ rwpc[t] = "r_wait" /\ UNCHANGED rwlock
     \/ /\ rwpc[t] = "w_wait"
        /\ rwlock' = [rwlock EXCEPT !.blocked_writers = @ - 1]
  /\ RwGoto(t, "idle")
  /\ mishap' = TRUE
  /\ UNCHANGED <<monitor, reads, writer>>

\* The waiting thread is cancelled; no handler of the read-write lock unlocks
\* the monitor or takes the writer out of blocked_writers.
WaitCancelled(t) ==
  /\ Mishaps /\ monitor = NOBODY /\ rwpc[t] \in {"r_wait", "w_wait"}
  /\ monitor' = t /\ mishap' = TRUE
  /\ RwGoto(t, "dead")
  /\ UNCHANGED <<rwlock, reads, writer>>

\* pthread_rwlock_destroy and pthread_rwlock_init, which no thread calls
\* while another one waits: a lock that is in use is EBUSY.
RwUnused == \A t \in RwThread : rwpc[t] = "idle"

RwDestroy(t) ==
  /\ RwCalled(t) /\ RwUnused /\ rwlock.sig = "ready"
  /\ rwlock' = IF rwlock.state # 0 THEN rwlock ELSE [rwlock EXCEPT !.sig = "none"]
  /\ UNCHANGED <<monitor, rwpc, reads, writer, mishap>>

\* pthread_rwlock_init looks whether the lock is in use, without the monitor,
\* and then initializes it: EBUSY is returned for the call it is part of.
\* The first call for a lock with the static initializer begins with it.
InitCheck(t) ==
  /\ rwpc[t] = "idle" /\ monitor = NOBODY
  /\ \/ rwlock.sig = "init" /\ (Racing \/ RwUnused)
     \/ rwlock.sig # "init" /\ RwUnused
  /\ ~(rwlock.sig = "ready" /\ rwlock.state # 0)
  /\ RwGoto(t, "i_set")
  /\ UNCHANGED <<rwlock, monitor, reads, writer, mishap>>

InitSet(t) ==
  /\ rwpc[t] = "i_set"
  /\ rwlock' = RwInitialized
  /\ RwGoto(t, "idle")
  /\ UNCHANGED <<monitor, reads, writer, mishap>>

---------------------------------------------------------------------------
RwNext ==
  \E t \in RwThread :
    \/ RdLock(t) \/ TryRdLock(t) \/ TryWrLock(t) \/ WrLock(t) \/ RwUnlock(t)
    \/ SpuriousWake(t) \/ WaitFails(t) \/ WaitCancelled(t)
    \/ RwDestroy(t) \/ InitCheck(t) \/ InitSet(t)

RwSpec == RwInit /\ [][RwNext]_rwVars

\* A thread that has been woken up goes on, and one that has the lock gives
\* it up.
RwFairness ==
  \A t \in RwThread :
    /\ WF_rwVars(rwpc[t] = "r_woken" /\ RdLock(t))
    /\ WF_rwVars(rwpc[t] = "w_woken" /\ WrLock(t))
    /\ WF_rwVars(RwUnlock(t)) /\ WF_rwVars(InitSet(t))

---------------------------------------------------------------------------
(* Properties *)

\* Readers share the lock, a writer has it alone, and `state' and `owner' say
\* who they are, through failed and cancelled waits and when the lock is
\* destroyed and initialized again.
RwExclusion ==
  LET readers == {t \in RwThread : reads[t] > 0} IN
    /\ Cardinality(writer) <= 1 /\ (writer # {} => readers = {})
    /\ readers \cup writer # {} => rwlock.sig = "ready"
    /\ rwlock.state < 0 <=> writer # {}
    /\ rwlock.state > 0 <=> readers # {}
    /\ writer # {} => rwlock.owner \in writer

\* Nobody sleeps without a reason that will go away: a reader sleeps only
\* while a writer has the lock or waits for it, a writer only while the lock
\* is taken or another writer has been woken up.  (A wait that fails or is
\* cancelled breaks this: it passes its signal on to nobody.)
NoneSleepsForever ==
  ~mishap =>
    /\ (\E t \in RwThread : rwpc[t] = "r_wait") =>
         rwlock.state < 0 \/ rwlock.blocked_writers > 0
    /\ (\E t \in RwThread : rwpc[t] = "w_wait") =>
         rwlock.state # 0 \/ \E u \in RwThread : rwpc[u] = "w_woken"

\* Writers have priority: when one waits, the lock is written in the end, by
\* it or by another writer, however many readers come.
WriterComes == (\E t \in RwThread : rwpc[t] = "w_wait") ~> writer # {}
===========================================================================
