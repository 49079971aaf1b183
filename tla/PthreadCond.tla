---------------------------- MODULE PthreadCond ----------------------------
(***************************************************************************)
(* A condition variable (core/pthread_cond.c) and the mutex its waiters    *)
(* use.  A waiter counts itself in cond->waiters, gives the mutex up by    *)
(* making its owner SWITCHING, and in one kernel call signals mutex->sem   *)
(* and sleeps on cond->sem.  It is the next pthread_mutex_lock that takes  *)
(* that signal.  The first waiter gives the condition variable its         *)
(* semaphore and the last one to leave puts it back, unless a signaller is *)
(* about to use it (cond->sigspending).                                    *)
(*                                                                         *)
(* `clock' is the thread that waits for mutex->lock holding cond->lock.    *)
(***************************************************************************)
EXTENDS PthreadMutex, TLC

CONSTANT CondThread       \* the threads that use the condition variable

ASSUME CondAssumption == CondThread \subseteq Thread /\ IsFiniteSet(Sem)

VARIABLES cond,           \* the pthread_cond_t
          clock           \* who keeps cond->lock between two steps, or NULL

syncVars == <<semVars, mutexVars, cond, clock>>
condVars == <<cond, clock>>

\* _pthread_cond_init.  busy is whether the mutex is registered.
CondInitialized ==
  [sig |-> "ready", waiters |-> 0, sigspending |-> 0, sem |-> NULL,
   busy |-> FALSE]

FoundCond == IF cond.sig = "init" THEN CondInitialized ELSE cond

CLOCK == clock = NULL
CondCalled(t) ==
  t \in CondThread /\ pc[t] = "idle" /\ CLOCK /\ cond.sig # "none"

\* _pthread_cond_wait: the program owns the mutex.
CondWait(t) ==
  /\ CondCalled(t) /\ holds[t] > 0
  /\ cond' = [FoundCond EXCEPT !.waiters = @ + 1]
  /\ IF FoundCond.waiters = 0 THEN clock' = t /\ Goto(t, "c_add")
                              ELSE clock' = NULL /\ Goto(t, "c_release")
  /\ UNCHANGED <<semVars, mutex, mlock, loc, holds>>

\* _pthread_cond_add: registers with the mutex, and a semaphore for sleepers.
CondAdd(t) ==
  /\ pc[t] = "c_add" /\ LOCK
  /\ mutex' = [mutex EXCEPT !.busy = TRUE]
  /\ IF cond.sem # NULL
     THEN cond' = [cond EXCEPT !.busy = TRUE] /\ UNCHANGED sem_pool
     ELSE /\ InPool(1)
          /\ cond' = [cond EXCEPT !.busy = TRUE, !.sem = new_sem_from_pool(1)]
          /\ sem_pool' = Taken(1)
  /\ clock' = NULL
  /\ Goto(t, "c_release")
  /\ UNCHANGED <<sema, mlock, loc, holds>>

\* The mutex is given up, or only one of the locks of a recursive one.
GiveUp(t) ==
  /\ mutex.lock_count = 1
  /\ IF mutex.sem # NULL
     THEN /\ mutex' = [mutex EXCEPT !.lock_count = 0, !.owner = SWITCHING]
          /\ UNCHANGED sem_pool
     ELSE /\ InPool(1)
          /\ mutex' = [mutex EXCEPT !.lock_count = 0, !.owner = SWITCHING,
                                    !.sem = new_sem_from_pool(1)]
          /\ sem_pool' = Taken(1)
  /\ Goto(t, "c_wait")

GiveUpOne(t) ==
  /\ mutex.lock_count > 1
  /\ mutex' = [mutex EXCEPT !.lock_count = @ - 1]
  /\ Goto(t, "c_wait_only")
  /\ UNCHANGED sem_pool

CondRelease(t) ==
  /\ pc[t] = "c_release" /\ LOCK
  /\ Release(t)
  /\ GiveUp(t) \/ GiveUpOne(t)
  /\ UNCHANGED <<sema, mlock, loc, condVars>>

\* semaphore_wait_signal(cond->sem, mutex->sem), semaphore_wait(cond->sem):
\* both semaphores are read here, without a lock.
CondSleep(t) ==
  /\ \/ /\ pc[t] = "c_wait"
        /\ sema' = WaitSignalled(sema, cond.sem, mutex.sem, t)
     \/ /\ pc[t] = "c_wait_only"
        /\ sema' = Waited(sema, cond.sem, t)
  /\ loc' = [loc EXCEPT ![t] = Locals(cond.sem, NULL)]
  /\ Goto(t, "c_leave")
  /\ UNCHANGED <<sem_pool, mutex, mlock, holds, condVars>>

\* The wait times out, is interrupted or the thread is cancelled.  In the
\* last case it goes on in cond_cleanup, which does what comes after the wait.
TimeOut(t) ==
  /\ pc[t] = "c_leave" /\ InQueue(t, loc[t].sem)
  /\ sema' = Left(sema, loc[t].sem, t)
  /\ UNCHANGED <<sem_pool, mutexVars, condVars>>

CondLeave(t) ==
  /\ pc[t] = "c_leave" /\ ~Blocked(t) /\ CLOCK
  /\ cond' = [cond EXCEPT !.waiters = @ - 1]
  /\ IF cond.waiters = 1 THEN clock' = t /\ Goto(t, "c_remove")
                         ELSE clock' = NULL /\ Goto(t, "c_relock")
  /\ UNCHANGED <<semVars, mutex, mlock, loc, holds>>

\* _pthread_cond_remove.  pthread_mutex_lock follows: LockCalled.
CondRemove(t) ==
  /\ pc[t] = "c_remove" /\ LOCK
  /\ mutex' = [mutex EXCEPT !.busy = FALSE]
  /\ IF cond.sigspending = 0
     THEN /\ sem_pool' = Restored(cond.sem)
          /\ cond' = [cond EXCEPT !.busy = FALSE, !.sem = NULL]
     ELSE /\ cond' = [cond EXCEPT !.busy = FALSE]
          /\ UNCHANGED sem_pool
  /\ clock' = NULL
  /\ Goto(t, "c_relock")
  /\ UNCHANGED <<sema, mlock, loc, holds>>

\* pthread_cond_signal and pthread_cond_broadcast, called with or without the
\* mutex.  Without a semaphore there is nobody to wake up.
SignalCalled(t) ==
  /\ CondCalled(t)
  /\ IF cond.sig = "ready" /\ cond.sem # NULL
     THEN /\ cond' = [cond EXCEPT !.sigspending = @ + 1]
          /\ loc' = [loc EXCEPT ![t] = Locals(cond.sem, NULL)]
          /\ \E l \in {"s_one", "s_thread", "s_all"} : Goto(t, l)
     ELSE cond' = FoundCond /\ UNCHANGED <<loc, pc>>
  /\ UNCHANGED <<semVars, mutex, mlock, holds, clock>>

\* Mutant: a broadcast wakes up one thread.
SignalSleepersOne(t) ==
  /\ \/ pc[t] \in {"s_one", "s_all"} /\ sema' = SignalledOne(sema, loc[t].sem)
     \/ /\ pc[t] = "s_thread"
        /\ \E u \in CondThread : sema' = Left(sema, loc[t].sem, u)
  /\ Goto(t, "s_done")
  /\ UNCHANGED <<sem_pool, mutex, mlock, loc, holds, condVars>>

\* semaphore_signal_thread of any sleeper and of a thread given by the
\* program, semaphore_signal_all.
SignalSleepers(t) ==
  /\ \/ pc[t] = "s_one" /\ sema' = SignalledOne(sema, loc[t].sem)
     \/ /\ pc[t] = "s_thread"
        /\ \E u \in CondThread : sema' = Left(sema, loc[t].sem, u)
     \/ pc[t] = "s_all" /\ sema' = SignalledAll(sema, loc[t].sem)
  /\ Goto(t, "s_done")
  /\ UNCHANGED <<sem_pool, mutex, mlock, loc, holds, condVars>>

SignalDone(t) ==
  /\ pc[t] = "s_done" /\ CLOCK
  /\ IF cond.waiters = 0 /\ cond.sigspending = 1
     THEN /\ cond' = [cond EXCEPT !.sigspending = 0, !.sem = NULL]
          /\ sem_pool' = Restored(loc[t].sem)
     ELSE /\ cond' = [cond EXCEPT !.sigspending = @ - 1]
          /\ UNCHANGED sem_pool
  /\ Return(t)
  /\ UNCHANGED <<sema, mutex, mlock, holds, clock>>

\* pthread_cond_destroy
DestroyCond(t) ==
  /\ CondCalled(t) /\ cond.sig = "ready" /\ ~cond.busy
  /\ cond' = [cond EXCEPT !.sig = "none"]
  /\ UNCHANGED <<semVars, mutexVars, clock>>

\* pthread_cond_init, of a condition variable no thread is using.
InitCond ==
  /\ cond.sig = "none" /\ \A t \in Thread : pc[t] = "idle"
  /\ cond' = CondInitialized
  /\ UNCHANGED <<semVars, mutexVars, clock>>

CondInit ==
  /\ cond \in {CondInitialized, [CondInitialized EXCEPT !.sig = "init"]}
  /\ clock = NULL

-----------------------------------------------------------------------------

SyncInit ==
  /\ sema = [s \in Sem |-> Created]
  /\ sem_pool = CHOOSE p \in [1..Cardinality(Sem) -> Sem] :
                   {p[i] : i \in 1..Cardinality(Sem)} = Sem
  /\ MutexInit /\ CondInit

\* A step of a call in progress.
Proceed(t) ==
  \/ /\ \/ pc[t] = "c_relock" /\ TryLock(t)
        \/ Wait(t)
        \/ SignalWaiter(t)
     /\ UNCHANGED condVars
  \/ CondAdd(t) \/ CondRelease(t) \/ CondSleep(t) \/ CondLeave(t)
  \/ CondRemove(t) \/ SignalSleepers(t) \/ SignalDone(t)

\* The program gives up the mutex.
LetGo(t) == \/ (UnlockSwitching(t) \/ UnlockFree(t)) /\ UNCHANGED condVars
            \/ CondWait(t)

SyncNext ==
  \/ \E t \in Thread :
       \/ (TryLock(t) \/ Wait(t) \/ Aborted(t)) /\ UNCHANGED condVars
       \/ (Unlock(t) \/ SignalWaiter(t)) /\ UNCHANGED condVars
       \/ (Destroy(t) \/ Refused(t)) /\ UNCHANGED condVars
       \/ CondWait(t) \/ CondAdd(t) \/ CondRelease(t) \/ CondSleep(t)
       \/ TimeOut(t) \/ CondLeave(t) \/ CondRemove(t)
       \/ SignalCalled(t) \/ SignalSleepers(t) \/ SignalDone(t)
       \/ DestroyCond(t)
  \/ InitMutex /\ UNCHANGED condVars
  \/ InitCond

SyncSpec == SyncInit /\ [][SyncNext]_syncVars

\* A call in progress goes on when it can, and a program that owns the mutex
\* does not keep it for ever.
FairSyncSpec ==
  /\ SyncSpec
  /\ \A t \in Thread : WF_syncVars(Proceed(t)) /\ SF_syncVars(LetGo(t))

-----------------------------------------------------------------------------

Places == {"idle", "l_order", "l_wait", "l_woken", "l_drain", "l_switch",
           "u_signal", "c_add", "c_release", "c_wait", "c_wait_only",
           "c_leave", "c_remove", "c_relock", "s_one", "s_thread", "s_all",
           "s_done"}

\* Every field keeps its type; lock_count stays within 16 bits and the
\* counters of waiters and of pending signals do not become negative.
TypeOK ==
  /\ sema \in [Sem -> [count : Nat, queue : Seq(Thread)]]
  /\ sem_pool \in Seq(Sem)
  /\ mutex \in [sig : {"init", "ready", "none"},
                type : {"NORMAL", "ERRORCHECK", "RECURSIVE"},
                owner : Thread \cup {NULL, SELF, SWITCHING},
                waiters : Nat, lock_count : 0..MaxCount,
                sem : Sem \cup {NULL}, order : Sem \cup {NULL},
                busy : BOOLEAN]
  /\ cond \in [sig : {"init", "ready", "none"}, waiters : Nat,
               sigspending : Nat, sem : Sem \cup {NULL}, busy : BOOLEAN]
  /\ mlock \in Thread \cup {NULL} /\ clock \in Thread \cup {NULL}
  /\ pc \in [Thread -> Places]
  /\ loc \in [Thread -> [sem : Sem \cup {NULL}, order : Sem \cup {NULL}]]
  /\ holds \in [Thread -> Nat]

\* A thread that has locked the mutex is alone, whether it got the mutex from
\* a free one, from the thread that unlocked it or from one that went to
\* sleep on the condition variable.
Exclusion ==
  \A t, u \in Thread : holds[t] > 0 /\ holds[u] > 0 => t = u

\* pthread_mutex_unlock and the cond wait read mutex->sem and cond->sem after
\* they have let the locks go.  They are still the semaphores the threads
\* that queued up sleep on.
SignalsTheSleepers ==
  \A t \in Thread :
    /\ pc[t] \in {"u_signal", "c_wait"} =>
         /\ mutex.sem \in Sem
         /\ \A u \in Thread :
              pc[u] \in {"l_wait", "l_woken"} => loc[u].sem = mutex.sem
    /\ pc[t] \in {"c_wait", "c_wait_only"} => cond.sem \in Sem

\* The last waiter of the mutex takes the signal back from `order' with a
\* wait that is not repeated when it is aborted: it never has to sleep.
DrainNeverBlocks == \A t \in Thread : pc[t] = "l_drain" => ~Blocked(t)

\* Every semaphore is in the pool or belongs to the mutex or the condition
\* variable, and not to two of them; one that comes back to the pool is as
\* good as new: whoever takes a signal back from one finds it there.
PoolSound ==
  LET pool  == {sem_pool[i] : i \in 1..Len(sem_pool)}
      users == <<mutex.sem, mutex.order, cond.sem>>
      used  == {users[i] : i \in 1..3} \ {NULL}
  IN  /\ pool \cap used = {} /\ pool \cup used = Sem
      /\ Len(sem_pool) = Cardinality(pool)
      /\ \A i, j \in 1..3 : users[i] = users[j] => i = j \/ users[i] = NULL
      /\ PoolClean
      /\ DrainNeverBlocks

\* A mutex is not destroyed while threads queue up for it, nor while they
\* sleep on a condition variable with it.
NotDestroyedAsleep ==
  mutex.sig = "none" =>
    \A t \in Thread :
      pc[t] \in {"idle", "c_relock", "s_one", "s_thread", "s_all", "s_done"}

\* The mutex and the condition variable implement AbstractMonitor.  A thread
\* about to sleep, whose mutex is on its way to the next owner, still holds
\* it there: that it gives the mutex up and that it waits is one step.
Monitor == INSTANCE AbstractMonitor WITH
  held    <- [t \in Thread |-> IF pc[t] \in {"c_wait", "c_wait_only"}
                              THEN holds[t] + 1 ELSE holds[t]],
  waiting <- {t \in Thread : pc[t] = "c_leave" /\ Blocked(t)},
  sending <- [t \in Thread |-> CASE pc[t] = "s_one" -> "one"
                                 [] pc[t] = "s_thread" -> "thread"
                                 [] pc[t] = "s_all" -> "all"
                                 [] OTHER -> "none"]

ImplementsMonitor == Monitor!Spec

\* A thread that queues up for the mutex gets it.
LockGranted ==
  \A t \in Thread : pc[t] \in {"l_order", "l_wait"} ~> holds[t] > 0

\* Symmetry: the threads that do the same are alike, and so are the semaphores.
Alike == Permutations(CondThread) \cup Permutations(Thread \ CondThread)
           \cup Permutations(Sem)
=============================================================================
