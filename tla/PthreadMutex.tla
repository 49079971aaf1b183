--------------------------- MODULE PthreadMutex ---------------------------
(***************************************************************************)
(* A pthread mutex (core/pthread_mutex.c).  A thread that finds the mutex  *)
(* taken counts itself in `waiters' and sleeps on the semaphore `sem'; the *)
(* semaphore `order' makes the waiters queue up on it one after the other. *)
(* pthread_mutex_unlock does not free a mutex with waiters: it makes the   *)
(* owner SWITCHING and signals `sem', and the thread that wakes up takes   *)
(* the mutex over.  (A cond wait leaves SWITCHING behind without waiters,  *)
(* see module PthreadCond.)                                                *)
(*                                                                         *)
(* What a thread does between LOCK(mutex->lock) and UNLOCK is one step,    *)
(* unless it sleeps in between: then `mlock' is the thread.  LOCK is taken *)
(* to exclude other threads (module LowLevelLock says when it does).       *)
(* Calls that return an error and change nothing are not steps, except     *)
(* those of a mutex that has been destroyed (EINVAL).                      *)
(***************************************************************************)
EXTENDS MachSemaphore

CONSTANTS SELF,          \* _PTHREAD_MUTEX_OWNER_SELF
          SWITCHING,     \* _PTHREAD_MUTEX_OWNER_SWITCHING
          MaxCount,      \* USHRT_MAX
          Types,         \* the types of mutex considered
          Aborts         \* whether the kernel aborts a wait (KERN_ABORTED)

ASSUME MutexAssumption ==
  /\ {SELF, SWITCHING} \cap (Thread \cup {NULL}) = {} /\ SELF # SWITCHING
  /\ MaxCount \in Nat \ {0}
  /\ Types \subseteq {"NORMAL", "ERRORCHECK", "RECURSIVE"}
  /\ Aborts \in BOOLEAN

VARIABLES mutex,         \* the pthread_mutex_t
          mlock,         \* who sleeps holding mutex->lock, or NULL
          pc,            \* where each thread is
          loc,           \* its local variables sem and order
          holds          \* history: how many of its locks have returned 0
                         \* and are not undone

mutexVars == <<mutex, mlock, pc, loc, holds>>

\* _pthread_mutex_init
Initialized(type) ==
  [sig |-> "ready", type |-> type, owner |-> NULL, waiters |-> 0,
   lock_count |-> 0, sem |-> NULL, order |-> NULL, busy |-> FALSE]

\* The mutex an operation finds once it has LOCK: a mutex with a static
\* initializer is initialized now.
Found == IF mutex.sig = "init" THEN Initialized("NORMAL") ELSE mutex

Self(t) == IF Found.type = "NORMAL" THEN SELF ELSE t
Locals(s, o) == [sem |-> s, order |-> o]
Goto(t, l) == pc' = [pc EXCEPT ![t] = l]
Return(t) == Goto(t, "idle") /\ loc' = [loc EXCEPT ![t] = Locals(NULL, NULL)]
LOCK == mlock = NULL

\* The last lines of pthread_mutex_lock and pthread_mutex_trylock.
Take(t, m) ==
  /\ mutex' = [m EXCEPT !.lock_count = 1, !.owner = Self(t)]
  /\ mlock' = NULL
  /\ holds' = [holds EXCEPT ![t] = @ + 1]
  /\ Return(t)

\* Where pthread_mutex_lock is called: by the program, which does not lock a
\* NORMAL mutex twice, and at the end of a cond wait.
LockCalled(t) ==
  /\ \/ pc[t] = "idle" /\ (Found.type = "NORMAL" => holds[t] = 0)
     \/ pc[t] = "c_relock"
  /\ LOCK /\ mutex.sig # "none"

LockFree(t) ==
  /\ LockCalled(t) /\ Found.owner = NULL
  /\ Take(t, Found)
  /\ UNCHANGED semVars

\* Mutant: lock_count is not compared with USHRT_MAX and wraps.
LockAgainUnchecked(t) ==
  /\ LockCalled(t) /\ Found.type = "RECURSIVE" /\ Found.owner = t
  /\ mutex' = [Found EXCEPT !.lock_count = (@ + 1) % (MaxCount + 1)]
  /\ holds' = [holds EXCEPT ![t] = @ + 1]
  /\ Return(t)
  /\ UNCHANGED <<semVars, mlock>>

LockAgain(t) ==
  /\ LockCalled(t) /\ Found.type = "RECURSIVE" /\ Found.owner = t
  /\ Found.lock_count < MaxCount
  /\ mutex' = [Found EXCEPT !.lock_count = @ + 1]
  /\ holds' = [holds EXCEPT ![t] = @ + 1]
  /\ Return(t)
  /\ UNCHANGED <<semVars, mlock>>

\* The mutex is owned or on its way to a waiter.
MustQueue(t) ==
  /\ LockCalled(t) /\ Found.owner \notin {NULL, t}
  /\ Found.waiters > 0 \/ Found.owner # SWITCHING

\* The first waiter gets the two semaphores ...
QueueFirst(t) ==
  /\ MustQueue(t) /\ Found.waiters = 0 /\ InPool(2)
  /\ LET s == new_sem_from_pool(1)  o == new_sem_from_pool(2) IN
       /\ mutex' = [Found EXCEPT !.waiters = 1, !.sem = s, !.order = o]
       /\ loc' = [loc EXCEPT ![t] = Locals(s, o)]
  /\ sem_pool' = Taken(2)
  /\ Goto(t, "l_wait")
  /\ UNCHANGED <<sema, mlock, holds>>

\* Mutant: the next one takes the semaphores for one another.
QueueNextSwapped(t) ==
  /\ MustQueue(t) /\ Found.waiters > 0
  /\ mutex' = [Found EXCEPT !.waiters = @ + 1]
  /\ loc' = [loc EXCEPT ![t] = Locals(Found.order, Found.sem)]
  /\ sema' = Waited(sema, Found.order, t)
  /\ mlock' = t
  /\ Goto(t, "l_order")
  /\ UNCHANGED <<sem_pool, holds>>

\* ... and the next one waits, holding LOCK, until the one before it sleeps.
QueueNext(t) ==
  /\ MustQueue(t) /\ Found.waiters > 0
  /\ mutex' = [Found EXCEPT !.waiters = @ + 1]
  /\ loc' = [loc EXCEPT ![t] = Locals(Found.sem, Found.order)]
  /\ sema' = Waited(sema, Found.order, t)
  /\ mlock' = t
  /\ Goto(t, "l_order")
  /\ UNCHANGED <<sem_pool, holds>>

Ordered(t) ==
  /\ pc[t] = "l_order" /\ ~Blocked(t)
  /\ mlock' = NULL
  /\ Goto(t, "l_wait")
  /\ UNCHANGED <<semVars, mutex, loc, holds>>

Sleep(t) ==
  /\ pc[t] = "l_wait"
  /\ sema' = WaitSignalled(sema, loc[t].sem, loc[t].order, t)
  /\ Goto(t, "l_woken")
  /\ UNCHANGED <<sem_pool, mutex, mlock, loc, holds>>

\* KERN_ABORTED: the thread waits on sem again, behind the others.
Aborted(t) ==
  /\ Aborts /\ pc[t] = "l_woken" /\ InQueue(t, loc[t].sem)
  /\ sema' = Waited(Left(sema, loc[t].sem, t), loc[t].sem, t)
  /\ UNCHANGED <<sem_pool, mutexVars>>

\* The thread that has been signalled takes the mutex over, the last waiter
\* after it has taken back the signal left in `order'.
WakeUp(t) ==
  /\ pc[t] = "l_woken" /\ ~Blocked(t) /\ LOCK
  /\ mutex.waiters > 1
  /\ Take(t, [mutex EXCEPT !.waiters = @ - 1])
  /\ UNCHANGED semVars

WakeUpLast(t) ==
  /\ pc[t] = "l_woken" /\ ~Blocked(t) /\ LOCK
  /\ mutex.waiters = 1
  /\ mutex' = [mutex EXCEPT !.waiters = 0]
  /\ sema' = Waited(sema, loc[t].order, t)
  /\ mlock' = t
  /\ Goto(t, "l_drain")
  /\ UNCHANGED <<sem_pool, loc, holds>>

\* Mutant: `order' is not put back into the pool.
DrainedLeaking(t) ==
  /\ pc[t] = "l_drain" /\ ~Blocked(t)
  /\ sem_pool' = Restored(loc[t].sem)
  /\ Take(t, [mutex EXCEPT !.sem = NULL, !.order = NULL])
  /\ UNCHANGED sema

Drained(t) ==
  /\ pc[t] = "l_drain" /\ ~Blocked(t)
  /\ sem_pool' = <<loc[t].sem>> \o Restored(loc[t].order)
  /\ Take(t, [mutex EXCEPT !.sem = NULL, !.order = NULL])
  /\ UNCHANGED sema

\* A mutex released by a cond wait: wait, holding LOCK, for its signal.
LockSwitching(t) ==
  /\ LockCalled(t) /\ Found.owner = SWITCHING /\ Found.waiters = 0
  /\ loc' = [loc EXCEPT ![t] = Locals(Found.sem, NULL)]
  /\ sema' = Waited(sema, Found.sem, t)
  /\ mlock' = t
  /\ Goto(t, "l_switch")
  /\ UNCHANGED <<sem_pool, mutex, holds>>

Switched(t) ==
  /\ pc[t] = "l_switch" /\ ~Blocked(t)
  /\ sem_pool' = Restored(loc[t].sem)
  /\ Take(t, [mutex EXCEPT !.sem = NULL])
  /\ UNCHANGED sema

\* pthread_mutex_lock fails at the end of a cond wait: the mutex has been
\* destroyed meanwhile.
LockFails(t) ==
  /\ pc[t] = "c_relock" /\ LOCK /\ mutex.sig = "none"
  /\ Return(t)
  /\ UNCHANGED <<semVars, mutex, mlock, holds>>

\* pthread_mutex_trylock does what pthread_mutex_lock does, except that it
\* returns EBUSY, and changes nothing, where lock queues up.
TryLock(t) == LockFree(t) \/ LockAgain(t) \/ LockSwitching(t)

Wait(t) == \/ QueueFirst(t) \/ QueueNext(t) \/ Ordered(t) \/ Sleep(t)
           \/ WakeUp(t) \/ WakeUpLast(t) \/ Drained(t) \/ Switched(t)
           \/ LockFails(t)

\* pthread_mutex_unlock.  A thread that does not own the mutex gets EPERM, or
\* with a NORMAL mutex does not call it.
UnlockCalled(t) ==
  pc[t] = "idle" /\ LOCK /\ mutex.owner = Self(t) /\ holds[t] > 0
Release(t) == holds' = [holds EXCEPT ![t] = @ - 1]

UnlockOnce(t) ==
  /\ UnlockCalled(t) /\ mutex.type = "RECURSIVE" /\ mutex.lock_count > 1
  /\ mutex' = [mutex EXCEPT !.lock_count = @ - 1]
  /\ Release(t)
  /\ UNCHANGED <<semVars, mlock, pc, loc>>

LastUnlock(t) ==
  UnlockCalled(t) /\ (mutex.type = "RECURSIVE" => mutex.lock_count = 1)

\* Mutant: the waiters are forgotten.
UnlockSwitchingFreed(t) ==
  /\ LastUnlock(t) /\ mutex.waiters > 0
  /\ mutex' = [mutex EXCEPT !.lock_count = 0, !.owner = NULL]
  /\ Release(t)
  /\ UNCHANGED <<semVars, mlock, pc, loc>>

UnlockSwitching(t) ==
  /\ LastUnlock(t) /\ mutex.waiters > 0
  /\ mutex' = [mutex EXCEPT !.lock_count = 0, !.owner = SWITCHING]
  /\ Release(t)
  /\ Goto(t, "u_signal")
  /\ UNCHANGED <<semVars, mlock, loc>>

UnlockFree(t) ==
  /\ LastUnlock(t) /\ mutex.waiters = 0
  /\ mutex' = [mutex EXCEPT !.lock_count = 0, !.owner = NULL]
  /\ Release(t)
  /\ UNCHANGED <<semVars, mlock, pc, loc>>

\* mutex->sem is read after UNLOCK.
SignalWaiter(t) ==
  /\ pc[t] = "u_signal"
  /\ sema' = Signalled(sema, mutex.sem)
  /\ Goto(t, "idle")
  /\ UNCHANGED <<sem_pool, mutex, mlock, loc, holds>>

Unlock(t) == UnlockOnce(t) \/ UnlockSwitching(t) \/ UnlockFree(t)

\* Mutant: `busy' is not looked at.
DestroyBusy(t) ==
  /\ pc[t] = "idle" /\ LOCK
  /\ mutex.sig = "ready" /\ mutex.owner = NULL
  /\ mutex' = [mutex EXCEPT !.sig = "none"]
  /\ UNCHANGED <<semVars, mlock, pc, loc, holds>>

\* pthread_mutex_destroy
Destroy(t) ==
  /\ pc[t] = "idle" /\ LOCK
  /\ mutex.sig = "ready" /\ mutex.owner = NULL /\ ~mutex.busy
  /\ mutex' = [mutex EXCEPT !.sig = "none"]
  /\ UNCHANGED <<semVars, mlock, pc, loc, holds>>

Refused(t) ==
  /\ pc[t] = "idle" /\ LOCK /\ mutex.sig = "none"
  /\ UNCHANGED <<semVars, mutexVars>>

\* pthread_mutex_init, of a mutex no thread uses.
InitMutex ==
  /\ mutex.sig = "none" /\ \A t \in Thread : pc[t] = "idle"
  /\ \E type \in Types : mutex' = Initialized(type)
  /\ UNCHANGED <<semVars, mlock, pc, loc, holds>>

\* The mutex has a static initializer or has been initialized.
MutexInit ==
  /\ mutex \in {Initialized(type) : type \in Types}
               \cup {[Initialized("NORMAL") EXCEPT !.sig = "init"]}
  /\ mlock = NULL
  /\ pc = [t \in Thread |-> "idle"]
  /\ loc = [t \in Thread |-> Locals(NULL, NULL)]
  /\ holds = [t \in Thread |-> 0]
===========================================================================
