--------------------------- MODULE LowLevelLock ---------------------------
(***************************************************************************)
(* The low-level lock every lock of the C library is built on              *)
(* (core/LowLevelLock.c) and its OSSpinLock interface (core/OSSpinLock.c): *)
(* a futex word that is 0 when the lock is free, 1 when it is held and 2   *)
(* when it is held and a thread may be asleep in the kernel.               *)
(*                                                                         *)
(* The processor does one OSCompareAndExchangeInt at a time; it returns    *)
(* the value the word had.  OSAtomicExchange (core/OSUAtomic.h) is a loop  *)
(* of a read and a compare-and-exchange, two steps, which goes on as long  *)
(* as the compare-and-exchange returns something other than 0.             *)
(* The kernel's futex is external: FUTEX_WAIT goes to sleep if the word    *)
(* still has the expected value, FUTEX_WAKE wakes up one sleeper, and a    *)
(* sleeper may also be woken up by a signal.                               *)
(***************************************************************************)
EXTENDS Integers, FiniteSets

CONSTANTS Thread,
          TryThreads     \* the threads that lock with _spin_lock_try

ASSUME ThreadAssumption == TryThreads \subseteq Thread

VARIABLES word,          \* *futex
          pc,            \* where each thread is
          old,           \* __atg5_oldval of the exchange a thread is in
          again,         \* that exchange has already stored its value
          stored,        \* a try of this thread has stored its 1
          stray,         \* history: an exchange has stored its value twice
          granted        \* history: a try of a lock held by another thread
                         \* has succeeded

vars == <<word, pc, old, again, stored, stray, granted>>

ControlPoint == {"idle", "cas12", "futex_wait", "asleep", "cas02", "critical",
                 "x_read", "x_cas", "wake"}

Goto(t, l) == pc' = [pc EXCEPT ![t] = l]

\* What OSCompareAndExchangeInt(futex, newval, oldval) leaves in the word.
Exchanged(newval, oldval) == IF word = oldval THEN newval ELSE word

Init ==
  /\ word = 0
  /\ pc = [t \in Thread |-> "idle"]
  /\ old = [t \in Thread |-> 0]
  /\ again = [t \in Thread |-> FALSE]
  /\ stored = [t \in Thread |-> FALSE]
  /\ stray = FALSE /\ granted = FALSE

\* lll_lock
Lock(t) ==
  /\ pc[t] = "idle" /\ t \notin TryThreads
  /\ word' = Exchanged(1, 0)
  /\ Goto(t, IF word = 0 THEN "critical" ELSE "cas12")
  /\ UNCHANGED <<old, again, stored, stray, granted>>

\* _spin_lock_try returns what lll_trylock does, the value the word had; its
\* callers (_spin_lock_retry, mutex_try_lock) take the lock to be theirs when
\* that is not 0, and otherwise try again.
SpinLockTry(t) ==
  /\ pc[t] = "idle" /\ t \in TryThreads
  /\ word' = Exchanged(1, 0)
  /\ Goto(t, IF word # 0 THEN "critical" ELSE "idle")
  /\ stored' = [stored EXCEPT ![t] = (word = 0)]
  /\ granted' = (granted \/ (word # 0 /\ ~stored[t]))
  /\ UNCHANGED <<old, again, stray>>

\* Mutant: the waiters are counted in the word.
MarkWaitingCounted(t) ==
  /\ pc[t] = "cas12"
  /\ word' = IF word # 0 THEN word + 1 ELSE word
  /\ Goto(t, IF word # 0 THEN "futex_wait" ELSE "cas02")
  /\ UNCHANGED <<old, again, stored, stray, granted>>

\* The loop of lll_lock_wait: mark the word ...
MarkWaiting(t) ==
  /\ pc[t] = "cas12"
  /\ word' = Exchanged(2, 1)
  /\ Goto(t, IF word # 0 THEN "futex_wait" ELSE "cas02")
  /\ UNCHANGED <<old, again, stored, stray, granted>>

\* ... sleep if it is still marked ...
FutexWait(t) ==
  /\ pc[t] = "futex_wait"
  /\ Goto(t, IF word = 2 THEN "asleep" ELSE "cas02")
  /\ UNCHANGED <<word, old, again, stored, stray, granted>>

\* Mutant: a thread that has been woken up takes the lock to be free.
TakeMarkedBlindly(t) ==
  /\ pc[t] = "cas02"
  /\ word' = 2
  /\ Goto(t, "critical")
  /\ UNCHANGED <<old, again, stored, stray, granted>>

\* ... and try to take it, marked.
TakeMarked(t) ==
  /\ pc[t] = "cas02"
  /\ word' = Exchanged(2, 0)
  /\ Goto(t, IF word = 0 THEN "critical" ELSE "cas12")
  /\ UNCHANGED <<old, again, stored, stray, granted>>

\* lll_unlock: OSAtomicExchange(futex, 0) ...
Unlock(t) ==
  /\ pc[t] = "critical"
  /\ Goto(t, "x_read")
  /\ again' = [again EXCEPT ![t] = FALSE]
  /\ UNCHANGED <<word, old, stored, stray, granted>>

ExchangeRead(t) ==
  /\ pc[t] = "x_read"
  /\ old' = [old EXCEPT ![t] = word]
  /\ Goto(t, "x_cas")
  /\ UNCHANGED <<word, again, stored, stray, granted>>

ExchangeStore(t) ==
  /\ pc[t] = "x_cas"
  /\ word' = Exchanged(0, old[t])
  /\ IF word = 0 THEN Goto(t, "wake") /\ UNCHANGED again
     ELSE Goto(t, "x_read")
          /\ again' = [again EXCEPT ![t] = @ \/ word = old[t]]
  /\ stray' = (stray \/ (again[t] /\ word # 0 /\ word = old[t]))
  /\ UNCHANGED <<old, stored, granted>>

\* ... and FUTEX_WAKE of one thread if the value it returns is above 1.
Wake(t) ==
  /\ pc[t] = "wake"
  /\ \/ /\ old[t] > 1
        /\ \E u \in Thread :
             /\ pc[u] = "asleep"
             /\ pc' = [pc EXCEPT ![t] = "idle", ![u] = "cas02"]
     \/ /\ old[t] <= 1 \/ \A u \in Thread : pc[u] # "asleep"
        /\ Goto(t, "idle")
  /\ UNCHANGED <<word, old, again, stored, stray, granted>>

\* A signal is delivered to a sleeping thread: FUTEX_WAIT returns.
Interrupt(t) ==
  /\ pc[t] = "asleep"
  /\ Goto(t, "cas02")
  /\ UNCHANGED <<word, old, again, stored, stray, granted>>

Acquire(t) == Lock(t) \/ SpinLockTry(t)
Progress(t) == MarkWaiting(t) \/ FutexWait(t) \/ TakeMarked(t)
               \/ Unlock(t) \/ ExchangeRead(t) \/ ExchangeStore(t) \/ Wake(t)

Next == \E t \in Thread : Acquire(t) \/ Progress(t) \/ Interrupt(t)

Spec == Init /\ [][Next]_vars

\* A thread that is in the lock code or holds the lock goes on; no thread has
\* to lock, and no signal has to come.
FairSpec == Spec /\ \A t \in Thread : WF_vars(Progress(t))

---------------------------------------------------------------------------
\* The futex word, and every value an exchange has read of it, is 0, 1 or 2.
TypeOK ==
  /\ word \in 0..2
  /\ pc \in [Thread -> ControlPoint]
  /\ old \in [Thread -> 0..2]
  /\ again \in [Thread -> BOOLEAN]
  /\ stored \in [Thread -> BOOLEAN]
  /\ stray \in BOOLEAN /\ granted \in BOOLEAN

\* t holds the lock: it has taken it and not yet stored the 0.
Holds(t) == \/ pc[t] = "critical"
            \/ pc[t] = "idle" /\ stored[t]
            \/ pc[t] \in {"x_read", "x_cas"} /\ ~again[t]

(***************************************************************************)
(* As long as no OSAtomicExchange stores its 0 a second time and no try of *)
(* a lock that is held succeeds, at most one thread holds the lock and the *)
(* word is 0 exactly when none does.  These two are the only ways the lock *)
(* is lost: the marking, sleeping and waking up around them are right, and *)
(* a loop of tries ends up with the lock when no other thread contends.    *)
(***************************************************************************)
HeldOnce ==
  ~stray /\ ~granted =>
    /\ \A t, u \in Thread : Holds(t) /\ Holds(u) => t = u
    /\ word = 0 <=> \A t \in Thread : ~Holds(t)

(***************************************************************************)
(* "Internal mutex locks for data structures" (core/pthread_spinlock.h:71):*)
(* two threads are never past _spin_lock at the same time.                 *)
(***************************************************************************)
MutualExclusion ==
  \A t, u \in Thread : pc[t] = "critical" /\ pc[u] = "critical" => t = u

===========================================================================
