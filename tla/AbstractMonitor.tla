-------------------------- MODULE AbstractMonitor --------------------------
(***************************************************************************)
(* What a program may rely on when it uses a mutex together with a         *)
(* condition variable: at most one thread holds the mutex; a wait gives    *)
(* the mutex up and joins the waiting threads in one step; a signal wakes  *)
(* up a waiting thread if there is one, and a broadcast all of them; and   *)
(* a thread that waits does not take the mutex.                            *)
(***************************************************************************)
EXTENDS Naturals

CONSTANT Thread

VARIABLES held,          \* how often each thread has locked the mutex
          waiting,       \* the threads that wait on the condition variable
          sending        \* the signal each thread is about to send, or "none"

monitor == <<held, waiting, sending>>

Init ==
  /\ held = [t \in Thread |-> 0]
  /\ waiting = {}
  /\ sending = [t \in Thread |-> "none"]

Acquire(t) ==
  /\ t \notin waiting
  /\ \A u \in Thread \ {t} : held[u] = 0
  /\ held' = [held EXCEPT ![t] = @ + 1]
  /\ UNCHANGED <<waiting, sending>>

Release(t) ==
  /\ held[t] > 0
  /\ held' = [held EXCEPT ![t] = @ - 1]
  /\ UNCHANGED <<waiting, sending>>

\* The mutex is given up and the thread waits, at once.
Wait(t) ==
  /\ held[t] > 0
  /\ held' = [held EXCEPT ![t] = @ - 1]
  /\ waiting' = waiting \cup {t}
  /\ UNCHANGED sending

\* A wait that times out, is interrupted or cancelled.
GiveUp(t) ==
  /\ t \in waiting
  /\ waiting' = waiting \ {t}
  /\ UNCHANGED <<held, sending>>

Call(t) ==
  /\ sending[t] = "none" /\ t \notin waiting
  /\ \E kind \in {"one", "all", "thread"} :
       sending' = [sending EXCEPT ![t] = kind]
  /\ UNCHANGED <<held, waiting>>

Sent(t) == sending' = [sending EXCEPT ![t] = "none"] /\ UNCHANGED held

SignalOne(t) ==
  /\ sending[t] = "one" /\ Sent(t)
  /\ IF waiting = {} THEN UNCHANGED waiting
     ELSE \E u \in waiting : waiting' = waiting \ {u}

SignalAll(t) == sending[t] = "all" /\ Sent(t) /\ waiting' = {}

\* A thread that is named by the caller and may not be waiting.
SignalThread(t) ==
  /\ sending[t] = "thread" /\ Sent(t)
  /\ \E u \in Thread : waiting' = waiting \ {u}

Next ==
  \E t \in Thread :
    \/ Acquire(t) \/ Release(t) \/ Wait(t) \/ GiveUp(t)
    \/ Call(t) \/ SignalOne(t) \/ SignalAll(t) \/ SignalThread(t)

Spec == Init /\ [][Next]_monitor
============================================================================
