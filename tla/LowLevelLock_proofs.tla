------------------------ MODULE LowLevelLock_proofs ------------------------
(***************************************************************************)
(* Proofs about the low-level lock for any number of threads: what keeps   *)
(* it exclusive as long as neither of its two flaws strikes.               *)
(***************************************************************************)
EXTENDS LowLevelLock, TLAPS

\* The 1 stored by a try is remembered only until the next try.
StoredInv ==
  \A t \in Thread : stored[t] => pc[t] = "idle" /\ t \in TryThreads

IInv == TypeOK /\ StoredInv /\ HeldOnce

LEMMA InitHolds == Init => IInv
<1> SUFFICES ASSUME Init PROVE IInv
  OBVIOUS
<1>1. TypeOK
  <2>1. stray \in BOOLEAN /\ granted \in BOOLEAN
    BY Zenon DEF Init
  <2>2. word \in 0..2 /\ pc \in [Thread -> ControlPoint]
        /\ old \in [Thread -> 0..2]
    BY DEF Init, ControlPoint
  <2>3. again \in [Thread -> BOOLEAN] /\ stored \in [Thread -> BOOLEAN]
    BY DEF Init
  <2> QED
    BY <2>1, <2>2, <2>3 DEF TypeOK
<1>2. StoredInv /\ HeldOnce
  BY DEF Init, StoredInv, HeldOnce, Holds
<1> QED
  BY <1>1, <1>2 DEF IInv

\* The type invariant is preserved by every action.
LEMMA StepType ==
  ASSUME TypeOK, [Next]_vars
  PROVE  TypeOK'
<1> USE DEF TypeOK, ControlPoint, Goto
<1>1. ASSUME NEW t \in Thread, Lock(t) PROVE TypeOK'
  BY <1>1 DEF Lock, Exchanged
<1>2. ASSUME NEW t \in Thread, SpinLockTry(t) PROVE TypeOK'
  <2>1. granted' \in BOOLEAN
    BY <1>2, Zenon DEF SpinLockTry
  <2>2. word' \in 0..2 /\ pc' \in [Thread -> ControlPoint]
    BY <1>2 DEF SpinLockTry, Exchanged
  <2>3. stored' \in [Thread -> BOOLEAN]
    BY <1>2 DEF SpinLockTry
  <2> QED
    BY <1>2, <2>1, <2>2, <2>3 DEF SpinLockTry
<1>3. ASSUME NEW t \in Thread, MarkWaiting(t) PROVE TypeOK'
  BY <1>3 DEF MarkWaiting, Exchanged
<1>4. ASSUME NEW t \in Thread, FutexWait(t) PROVE TypeOK'
  BY <1>4 DEF FutexWait
<1>5. ASSUME NEW t \in Thread, TakeMarked(t) PROVE TypeOK'
  BY <1>5 DEF TakeMarked, Exchanged
<1>6. ASSUME NEW t \in Thread, Unlock(t) PROVE TypeOK'
  BY <1>6 DEF Unlock
<1>7. ASSUME NEW t \in Thread, ExchangeRead(t) PROVE TypeOK'
  BY <1>7 DEF ExchangeRead
<1>8. ASSUME NEW t \in Thread, ExchangeStore(t) PROVE TypeOK'
  <2>1. stray' \in BOOLEAN
    BY <1>8, Zenon DEF ExchangeStore
  <2>2. word' \in 0..2 /\ pc' \in [Thread -> ControlPoint]
    BY <1>8 DEF ExchangeStore, Exchanged
  <2>3. again' \in [Thread -> BOOLEAN]
    BY <1>8 DEF ExchangeStore
  <2> QED
    BY <1>8, <2>1, <2>2, <2>3 DEF ExchangeStore
<1>9. ASSUME NEW t \in Thread, Wake(t) PROVE TypeOK'
  BY <1>9 DEF Wake
<1>10. ASSUME NEW t \in Thread, Interrupt(t) PROVE TypeOK'
  BY <1>10 DEF Interrupt
<1>11. CASE UNCHANGED vars
  BY <1>11 DEF vars
<1> QED
  BY <1>1, <1>2, <1>3, <1>4, <1>5, <1>6, <1>7, <1>8, <1>9, <1>10, <1>11
  DEF Next, Acquire, Progress

\* Who holds the lock does not change in a step that leaves the word, the
\* history and the holders' program counters alone.
LEMMA SameHolders ==
  ASSUME HeldOnce, stray' = stray, granted' = granted,
         word' = 0 <=> word = 0,
         \A t \in Thread : Holds(t)' <=> Holds(t)
  PROVE  HeldOnce'
BY DEF HeldOnce

\* Thread t takes the lock when no thread holds it.
LEMMA TakesFree ==
  ASSUME HeldOnce, stray' = stray, granted' = granted,
         word = 0, word' # 0, NEW t \in Thread, Holds(t)',
         \A u \in Thread \ {t} : Holds(u)' <=> Holds(u)
  PROVE  HeldOnce'
BY DEF HeldOnce

LEMMA StepPreserves == IInv /\ [Next]_vars => IInv'
<1> SUFFICES ASSUME IInv, [Next]_vars PROVE IInv'
  OBVIOUS
<1> USE DEF IInv
<1>t. TypeOK'
  BY StepType
<1>0. /\ word \in 0..2 /\ pc \in [Thread -> ControlPoint]
      /\ again \in [Thread -> BOOLEAN] /\ stored \in [Thread -> BOOLEAN]
  BY DEF TypeOK
<1>1. ASSUME NEW t \in Thread, Lock(t) PROVE StoredInv' /\ HeldOnce'
  <2> USE <1>1 DEF Lock, Goto
  <2>1. StoredInv'
    BY <1>0 DEF StoredInv
  <2>2. \A u \in Thread \ {t} : Holds(u)' <=> Holds(u)
    BY <1>0 DEF Holds
  <2>3. ~Holds(t)
    BY DEF Holds, StoredInv
  <2>4. CASE word = 0
    <3>1. Holds(t)' /\ word' = 1
      BY <1>0, <2>4 DEF Holds, Exchanged
    <3> QED
      BY <2>1, <2>2, <2>4, <3>1, TakesFree
  <2>5. CASE word # 0
    <3>1. ~Holds(t)' /\ word' = word
      BY <1>0, <2>5 DEF Holds, Exchanged
    <3> QED
      BY <2>1, <2>2, <2>3, <3>1, SameHolders
  <2> QED
    BY <2>4, <2>5
<1>2. ASSUME NEW t \in Thread, SpinLockTry(t) PROVE StoredInv' /\ HeldOnce'
  <2> USE <1>2 DEF SpinLockTry, Goto
  <2>1. StoredInv'
    BY <1>0 DEF StoredInv
  <2>2. \A u \in Thread \ {t} : Holds(u)' <=> Holds(u)
    BY <1>0 DEF Holds
  <2>4. CASE word = 0
    <3>1. Holds(t)' /\ word' = 1
      BY <1>0, <2>4 DEF Holds, Exchanged
    <3>2. granted' = granted
      BY <2>4 DEF TypeOK
    <3> QED
      BY <2>1, <2>2, <2>4, <3>1, <3>2, TakesFree
  <2>5. CASE word # 0 /\ stored[t]
    <3>1. Holds(t)' /\ word' = word /\ Holds(t)
      BY <1>0, <2>5 DEF Holds, Exchanged
    <3>2. granted' = granted
      BY <2>5 DEF TypeOK
    <3> QED
      BY <2>1, <2>2, <3>1, <3>2, SameHolders
  <2>6. CASE word # 0 /\ ~stored[t]
    BY <2>1, <2>6 DEF HeldOnce
  <2> QED
    BY <2>4, <2>5, <2>6
<1>3. ASSUME NEW t \in Thread, MarkWaiting(t) PROVE StoredInv' /\ HeldOnce'
  <2> USE <1>3 DEF MarkWaiting, Goto
  <2>1. StoredInv'
    BY <1>0 DEF StoredInv
  <2>2. \A u \in Thread : Holds(u)' <=> Holds(u)
    BY <1>0 DEF Holds
  <2>3. word' = 0 <=> word = 0
    BY <1>0 DEF Exchanged
  <2> QED
    BY <2>1, <2>2, <2>3, SameHolders
<1>4. ASSUME NEW t \in Thread, FutexWait(t) PROVE StoredInv' /\ HeldOnce'
  <2> USE <1>4 DEF FutexWait, Goto
  <2>1. StoredInv'
    BY <1>0 DEF StoredInv
  <2>2. \A u \in Thread : Holds(u)' <=> Holds(u)
    BY <1>0 DEF Holds
  <2> QED
    BY <2>1, <2>2, SameHolders
<1>5. ASSUME NEW t \in Thread, TakeMarked(t) PROVE StoredInv' /\ HeldOnce'
  <2> USE <1>5 DEF TakeMarked, Goto
  <2>1. StoredInv'
    BY <1>0 DEF StoredInv
  <2>2. \A u \in Thread \ {t} : Holds(u)' <=> Holds(u)
    BY <1>0 DEF Holds
  <2>3. ~Holds(t)
    BY DEF Holds
  <2>4. CASE word = 0
    <3>1. Holds(t)' /\ word' = 2
      BY <1>0, <2>4 DEF Holds, Exchanged
    <3> QED
      BY <2>1, <2>2, <2>4, <3>1, TakesFree
  <2>5. CASE word # 0
    <3>1. ~Holds(t)' /\ word' = word
      BY <1>0, <2>5 DEF Holds, Exchanged
    <3> QED
      BY <2>1, <2>2, <2>3, <3>1, SameHolders
  <2> QED
    BY <2>4, <2>5
<1>6. ASSUME NEW t \in Thread, Unlock(t) PROVE StoredInv' /\ HeldOnce'
  <2> USE <1>6 DEF Unlock, Goto
  <2>1. StoredInv'
    BY <1>0 DEF StoredInv
  <2>2. \A u \in Thread : Holds(u)' <=> Holds(u)
    BY <1>0 DEF Holds
  <2> QED
    BY <2>1, <2>2, SameHolders
<1>7. ASSUME NEW t \in Thread, ExchangeRead(t) PROVE StoredInv' /\ HeldOnce'
  <2> USE <1>7 DEF ExchangeRead, Goto
  <2>1. StoredInv'
    BY <1>0 DEF StoredInv
  <2>2. \A u \in Thread : Holds(u)' <=> Holds(u)
    BY <1>0 DEF Holds
  <2> QED
    BY <2>1, <2>2, SameHolders
<1>8. ASSUME NEW t \in Thread, ExchangeStore(t) PROVE StoredInv' /\ HeldOnce'
  <2> USE <1>8 DEF ExchangeStore, Goto
  <2>1. StoredInv'
    BY <1>0 DEF StoredInv
  <2>2. \A u \in Thread \ {t} : Holds(u)' <=> Holds(u)
    BY <1>0 DEF Holds
  <2>3. CASE stray' \/ granted'
    BY <2>1, <2>3 DEF HeldOnce
  <2>4. CASE ~stray' /\ ~granted'
    <3>0. ~stray /\ ~granted
      BY <2>4
    <3>1. CASE word # 0 /\ word = old[t]
      <4>1. ~again[t] /\ word' = 0 /\ again'[t] = TRUE
        BY <1>0, <2>4, <3>1 DEF Exchanged
      <4>2. Holds(t) /\ ~Holds(t)'
        BY <1>0, <3>1, <4>1 DEF Holds
      <4> QED
        BY <2>1, <2>2, <3>0, <4>1, <4>2 DEF HeldOnce
    <3>2. CASE word = 0
      <4>1. word' = word
        BY <3>2 DEF Exchanged
      <4>2. ~Holds(t) /\ ~Holds(t)'
        BY <1>0, <3>0, <3>2 DEF Holds, HeldOnce
      <4>3. \A u \in Thread : Holds(u)' <=> Holds(u)
        BY <2>2, <4>2
      <4> QED
        BY <2>1, <2>4, <3>0, <4>1, <4>3 DEF HeldOnce
    <3>3. CASE word # 0 /\ word # old[t]
      <4>1. word' = word /\ again' = again
        BY <1>0, <3>3 DEF Exchanged
      <4>2. Holds(t)' <=> Holds(t)
        BY <1>0, <3>3, <4>1 DEF Holds
      <4>3. \A u \in Thread : Holds(u)' <=> Holds(u)
        BY <2>2, <4>2
      <4> QED
        BY <2>1, <2>4, <3>0, <4>1, <4>3 DEF HeldOnce
    <3> QED
      BY <3>1, <3>2, <3>3
  <2> QED
    BY <2>3, <2>4
<1>9. ASSUME NEW t \in Thread, Wake(t) PROVE StoredInv' /\ HeldOnce'
  <2> USE <1>9 DEF Wake, Goto
  <2>1. StoredInv'
    BY <1>0 DEF StoredInv
  <2>2. \A u \in Thread : Holds(u)' <=> Holds(u)
    BY <1>0 DEF Holds, StoredInv
  <2> QED
    BY <2>1, <2>2, SameHolders
<1>10. ASSUME NEW t \in Thread, Interrupt(t) PROVE StoredInv' /\ HeldOnce'
  <2> USE <1>10 DEF Interrupt, Goto
  <2>1. StoredInv'
    BY <1>0 DEF StoredInv
  <2>2. \A u \in Thread : Holds(u)' <=> Holds(u)
    BY <1>0 DEF Holds
  <2> QED
    BY <2>1, <2>2, SameHolders
<1>11. ASSUME UNCHANGED vars PROVE StoredInv' /\ HeldOnce'
  BY <1>11 DEF vars, StoredInv, HeldOnce, Holds
<1>12. StoredInv' /\ HeldOnce'
  BY <1>1, <1>2, <1>3, <1>4, <1>5, <1>6, <1>7, <1>8, <1>9, <1>10, <1>11
  DEF Next, Acquire, Progress
<1> QED
  BY <1>t, <1>12

---------------------------------------------------------------------------
LEMMA Invariance == Spec => []IInv
<1>1. Init => IInv
  BY InitHolds
<1>2. IInv /\ [Next]_vars => IInv'
  BY StepPreserves
<1> QED
  BY <1>1, <1>2, PTL DEF Spec

\* The futex word is 0, 1 or 2 whatever the threads do.
THEOREM TypeCorrect == Spec => []TypeOK
<1>1. IInv => TypeOK
  BY DEF IInv
<1> QED
  BY <1>1, Invariance, PTL

\* The lock is exclusive, and its word tells whether it is held, unless an
\* OSAtomicExchange stores twice or a try of a held lock succeeds: there is
\* no third way to lose it, for any number of threads.
THEOREM OnlyTwoWaysToLose == Spec => []HeldOnce
<1>1. IInv => HeldOnce
  BY DEF IInv
<1> QED
  BY <1>1, Invariance, PTL
=============================================================================
