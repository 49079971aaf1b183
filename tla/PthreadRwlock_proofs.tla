----------------------- MODULE PthreadRwlock_proofs -----------------------
(***************************************************************************)
(* Proofs about read-write locks, for any number of threads and any limit  *)
(* of read locks: the lock excludes whom it is to exclude, and nobody      *)
(* sleeps without a reason.  Both need what the program owes the library:  *)
(* no two threads race for the static initialization (~Racing).            *)
(***************************************************************************)
EXTENDS PthreadRwlock, FiniteSetTheorems, TLAPS

RwPlaces == {"idle", "r_wait", "r_woken", "w_wait", "w_woken", "i_set", "dead"}

RwLocks == [sig : {"init", "ready", "none"}, state : Int,
            owner : RwThread \cup {NOBODY}, blocked_writers : Int]

RwTypeOK ==
  /\ rwlock \in RwLocks
  /\ monitor \in RwThread \cup {NOBODY}
  /\ rwpc \in [RwThread -> RwPlaces]
  /\ reads \in [RwThread -> Nat]
  /\ writer \in SUBSET RwThread
  /\ mishap \in BOOLEAN

\* The read locks there are, the n-th of thread t as <<t, n>>: `state' is to be
\* their number.
Held == {p \in RwThread \X (Nat \ {0}) : p[2] <= reads[p[1]]}

\* The writers that count themselves in blocked_writers.
Blocked == {t \in RwThread : rwpc[t] \in {"w_wait", "w_woken"}}

\* The lock is read as often as `state' says, or written by its owner alone.
ReadInv == rwlock.state >= 0 => Cardinality(Held) = rwlock.state /\ writer = {}

WriteInv == rwlock.state < 0 => Held = {} /\ writer = {rwlock.owner}

\* A lock that is not initialized, or is being initialized, is not in use.
UnusedInv == rwlock.sig # "ready" => rwlock.state = 0 /\ \A t \in RwThread : rwpc[t] \in {"idle", "i_set"}

SettingInv ==
  \A t \in RwThread : rwpc[t] = "i_set" =>
    rwlock.state = 0 /\ monitor = NOBODY /\ \A u \in RwThread \ {t} : rwpc[u] = "idle"

LockInv == RwTypeOK /\ IsFiniteSet(Held) /\ ReadInv /\ WriteInv /\ UnusedInv /\ SettingInv

\* blocked_writers counts the writers that wait, as long as no wait was cancelled.
CountInv == ~mishap => IsFiniteSet(Blocked) /\ Cardinality(Blocked) = rwlock.blocked_writers

SleepInv == LockInv /\ CountInv /\ NoneSleepsForever
---------------------------------------------------------------------------
\* A read lock more, or less, is an element more, or less.
LEMMA OneMoreRead ==
  ASSUME RwTypeOK, NEW t \in RwThread, reads' = [reads EXCEPT ![t] = @ + 1]
  PROVE  Held' = Held \cup {<<t, reads[t] + 1>>} /\ <<t, reads[t] + 1>> \notin Held
<1>1. /\ reads \in [RwThread -> Nat]
      /\ reads[t] \in Nat
  BY DEF RwTypeOK, RwLocks
<1>2. <<t, reads[t] + 1>> \notin Held
  BY <1>1 DEF Held
<1>3. ASSUME NEW u \in RwThread, NEW n \in Nat \ {0}
      PROVE  n <= reads'[u] <=> n <= reads[u] \/ (u = t /\ n = reads[t] + 1)
  BY <1>1
<1>4. Held' = {p \in RwThread \X (Nat \ {0}) : p[2] <= reads'[p[1]]}
  BY DEF Held
<1>5. <<t, reads[t] + 1>> \in RwThread \X (Nat \ {0})
  BY <1>1
<1> QED
  BY <1>2, <1>3, <1>4, <1>5 DEF Held

LEMMA OneLessRead ==
  ASSUME RwTypeOK, NEW t \in RwThread, reads[t] > 0, reads' = [reads EXCEPT ![t] = @ - 1]
  PROVE  Held' = Held \ {<<t, reads[t]>>} /\ <<t, reads[t]>> \in Held
<1>1. /\ reads \in [RwThread -> Nat]
      /\ reads[t] \in Nat \ {0}
  BY DEF RwTypeOK, RwLocks
<1>2. <<t, reads[t]>> \in Held
  BY <1>1 DEF Held
<1>3. ASSUME NEW u \in RwThread, NEW n \in Nat \ {0}
      PROVE  n <= reads'[u] <=> n <= reads[u] /\ ~(u = t /\ n = reads[t])
  BY <1>1
<1>4. Held' = {p \in RwThread \X (Nat \ {0}) : p[2] <= reads'[p[1]]}
  BY DEF Held
<1> QED
  BY <1>2, <1>3, <1>4 DEF Held

\* Who holds a read lock is among the held ones.
LEMMA ReadersHold ==
  ASSUME RwTypeOK
  PROVE  Held = {} <=> \A t \in RwThread : reads[t] = 0
<1>1. ASSUME NEW t \in RwThread, reads[t] # 0
      PROVE  <<t, 1>> \in Held
  BY <1>1 DEF Held, RwTypeOK, RwLocks
<1>2. ASSUME NEW p \in Held
      PROVE  p[1] \in RwThread /\ reads[p[1]] # 0
  BY DEF Held, RwTypeOK, RwLocks
<1> QED
  BY <1>1, <1>2

\* Reading the lock, which is not written, keeps the count.
LEMMA ReadLockedCounts ==
  ASSUME RwTypeOK, IsFiniteSet(Held), ReadInv, WriteInv, NEW t \in RwThread,
         rwlock.state >= 0, ReadLocked(t), UNCHANGED writer
  PROVE  IsFiniteSet(Held)' /\ ReadInv' /\ WriteInv' /\ rwlock'.state >= 0
         /\ rwlock' \in RwLocks
         /\ reads' \in [RwThread -> Nat]
         /\ rwlock'.sig = rwlock.sig /\ rwlock'.blocked_writers = rwlock.blocked_writers
         /\ rwlock'.state > 0
<1>1. CASE rwlock.state = MAX_READ_LOCKS
  <2>1. UNCHANGED <<rwlock, reads>> /\ rwlock.state > 0
    BY <1>1, RwAssumption DEF ReadLocked
  <2> QED
    BY <2>1 DEF RwTypeOK, RwLocks, ReadInv, WriteInv, Held
<1>2. CASE rwlock.state # MAX_READ_LOCKS
  <2>1. /\ rwlock' = [rwlock EXCEPT !.state = @ + 1]
        /\ reads' = [reads EXCEPT ![t] = @ + 1]
    BY <1>2 DEF ReadLocked
  <2>2. rwlock'.state = rwlock.state + 1 /\ rwlock.state \in Int
    BY <2>1 DEF RwTypeOK, RwLocks
  <2>3. IsFiniteSet(Held') /\ Cardinality(Held') = Cardinality(Held) + 1
    <3>1. Held' = Held \cup {<<t, reads[t] + 1>>} /\ <<t, reads[t] + 1>> \notin Held
      BY <2>1, OneMoreRead
    <3> QED
      BY <3>1, FS_AddElement
  <2>4. Cardinality(Held) = rwlock.state /\ writer = {}
    BY DEF ReadInv
  <2>5. ReadInv' /\ WriteInv'
    BY <2>2, <2>3, <2>4 DEF ReadInv, WriteInv
  <2> QED
    BY <2>1, <2>2, <2>3, <2>5 DEF RwTypeOK, RwLocks
<1> QED
  BY <1>1, <1>2

\* The shape of rwpc after a step that moves one thread, or wakes up others.
LEMMA WakeShape ==
  ASSUME RwTypeOK, WakeWriter \/ WakeReaders \/ UNCHANGED rwpc
  PROVE  /\ rwpc' \in [RwThread -> RwPlaces]
         /\ \A u \in RwThread : rwpc'[u] = rwpc[u] \/ (rwpc[u] = "r_wait" /\ rwpc'[u] = "r_woken")
                                                   \/ (rwpc[u] = "w_wait" /\ rwpc'[u] = "w_woken")
<1>1. CASE WakeWriter
  <2>1. CASE \E u \in RwThread : rwpc[u] = "w_wait"
    BY <1>1, <2>1 DEF WakeWriter, RwGoto, RwTypeOK, RwLocks, RwPlaces
  <2>2. CASE ~\E u \in RwThread : rwpc[u] = "w_wait"
    BY <1>1, <2>2 DEF WakeWriter, RwTypeOK, RwLocks
  <2> QED
    BY <2>1, <2>2
<1>2. CASE WakeReaders
  BY <1>2 DEF WakeReaders, RwTypeOK, RwLocks, RwPlaces
<1>3. CASE UNCHANGED rwpc
  BY <1>3 DEF RwTypeOK, RwLocks
<1> QED
  BY <1>1, <1>2, <1>3

\* While the lock is being initialized only that goes on.
LEMMA NotWhileSetting ==
  ASSUME LockInv, ~Racing, NEW t \in RwThread, RwAt(t, "r_woken") \/ RwAt(t, "w_woken") \/ RwCalled(t)
  PROVE  /\ \A u \in RwThread : rwpc[u] # "i_set"
         /\ rwlock.sig = "ready"
<1>1. rwpc[t] # "i_set"
  BY DEF RwAt, RwCalled
<1>2. CASE RwCalled(t)
  BY <1>2 DEF RwCalled
<1>3. CASE rwpc[t] \in {"r_woken", "w_woken"}
  BY <1>3 DEF LockInv, SettingInv, UnusedInv
<1> QED
  BY <1>2, <1>3 DEF RwAt

LEMMA LockInit == RwInit => LockInv
<1> SUFFICES ASSUME RwInit PROVE LockInv
  OBVIOUS
<1> USE DEF RwInit, RwInitialized
<1>1. RwTypeOK
  <2>1. rwlock = [sig |-> "init", state |-> 0, owner |-> NOBODY, blocked_writers |-> 0]
    OBVIOUS
  <2>2. rwlock \in RwLocks
    BY <2>1 DEF RwLocks
  <2>3. rwpc \in [RwThread -> RwPlaces] /\ reads \in [RwThread -> Nat]
    BY DEF RwPlaces
  <2> QED
    BY <2>2, <2>3 DEF RwTypeOK, RwLocks
<1>2. Held = {}
  BY <1>1, ReadersHold
<1>3. IsFiniteSet(Held) /\ Cardinality(Held) = 0
  BY <1>2, FS_EmptySet
<1>4. ReadInv /\ WriteInv
  BY <1>2, <1>3 DEF ReadInv, WriteInv
<1>5. UnusedInv /\ SettingInv
  BY DEF UnusedInv, SettingInv
<1> QED
  BY <1>1, <1>3, <1>4, <1>5 DEF LockInv

LEMMA LockStep == ASSUME ~Racing PROVE LockInv /\ [RwNext]_rwVars => LockInv'
<1> SUFFICES ASSUME LockInv, [RwNext]_rwVars PROVE LockInv'
  OBVIOUS
<1> USE DEF LockInv
<1>1. ASSUME NEW t \in RwThread, RdLock(t) PROVE LockInv'
  <2> RwAt(t, "r_woken") /\ UNCHANGED <<monitor, writer, mishap>>
    BY <1>1 DEF RdLock
  <2> (\A u \in RwThread : rwpc[u] # "i_set") /\ rwlock.sig = "ready"
    BY NotWhileSetting
  <2>1. CASE UNCHANGED <<rwlock, rwpc, reads>>
    BY <2>1 DEF RwTypeOK, RwLocks, Held, ReadInv, WriteInv, UnusedInv, SettingInv
  <2>2. CASE RwGoto(t, "r_wait") /\ UNCHANGED <<rwlock, reads>>
    BY <2>2 DEF RwGoto, RwTypeOK, RwLocks, RwPlaces, Held, ReadInv, WriteInv, UnusedInv, SettingInv
  <2>3. CASE ~ReaderBlocks(rwlock, t) /\ ~(rwlock.state < 0 /\ rwlock.owner = t) /\ ReadLocked(t) /\ RwGoto(t, "idle")
    <3>1. rwlock.state >= 0
      BY <2>3 DEF ReaderBlocks, RwTypeOK, RwLocks
    <3>2. RwTypeOK' /\ IsFiniteSet(Held)' /\ ReadInv' /\ WriteInv' /\ rwlock'.sig = "ready"
      BY <2>3, <3>1, ReadLockedCounts DEF RwGoto, RwTypeOK, RwLocks, RwPlaces
    <3> QED
      BY <2>3, <3>2 DEF RwGoto, RwTypeOK, RwLocks, UnusedInv, SettingInv
  <2> QED
    BY <1>1, <2>1, <2>2, <2>3 DEF RdLock
<1>2. ASSUME NEW t \in RwThread, TryRdLock(t) PROVE LockInv'
  <2> RwCalled(t) /\ UNCHANGED <<monitor, rwpc, writer, mishap>>
    BY <1>2 DEF TryRdLock
  <2> (\A u \in RwThread : rwpc[u] # "i_set") /\ rwlock.sig = "ready"
    BY NotWhileSetting
  <2>1. CASE UNCHANGED <<rwlock, reads>>
    BY <2>1 DEF RwTypeOK, RwLocks, Held, ReadInv, WriteInv, UnusedInv, SettingInv
  <2>2. CASE ~(rwlock.state < 0) /\ ReadLocked(t)
    <3>1. rwlock.state >= 0
      BY <2>2 DEF RwTypeOK, RwLocks
    <3>2. RwTypeOK' /\ IsFiniteSet(Held)' /\ ReadInv' /\ WriteInv' /\ rwlock'.sig = "ready"
      BY <2>2, <3>1, ReadLockedCounts DEF RwTypeOK, RwLocks
    <3> QED
      BY <3>2 DEF UnusedInv, SettingInv
  <2> QED
    BY <1>2, <2>1, <2>2 DEF TryRdLock
<1>3. ASSUME NEW t \in RwThread, NEW l, rwlock.state = 0, rwlock.sig = "ready",
             l = rwlock \/ l = [rwlock EXCEPT !.blocked_writers = @ - 1],
             WriteLocked(t, l), UNCHANGED <<monitor, reads, mishap>>,
             \A u \in RwThread : rwpc[u] # "i_set", RwGoto(t, "idle") \/ UNCHANGED rwpc
      PROVE  LockInv'
  <2>1. RwTypeOK' /\ rwlock'.state = -1 /\ rwlock'.owner = t /\ rwlock'.sig = "ready"
    <3>1. rwlock' = [l EXCEPT !.state = -1, !.owner = t] /\ l \in RwLocks /\ l.sig = "ready"
      <4>1. rwlock \in RwLocks
        BY DEF RwTypeOK, RwLocks
      <4>2. CASE l = rwlock
        BY <1>3, <4>1, <4>2 DEF WriteLocked
      <4>3. CASE l = [rwlock EXCEPT !.blocked_writers = @ - 1]
        <5>1. l \in RwLocks /\ l.sig = rwlock.sig
          BY <4>1, <4>3 DEF RwLocks
        <5> QED
          BY <1>3, <5>1 DEF WriteLocked
      <4> QED
        BY <1>3, <4>2, <4>3
    <3>2. rwpc' \in [RwThread -> RwPlaces] /\ writer' \in SUBSET RwThread
      BY <1>3 DEF WriteLocked, RwTypeOK, RwLocks, RwGoto, RwPlaces
    <3>3. /\ rwlock' \in RwLocks
          /\ rwlock'.state = -1 /\ rwlock'.owner = t /\ rwlock'.sig = "ready"
      <4>1. rwlock' = [sig |-> l.sig, state |-> -1, owner |-> t, blocked_writers |-> l.blocked_writers]
        BY <3>1 DEF RwLocks
      <4> QED
        BY <3>1, <4>1 DEF RwLocks
    <3> QED
      BY <1>3, <3>2, <3>3 DEF RwTypeOK, RwLocks
  <2>2. Held = {} /\ writer = {}
    BY <1>3, FS_EmptySet DEF ReadInv
  <2>3. Held' = {} /\ writer' = {t}
    BY <1>3, <2>2 DEF WriteLocked, Held
  <2>4. ReadInv' /\ WriteInv' /\ IsFiniteSet(Held)'
    BY <2>1, <2>3, FS_EmptySet DEF ReadInv, WriteInv
  <2> QED
    BY <1>3, <2>1, <2>4 DEF UnusedInv, SettingInv, RwGoto, RwTypeOK, RwLocks
<1>4. ASSUME NEW t \in RwThread, TryWrLock(t) PROVE LockInv'
  <2> RwCalled(t) /\ UNCHANGED <<monitor, rwpc, reads, mishap>>
    BY <1>4 DEF TryWrLock
  <2> (\A u \in RwThread : rwpc[u] # "i_set") /\ rwlock.sig = "ready"
    BY NotWhileSetting
  <2>1. CASE UNCHANGED <<rwlock, writer>>
    BY <2>1 DEF RwTypeOK, RwLocks, Held, ReadInv, WriteInv, UnusedInv, SettingInv
  <2>2. CASE rwlock.state = 0 /\ WriteLocked(t, rwlock)
    BY <1>3, <2>2
  <2> QED
    BY <1>4, <2>1, <2>2 DEF TryWrLock
<1>5. ASSUME NEW t \in RwThread, WrLock(t) PROVE LockInv'
  <2> DEFINE l == IF rwpc[t] = "idle" THEN rwlock ELSE [rwlock EXCEPT !.blocked_writers = @ - 1]
  <2> RwAt(t, "w_woken") /\ UNCHANGED <<monitor, reads, mishap>>
    BY <1>5 DEF WrLock
  <2> (\A u \in RwThread : rwpc[u] # "i_set") /\ rwlock.sig = "ready"
    BY NotWhileSetting
  <2>1. CASE UNCHANGED <<rwlock, rwpc, writer>>
    BY <2>1 DEF RwTypeOK, RwLocks, Held, ReadInv, WriteInv, UnusedInv, SettingInv
  <2>2. CASE /\ rwlock' = [l EXCEPT !.blocked_writers = @ + 1]
             /\ RwGoto(t, "w_wait") /\ UNCHANGED writer
    <3>1. RwTypeOK' /\ rwlock'.state = rwlock.state /\ rwlock'.owner = rwlock.owner /\ rwlock'.sig = rwlock.sig
      BY <2>2 DEF RwTypeOK, RwLocks, RwGoto, RwPlaces
    <3> QED
      BY <2>2, <3>1 DEF RwTypeOK, RwLocks, RwGoto, Held, ReadInv, WriteInv, UnusedInv, SettingInv
  <2>3. CASE l.state = 0 /\ WriteLocked(t, l) /\ RwGoto(t, "idle")
    <3>1. rwlock.state = 0
      BY <2>3 DEF RwTypeOK, RwLocks
    <3> QED
      BY <1>3, <2>3, <3>1
  <2> QED
    BY <1>5, <2>1, <2>2, <2>3 DEF WrLock
<1>6. ASSUME NEW t \in RwThread, RwUnlock(t) PROVE LockInv'
  <2> RwCalled(t) /\ rwlock.sig = "ready" /\ UNCHANGED <<monitor, mishap>>
    BY <1>6 DEF RwUnlock
  <2> \A u \in RwThread : rwpc[u] # "i_set"
    BY NotWhileSetting
  <2>1. CASE UnlockRead(t)
    <3>1. /\ rwlock.state > 0 /\ reads[t] > 0
          /\ rwlock' = [rwlock EXCEPT !.state = @ - 1]
          /\ reads' = [reads EXCEPT ![t] = @ - 1]
          /\ UNCHANGED writer
          /\ WakeWriter \/ UNCHANGED rwpc
      BY <2>1 DEF UnlockRead
    <3>2. /\ rwpc' \in [RwThread -> RwPlaces]
          /\ \A u \in RwThread : rwpc'[u] # "i_set"
      BY <3>1, WakeShape
    <3>3. RwTypeOK' /\ rwlock'.state = rwlock.state - 1 /\ rwlock'.sig = "ready"
      <4>1. /\ rwlock' \in RwLocks
            /\ rwlock'.state = rwlock.state - 1 /\ rwlock'.sig = "ready"
        BY <3>1 DEF RwTypeOK, RwLocks
      <4>2. reads' \in [RwThread -> Nat] /\ writer' \in SUBSET RwThread
        BY <3>1 DEF RwTypeOK, RwLocks
      <4> QED
        BY <3>2, <4>1, <4>2 DEF RwTypeOK, RwLocks
    <3>4. Held' = Held \ {<<t, reads[t]>>} /\ <<t, reads[t]>> \in Held
      BY <3>1, OneLessRead
    <3>5. IsFiniteSet(Held') /\ Cardinality(Held') = Cardinality(Held) - 1
      BY <3>4, FS_RemoveElement
    <3>6. ReadInv' /\ WriteInv'
      BY <3>1, <3>3, <3>5 DEF ReadInv, WriteInv, RwTypeOK, RwLocks
    <3> QED
      BY <3>2, <3>3, <3>5, <3>6 DEF UnusedInv, SettingInv
  <2>2. CASE UnlockWrite(t)
    <3>1. /\ rwlock.state < 0 /\ t \in writer
          /\ rwlock' = [rwlock EXCEPT !.state = 0, !.owner = NOBODY]
          /\ writer' = writer \ {t} /\ UNCHANGED reads
          /\ WakeWriter \/ WakeReaders
      BY <2>2 DEF UnlockWrite
    <3>2. /\ rwpc' \in [RwThread -> RwPlaces]
          /\ \A u \in RwThread : rwpc'[u] # "i_set"
      BY <3>1, WakeShape
    <3>3. RwTypeOK' /\ rwlock'.state = 0 /\ rwlock'.sig = "ready"
      <4>1. /\ rwlock' \in RwLocks
            /\ rwlock'.state = 0 /\ rwlock'.sig = "ready"
        <5>1. rwlock' = [sig |-> rwlock.sig, state |-> 0, owner |-> NOBODY,
                         blocked_writers |-> rwlock.blocked_writers]
          BY <3>1 DEF RwTypeOK, RwLocks
        <5> QED
          BY <5>1 DEF RwTypeOK, RwLocks
      <4>2. reads' \in [RwThread -> Nat] /\ writer' \in SUBSET RwThread
        BY <3>1 DEF RwTypeOK, RwLocks
      <4> QED
        BY <3>2, <4>1, <4>2 DEF RwTypeOK, RwLocks
    <3>4. Held' = {} /\ writer' = {}
      BY <3>1 DEF WriteInv, Held
    <3>5. ReadInv' /\ WriteInv' /\ IsFiniteSet(Held')
      BY <3>3, <3>4, FS_EmptySet DEF ReadInv, WriteInv
    <3> QED
      BY <3>2, <3>3, <3>5 DEF UnusedInv, SettingInv
  <2> QED
    BY <1>6, <2>1, <2>2 DEF RwUnlock
<1>7. ASSUME NEW t \in RwThread, SpuriousWake(t) \/ WaitFails(t) \/ WaitCancelled(t) PROVE LockInv'
  <2>1. /\ rwpc[t] \in {"r_wait", "w_wait"}
        /\ rwlock' = rwlock \/ rwlock' = [rwlock EXCEPT !.blocked_writers = @ - 1]
        /\ UNCHANGED <<reads, writer>>
    BY <1>7 DEF SpuriousWake, WaitFails, WaitCancelled
  <2>2. RwTypeOK' /\ \A u \in RwThread : rwpc'[u] = "i_set" => rwpc[u] = "i_set"
    <3>1. rwlock' \in RwLocks
      BY <2>1 DEF RwTypeOK, RwLocks
    <3>2. /\ rwpc' \in [RwThread -> RwPlaces]
          /\ \A u \in RwThread : rwpc'[u] = "i_set" => rwpc[u] = "i_set"
          /\ monitor' \in RwThread \cup {NOBODY} /\ mishap' \in BOOLEAN
      BY <1>7 DEF SpuriousWake, WaitFails, WaitCancelled, RwGoto, RwTypeOK, RwLocks, RwPlaces
    <3> QED
      BY <2>1, <3>1, <3>2 DEF RwTypeOK, RwLocks
  <2>3. (\A u \in RwThread : rwpc[u] # "i_set") /\ rwlock.sig = "ready"
    BY <2>1 DEF SettingInv, UnusedInv
  <2>4. /\ rwlock'.state = rwlock.state /\ rwlock'.owner = rwlock.owner
        /\ rwlock'.sig = rwlock.sig
    BY <2>1 DEF RwTypeOK, RwLocks
  <2> QED
    BY <2>1, <2>2, <2>3, <2>4 DEF Held, ReadInv, WriteInv, UnusedInv, SettingInv
<1>8. ASSUME NEW t \in RwThread, RwDestroy(t) PROVE LockInv'
  <2>1. /\ \A u \in RwThread : rwpc[u] = "idle"
        /\ UNCHANGED <<monitor, rwpc, reads, writer, mishap>>
        /\ rwlock' = rwlock \/ (rwlock.state = 0 /\ rwlock' = [rwlock EXCEPT !.sig = "none"])
    BY <1>8 DEF RwDestroy, RwUnused
  <2>2. RwTypeOK' /\ rwlock'.state = rwlock.state /\ rwlock'.owner = rwlock.owner
    BY <2>1 DEF RwTypeOK, RwLocks
  <2> QED
    BY <2>1, <2>2 DEF Held, ReadInv, WriteInv, UnusedInv, SettingInv
<1>9. ASSUME NEW t \in RwThread, InitCheck(t) PROVE LockInv'
  <2>1. /\ \A u \in RwThread : rwpc[u] = "idle"
        /\ monitor = NOBODY /\ rwpc' = [rwpc EXCEPT ![t] = "i_set"]
        /\ ~(rwlock.sig = "ready" /\ rwlock.state # 0)
        /\ UNCHANGED <<rwlock, monitor, reads, writer, mishap>>
    BY <1>9 DEF InitCheck, RwUnused, RwGoto
  <2> QED
    BY <2>1 DEF RwTypeOK, RwLocks, RwPlaces, Held, ReadInv, WriteInv, UnusedInv, SettingInv
<1>10. ASSUME NEW t \in RwThread, InitSet(t) PROVE LockInv'
  <2>1. /\ rwpc[t] = "i_set" /\ rwlock' = RwInitialized /\ rwpc' = [rwpc EXCEPT ![t] = "idle"]
        /\ UNCHANGED <<monitor, reads, writer, mishap>>
    BY <1>10 DEF InitSet, RwGoto
  <2>2. rwlock.state = 0 /\ \A u \in RwThread \ {t} : rwpc[u] = "idle"
    BY <2>1 DEF SettingInv
  <2>3. RwTypeOK' /\ rwlock'.state = 0 /\ rwlock'.sig = "ready"
    BY <2>1 DEF RwTypeOK, RwLocks, RwInitialized, RwPlaces
  <2> QED
    BY <2>1, <2>2, <2>3 DEF RwTypeOK, RwLocks, Held, ReadInv, WriteInv, UnusedInv, SettingInv
<1>11. CASE UNCHANGED rwVars
  BY <1>11 DEF rwVars, RwTypeOK, RwLocks, Held, ReadInv, WriteInv, UnusedInv, SettingInv
<1> QED
  BY <1>1, <1>2, <1>4, <1>5, <1>6, <1>7, <1>8, <1>9, <1>10, <1>11 DEF RwNext

---------------------------------------------------------------------------
\* What LockInv says of the readers and the writer.
LEMMA LockExcludes == ASSUME LockInv PROVE RwExclusion
<1> DEFINE readers == {t \in RwThread : reads[t] > 0}
<1> USE DEF LockInv
<1>1. Held = {} <=> readers = {}
  BY ReadersHold DEF RwTypeOK
<1>2. rwlock.state \in Int
  BY DEF RwTypeOK, RwLocks
<1>3. CASE rwlock.state < 0
  <2>1. Held = {} /\ writer = {rwlock.owner}
    BY <1>3 DEF WriteInv
  <2>2. Cardinality(writer) = 1
    BY <2>1, FS_Singleton
  <2>3. rwlock.sig = "ready"
    BY <1>3 DEF UnusedInv
  <2> QED
    BY <1>1, <1>2, <1>3, <2>1, <2>2, <2>3 DEF RwExclusion
<1>4. CASE rwlock.state >= 0
  <2>1. Cardinality(Held) = rwlock.state /\ writer = {}
    BY <1>4 DEF ReadInv
  <2>2. Held = {} <=> rwlock.state = 0
    BY <2>1, FS_EmptySet
  <2>3. Cardinality(writer) = 0
    BY <2>1, FS_EmptySet
  <2>4. readers # {} => rwlock.sig = "ready"
    BY <1>1, <2>2 DEF UnusedInv
  <2> QED
    BY <1>1, <1>2, <1>4, <2>1, <2>2, <2>3, <2>4 DEF RwExclusion
<1> QED
  BY <1>2, <1>3, <1>4

\* Read-write locks exclude whom they are to exclude (core/pthread_rwlock.c,
\* rdlock to unlock), for any number of threads and with waits that end
\* early, fail or are cancelled, if threads do not race for the static
\* initialization.
THEOREM RwLockExcludes == ASSUME ~Racing PROVE RwSpec => []RwExclusion
<1>1. RwInit => LockInv
  BY LockInit
<1>2. LockInv /\ [RwNext]_rwVars => LockInv'
  BY LockStep
<1>3. LockInv => RwExclusion
  BY LockExcludes
<1> QED
  BY <1>1, <1>2, <1>3, PTL DEF RwSpec

---------------------------------------------------------------------------
\* Who is woken up while he waits to write still waits to write.
LEMMA WakeKeepsBlocked ==
  ASSUME RwTypeOK, WakeWriter \/ WakeReaders \/ UNCHANGED rwpc
  PROVE  Blocked' = Blocked
BY WakeShape DEF Blocked

LEMMA SleepInit == RwInit => SleepInv
<1> SUFFICES ASSUME RwInit PROVE SleepInv
  OBVIOUS
<1>1. LockInv
  BY LockInit
<1>2. Blocked = {} /\ rwlock.blocked_writers = 0
  BY DEF RwInit, Blocked, RwInitialized
<1>3. CountInv
  BY <1>2, FS_EmptySet DEF CountInv
<1>4. NoneSleepsForever
  BY DEF RwInit, NoneSleepsForever
<1> QED
  BY <1>1, <1>3, <1>4 DEF SleepInv

LEMMA SleepStep == ASSUME ~Racing PROVE SleepInv /\ [RwNext]_rwVars => SleepInv'
<1> SUFFICES ASSUME SleepInv, [RwNext]_rwVars PROVE SleepInv'
  OBVIOUS
<1>a. LockInv /\ RwTypeOK /\ LockInv'
  BY LockStep DEF SleepInv, LockInv
<1>b. ASSUME UNCHANGED rwVars PROVE CountInv' /\ NoneSleepsForever'
  BY <1>b DEF rwVars, SleepInv, CountInv, Blocked, NoneSleepsForever
<1>c. ASSUME ~mishap' , mishap' = mishap
      PROVE  /\ IsFiniteSet(Blocked) /\ Cardinality(Blocked) = rwlock.blocked_writers
             /\ rwlock.blocked_writers \in Nat
             /\ Blocked = {} <=> rwlock.blocked_writers = 0
             /\ (\E u \in RwThread : rwpc[u] = "r_wait") =>
                  rwlock.state < 0 \/ rwlock.blocked_writers > 0
             /\ (\E u \in RwThread : rwpc[u] = "w_wait") =>
                  rwlock.state # 0 \/ \E u \in RwThread : rwpc[u] = "w_woken"
  <2>1. IsFiniteSet(Blocked) /\ Cardinality(Blocked) = rwlock.blocked_writers
    BY <1>c DEF SleepInv, CountInv
  <2>2. rwlock.blocked_writers \in Nat /\ (Blocked = {} <=> rwlock.blocked_writers = 0)
    BY <2>1, FS_EmptySet, FS_CardinalityType
  <2> QED
    BY <1>c, <2>1, <2>2 DEF SleepInv, NoneSleepsForever
<1>1. ASSUME NEW t \in RwThread, ~mishap, mishap' = mishap, rwlock.state >= 0,
             rwlock.blocked_writers <= 0, ReadLocked(t), RwGoto(t, "idle") \/ UNCHANGED rwpc
      PROVE  CountInv' /\ NoneSleepsForever'
  <2>1. Blocked = {} /\ \A u \in RwThread : rwpc[u] # "r_wait"
    BY <1>1, <1>c, <1>a DEF RwTypeOK, RwLocks
  <2>2. Blocked' = {} /\ \A u \in RwThread : rwpc'[u] \notin {"r_wait", "w_wait"}
    BY <1>1, <1>a, <2>1 DEF RwGoto, RwTypeOK, Blocked
  <2>3. rwlock'.blocked_writers = rwlock.blocked_writers
    BY <1>1, <1>a DEF ReadLocked, RwTypeOK, RwLocks
  <2> QED
    BY <1>1, <1>c, <2>1, <2>2, <2>3, FS_EmptySet DEF CountInv, NoneSleepsForever
<1>2. ASSUME NEW t \in RwThread, ~mishap', RdLock(t) PROVE CountInv' /\ NoneSleepsForever'
  <2> mishap' = mishap
    BY <1>2 DEF RdLock
  <2>1. CASE UNCHANGED <<rwlock, rwpc, reads>>
    BY <1>2, <2>1, <1>b DEF RdLock, rwVars
  <2>2. CASE RwGoto(t, "r_wait") /\ ReaderBlocks(rwlock, t) /\ UNCHANGED rwlock
    <3>1. rwpc[t] \in {"idle", "r_woken"}
      BY <1>2 DEF RdLock, RwAt, RwCalled
    <3>2. /\ Blocked' = Blocked
          /\ \A u \in RwThread : rwpc'[u] \in {"w_wait", "w_woken"} => rwpc'[u] = rwpc[u]
          /\ \A u \in RwThread : rwpc[u] \in {"w_wait", "w_woken"} => rwpc'[u] = rwpc[u]
      BY <1>a, <2>2, <3>1 DEF RwGoto, RwTypeOK, Blocked
    <3>3. rwlock.state < 0 \/ rwlock.blocked_writers > 0
      BY <2>2 DEF ReaderBlocks
    <3> QED
      BY <1>2, <1>c, <2>2, <3>2, <3>3 DEF CountInv, NoneSleepsForever
  <2>3. CASE ~ReaderBlocks(rwlock, t) /\ ~(rwlock.state < 0 /\ rwlock.owner = t) /\ ReadLocked(t) /\ RwGoto(t, "idle")
    <3>1. rwlock.state >= 0 /\ rwlock.blocked_writers <= 0
      BY <1>a, <2>3 DEF ReaderBlocks, RwTypeOK, RwLocks
    <3> QED
      BY <1>1, <1>2, <2>3, <3>1
  <2> QED
    BY <1>2, <2>1, <2>2, <2>3 DEF RdLock
<1>3. ASSUME NEW t \in RwThread, ~mishap', TryRdLock(t) PROVE CountInv' /\ NoneSleepsForever'
  <2>1. CASE UNCHANGED <<rwlock, reads>>
    BY <1>3, <2>1, <1>b DEF TryRdLock, rwVars
  <2>2. CASE ~(rwlock.blocked_writers > 0 \/ rwlock.state < 0) /\ ReadLocked(t)
    <3>1. rwlock.state >= 0 /\ rwlock.blocked_writers <= 0
      BY <1>a, <2>2 DEF RwTypeOK, RwLocks
    <3> QED
      BY <1>1, <1>3, <2>2, <3>1 DEF TryRdLock
  <2> QED
    BY <1>3, <2>1, <2>2 DEF TryRdLock
<1>4. ASSUME rwlock'.state < 0, CountInv' PROVE NoneSleepsForever'
  BY <1>4 DEF NoneSleepsForever
<1>5. ASSUME NEW t \in RwThread, ~mishap', TryWrLock(t) PROVE CountInv' /\ NoneSleepsForever'
  <2>1. CASE UNCHANGED <<rwlock, writer>>
    BY <1>5, <2>1, <1>b DEF TryWrLock, rwVars
  <2>2. CASE WriteLocked(t, rwlock)
    <3>1. rwlock'.state < 0 /\ rwlock'.blocked_writers = rwlock.blocked_writers
      BY <1>a, <2>2 DEF WriteLocked, RwTypeOK, RwLocks
    <3>2. Blocked' = Blocked /\ mishap' = mishap
      BY <1>5 DEF TryWrLock, Blocked
    <3> QED
      BY <1>4, <1>5, <1>c, <3>1, <3>2 DEF CountInv
  <2> QED
    BY <1>5, <2>1, <2>2 DEF TryWrLock
<1>6. ASSUME NEW t \in RwThread, ~mishap', WrLock(t) PROVE CountInv' /\ NoneSleepsForever'
  <2> DEFINE l == IF rwpc[t] = "idle" THEN rwlock ELSE [rwlock EXCEPT !.blocked_writers = @ - 1]
             others == Blocked \ {t}
  <2> mishap' = mishap
    BY <1>6 DEF WrLock
  <2>1. CASE UNCHANGED <<rwlock, rwpc, writer>>
    BY <1>6, <2>1, <1>b DEF WrLock, rwVars
  <2>2. /\ l.state = rwlock.state /\ l.blocked_writers \in Nat /\ l \in RwLocks
        /\ IsFiniteSet(others) /\ Cardinality(others) = l.blocked_writers
    <3>1. CASE rwpc[t] = "idle"
      <4>1. others = Blocked
        BY <3>1 DEF Blocked
      <4> QED
        BY <1>a, <1>6, <1>c, <3>1, <4>1 DEF RwTypeOK
    <3>2. CASE rwpc[t] = "w_woken"
      <4>1. t \in Blocked
        BY <3>2 DEF Blocked
      <4>2. IsFiniteSet(others) /\ Cardinality(others) = rwlock.blocked_writers - 1
        BY <1>6, <1>c, <4>1, FS_RemoveElement
      <4>3. /\ l.state = rwlock.state /\ l.blocked_writers = rwlock.blocked_writers - 1
            /\ l \in RwLocks
        BY <1>a, <3>2 DEF RwTypeOK, RwLocks
      <4>4. rwlock.blocked_writers - 1 \in Nat
        BY <4>2, FS_CardinalityType
      <4> QED
        BY <4>2, <4>3, <4>4
    <3> QED
      BY <1>6, <3>1, <3>2 DEF WrLock, RwAt, RwCalled
  <2>3. CASE /\ l.state # 0 /\ rwlock' = [l EXCEPT !.blocked_writers = @ + 1]
             /\ RwGoto(t, "w_wait")
    <3>1. Blocked' = others \cup {t} /\ t \notin others
      BY <1>a, <2>3 DEF RwGoto, RwTypeOK, Blocked
    <3>2. rwlock'.blocked_writers = l.blocked_writers + 1 /\ rwlock'.state = rwlock.state /\ rwlock.state # 0
      BY <2>2, <2>3 DEF RwLocks
    <3>3. IsFiniteSet(Blocked') /\ Cardinality(Blocked') = rwlock'.blocked_writers
      BY <2>2, <3>1, <3>2, FS_AddElement
    <3> QED
      BY <2>2, <3>2, <3>3 DEF CountInv, NoneSleepsForever
  <2>4. CASE WriteLocked(t, l) /\ RwGoto(t, "idle")
    <3>1. Blocked' = others
      BY <1>a, <2>4 DEF RwGoto, RwTypeOK, Blocked
    <3>2. rwlock'.blocked_writers = l.blocked_writers /\ rwlock'.state < 0
      BY <2>2, <2>4 DEF WriteLocked, RwLocks
    <3> QED
      BY <1>4, <2>2, <3>1, <3>2 DEF CountInv
  <2> QED
    BY <1>6, <2>1, <2>3, <2>4 DEF WrLock
<1>7. ASSUME NEW t \in RwThread, ~mishap', RwUnlock(t) PROVE CountInv' /\ NoneSleepsForever'
  <2> mishap' = mishap
    BY <1>7 DEF RwUnlock
  <2>1. WakeWriter \/ WakeReaders \/ UNCHANGED rwpc
    BY <1>7 DEF RwUnlock, UnlockRead, UnlockWrite
  <2>2. /\ Blocked' = Blocked
        /\ \A u \in RwThread : rwpc'[u] = rwpc[u] \/ rwpc'[u] \in {"r_woken", "w_woken"}
    BY <1>a, <2>1, WakeKeepsBlocked, WakeShape
  <2>3. ASSUME WakeWriter, NEW u \in RwThread, rwpc'[u] = "w_wait"
        PROVE  \E v \in RwThread : rwpc'[v] = "w_woken"
    BY <1>a, <2>2, <2>3 DEF WakeWriter, RwGoto, RwTypeOK
  <2>4. ASSUME NEW u \in RwThread, rwpc'[u] = "w_wait"
        PROVE  rwlock.blocked_writers > 0
    BY <1>7, <1>c, <2>2, <2>4 DEF Blocked
  <2>5. CASE UnlockRead(t)
    <3>1. /\ rwlock.state > 0 /\ rwlock'.state = rwlock.state - 1
          /\ rwlock'.blocked_writers = rwlock.blocked_writers
      BY <1>a, <2>5 DEF UnlockRead, RwTypeOK, RwLocks
    <3>2. ASSUME NEW u \in RwThread, rwpc'[u] = "w_wait"
          PROVE  rwlock'.state # 0 \/ \E v \in RwThread : rwpc'[v] = "w_woken"
      <4>1. CASE rwlock.state = 1
        BY <2>3, <2>4, <2>5, <3>2, <4>1 DEF UnlockRead
      <4>2. CASE rwlock.state # 1
        BY <1>a, <3>1, <4>2 DEF RwTypeOK, RwLocks
      <4> QED
        BY <4>1, <4>2
    <3>3. ASSUME NEW u \in RwThread, rwpc'[u] = "r_wait"
          PROVE  rwlock'.blocked_writers > 0
      BY <1>7, <1>a, <1>c, <2>2, <3>1, <3>3 DEF RwTypeOK, RwLocks
    <3> QED
      BY <1>7, <1>c, <2>2, <3>1, <3>2, <3>3 DEF CountInv, NoneSleepsForever
  <2>6. CASE UnlockWrite(t)
    <3>1. rwlock'.state = 0 /\ rwlock'.blocked_writers = rwlock.blocked_writers
      BY <1>a, <2>6 DEF UnlockWrite, RwTypeOK, RwLocks
    <3>2. CASE rwlock.blocked_writers > 0
      BY <1>7, <1>c, <2>2, <2>3, <2>6, <3>1, <3>2 DEF UnlockWrite, CountInv, NoneSleepsForever
    <3>3. CASE ~(rwlock.blocked_writers > 0)
      <4>1. \A u \in RwThread : rwpc'[u] \notin {"r_wait", "w_wait"}
        BY <2>4, <2>6, <3>3 DEF UnlockWrite, WakeReaders
      <4> QED
        BY <1>7, <1>c, <2>2, <3>1, <4>1 DEF CountInv, NoneSleepsForever
    <3> QED
      BY <3>2, <3>3
  <2> QED
    BY <1>7, <2>5, <2>6 DEF RwUnlock
<1>8. ASSUME NEW t \in RwThread, ~mishap', SpuriousWake(t) PROVE CountInv' /\ NoneSleepsForever'
  <2>1. UNCHANGED <<rwlock, mishap>> /\ Blocked' = Blocked
    BY <1>a, <1>8 DEF SpuriousWake, RwGoto, RwTypeOK, Blocked
  <2>2. /\ \A u \in RwThread : rwpc'[u] \in {"r_wait", "w_wait"} => rwpc'[u] = rwpc[u]
        /\ \A u \in RwThread : rwpc[u] = "w_woken" => rwpc'[u] = "w_woken"
    BY <1>a, <1>8 DEF SpuriousWake, RwGoto, RwTypeOK
  <2> QED
    BY <1>8, <1>c, <2>1, <2>2 DEF CountInv, NoneSleepsForever
<1>9. ASSUME NEW t \in RwThread, ~mishap', WaitFails(t) \/ WaitCancelled(t) PROVE FALSE
  BY <1>9 DEF WaitFails, WaitCancelled
<1>10. ASSUME NEW t \in RwThread, ~mishap', RwDestroy(t) \/ InitCheck(t)
       PROVE  CountInv' /\ NoneSleepsForever'
  <2>1. /\ \A u \in RwThread : rwpc[u] = "idle"
        /\ \A u \in RwThread : rwpc'[u] \in {"idle", "i_set"}
        /\ rwlock'.blocked_writers = rwlock.blocked_writers /\ mishap' = mishap
    BY <1>10, <1>a DEF RwDestroy, InitCheck, RwUnused, RwGoto, RwTypeOK, RwLocks
  <2>2. Blocked = {} /\ Blocked' = {}
    BY <2>1 DEF Blocked
  <2> QED
    BY <1>10, <1>c, <2>1, <2>2, FS_EmptySet DEF CountInv, NoneSleepsForever
<1>11. ASSUME NEW t \in RwThread, ~mishap', InitSet(t) PROVE CountInv' /\ NoneSleepsForever'
  <2>1. \A u \in RwThread : rwpc'[u] = "idle"
    BY <1>11, <1>a DEF InitSet, RwGoto, RwTypeOK, LockInv, SettingInv
  <2>2. Blocked' = {} /\ rwlock'.blocked_writers = 0
    BY <1>11, <2>1 DEF Blocked, InitSet, RwInitialized
  <2> QED
    BY <2>1, <2>2, FS_EmptySet DEF CountInv, NoneSleepsForever
<1>12. ASSUME mishap' PROVE CountInv' /\ NoneSleepsForever'
  BY <1>12 DEF CountInv, NoneSleepsForever
<1> QED
  BY <1>a, <1>b, <1>2, <1>3, <1>5, <1>6, <1>7, <1>8, <1>9, <1>10, <1>11, <1>12 DEF RwNext, SleepInv

\* Nobody sleeps without a reason that will go away, until a wait fails or is
\* cancelled: the wake-ups of pthread_rwlock_unlock miss nobody.
THEOREM RwNoneSleepsForever == ASSUME ~Racing PROVE RwSpec => []NoneSleepsForever
<1>1. RwInit => SleepInv
  BY SleepInit
<1>2. SleepInv /\ [RwNext]_rwVars => SleepInv'
  BY SleepStep
<1>3. SleepInv => NoneSleepsForever
  BY DEF SleepInv
<1> QED
  BY <1>1, <1>2, <1>3, PTL DEF RwSpec
===========================================================================
