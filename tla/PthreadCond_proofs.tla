------------------------- MODULE PthreadCond_proofs -------------------------
(***************************************************************************)
(* Proofs about a mutex and a condition variable, for any number of        *)
(* threads and any finite set of semaphores: the mutex excludes, signals   *)
(* reach the semaphores their sleepers are on, the pool stays sound, and   *)
(* the two implement the abstract monitor.                                 *)
(***************************************************************************)
EXTENDS PthreadCond, FiniteSetTheorems, SequenceTheorems, TLAPS

(***************************************************************************)
(* Semaphores *)

SemRec == [count : Nat, queue : Seq(Thread)]
MutexRec ==
  [sig : {"init", "ready", "none"}, type : {"NORMAL", "ERRORCHECK", "RECURSIVE"},
   owner : Thread \cup {NULL, SELF, SWITCHING}, waiters : Nat,
   lock_count : 0..MaxCount, sem : Sem \cup {NULL}, order : Sem \cup {NULL},
   busy : BOOLEAN]
CondRec ==
  [sig : {"init", "ready", "none"}, waiters : Nat, sigspending : Nat,
   sem : Sem \cup {NULL}, busy : BOOLEAN]
LocRec == [sem : Sem \cup {NULL}, order : Sem \cup {NULL}]

Members(q) == {t \in Thread : \E i \in 1..Len(q) : q[i] = t}
Distinct(q) == \A i, j \in 1..Len(q) : q[i] = q[j] => i = j
QueueOf(S, s) == Members(S[s].queue)
Put(S, s, c, q) == [S EXCEPT ![s] = [count |-> c, queue |-> q]]

\* A thread waits once at most, and only where no signal is left.
Sane(S) ==
  /\ S \in [Sem -> SemRec]
  /\ \A s \in Sem : /\ Distinct(S[s].queue)
                    /\ S[s].count > 0 => QueueOf(S, s) = {}

PoolOf(p) == {s \in Sem : \E i \in 1..Len(p) : p[i] = s}
Pooled == PoolOf(sem_pool)

(***************************************************************************)
(* The inductive invariant *)

At(P) == {t \in Thread : pc[t] \in P}
Counted(P, n) == IsFiniteSet(At(P)) /\ Cardinality(At(P)) = n

Queuers == {"l_order", "l_wait", "l_woken"}
Lockers == {"l_order", "l_drain", "l_switch"}
CondUsers == {"c_add", "c_release", "c_wait", "c_wait_only", "c_leave"}
Busies == {"c_release", "c_wait", "c_wait_only", "c_leave", "c_remove"}
Signallers == {"s_one", "s_thread", "s_all", "s_done"}
Owners == {"c_add", "c_release", "c_wait_only"}
Switchers == {"l_drain", "l_switch", "u_signal", "c_wait"}

\* Who has which lock.
LockInv ==
  \A t \in Thread : /\ mlock = t <=> pc[t] \in Lockers
                    /\ clock = t <=> pc[t] \in {"c_add", "c_remove"}

\* The thread that holds the mutex is the one the mutex says.
HoldInv ==
  /\ \A t \in Thread : holds[t] > 0 =>
       /\ mutex.owner = (IF mutex.type = "NORMAL" THEN SELF ELSE t)
       /\ mutex.lock_count = holds[t]
       /\ \A u \in Thread : holds[u] > 0 => t = u
       /\ mutex.type # "RECURSIVE" => mutex.lock_count = 1
  /\ \A t \in Thread : mutex.owner = t => holds[t] > 0
  /\ mutex.owner = NULL \/ mutex.owner = SWITCHING => mutex.lock_count = 0
  /\ \A t \in Thread : /\ pc[t] \in Owners => holds[t] > 0
                       /\ pc[t] \in Switchers => mutex.owner = SWITCHING

CountInv ==
  /\ Counted(Queuers, mutex.waiters)
  /\ Counted(CondUsers, cond.waiters)
  /\ Counted(Signallers, cond.sigspending)

\* When the mutex has its semaphores, and that its waiters know them.
MutexUse ==
  /\ mutex.sem = NULL <=> mutex.waiters = 0 /\ mutex.owner # SWITCHING
  /\ mutex.order = NULL <=> mutex.waiters = 0 /\ \A t \in Thread : pc[t] # "l_drain"
  /\ mutex.waiters > 0 => mutex.owner # NULL
  /\ mutex.sig # "ready" => mutex.owner = NULL /\ ~mutex.busy
  /\ mutex.sig = "init" => mutex.type = "NORMAL"
  /\ \A t \in Thread :
       /\ pc[t] \in Queuers \cup {"l_drain"} =>
            loc[t].sem = mutex.sem /\ loc[t].order = mutex.order
       /\ pc[t] = "l_switch" => loc[t].sem = mutex.sem
       /\ pc[t] \in {"l_drain", "l_switch"} => mutex.waiters = 0

CondUse ==
  /\ cond.sem = NULL <=>
       cond.sigspending = 0 /\ \A t \in Thread : pc[t] \notin Busies
  /\ mutex.busy <=> \E t \in Thread : pc[t] \in Busies
  /\ cond.busy = mutex.busy
  /\ cond.sig # "ready" => cond.waiters = 0 /\ ~cond.busy
  /\ cond.sig = "init" => cond.sigspending = 0
  /\ \A t \in Thread :
       /\ pc[t] \in Signallers \cup {"c_leave"} => loc[t].sem = cond.sem
       /\ pc[t] = "c_add" => cond.waiters = 1
       /\ pc[t] = "c_remove" => cond.waiters = 0

PoolInv ==
  /\ Distinct(sem_pool)
  /\ \A s \in Sem : s \in Pooled <=> s \notin {mutex.sem, mutex.order, cond.sem}
  /\ mutex.sem # NULL => mutex.sem # mutex.order /\ mutex.sem # cond.sem
  /\ mutex.order # NULL => mutex.order # cond.sem

\* Who sleeps where, and where a signal may be left.
QueueInv ==
  /\ Sane(sema)
  /\ \A s \in Sem : \A t \in QueueOf(sema, s) :
       \/ s = mutex.sem /\ pc[t] \in {"l_woken", "l_switch"}
       \/ s = mutex.order /\ pc[t] = "l_order"
       \/ s = cond.sem /\ pc[t] = "c_leave"
  /\ \A s \in Sem : s \notin {mutex.sem, mutex.order} => sema[s].count = 0

\* The mutex on its way to the next owner: one thread has it in its hands, or
\* it is the one signal left in mutex.sem.
Carries(t) ==
  \/ pc[t] \in {"u_signal", "c_wait", "l_drain"}
  \/ pc[t] \in {"l_woken", "l_switch"} /\ t \notin QueueOf(sema, mutex.sem)
TokenInv ==
  /\ \A t \in Thread : Carries(t) =>
       /\ mutex.owner = SWITCHING /\ sema[mutex.sem].count = 0
       /\ \A u \in Thread : Carries(u) => t = u
  /\ mutex.sem # NULL /\ sema[mutex.sem].count > 0 =>
       mutex.owner = SWITCHING /\ sema[mutex.sem].count = 1

\* The turn to queue up: one thread has it, or it is the one signal in
\* mutex.order.
HasTurn(t) ==
  \/ pc[t] = "l_wait"
  \/ pc[t] = "l_order" /\ t \notin QueueOf(sema, mutex.order)
TurnInv ==
  /\ \A t \in Thread : HasTurn(t) =>
       /\ sema[mutex.order].count = 0
       /\ \A u \in Thread : HasTurn(u) => t = u
  /\ \A t \in Thread : pc[t] = "l_drain" => sema[mutex.order].count = 0
  /\ mutex.order # NULL => \/ sema[mutex.order].count = 1
                           \/ \E t \in Thread : HasTurn(t) \/ pc[t] = "l_drain"
  /\ mutex.order # NULL => sema[mutex.order].count \in {0, 1}

SyncInv ==
  /\ TypeOK /\ LockInv /\ HoldInv /\ CountInv /\ MutexUse /\ CondUse
  /\ PoolInv /\ QueueInv /\ TokenInv /\ TurnInv

---------------------------------------------------------------------------
(* Queues *)

LEMMA TailMembers ==
  ASSUME NEW q \in Seq(Thread), q # <<>>, Distinct(q)
  PROVE  /\ Tail(q) \in Seq(Thread) /\ Distinct(Tail(q))
         /\ Head(q) \in Members(q) /\ Members(Tail(q)) = Members(q) \ {Head(q)}
<1>1. /\ Tail(q) \in Seq(Thread) /\ Len(q) \in Nat /\ Len(q) > 0
      /\ Len(Tail(q)) = Len(q) - 1 /\ Head(q) = q[1] /\ q[1] \in Thread
      /\ \A i \in 1..Len(Tail(q)) : Tail(q)[i] = q[i + 1]
  OBVIOUS
<1>2. Distinct(Tail(q))
  <2> SUFFICES ASSUME NEW i \in 1..Len(Tail(q)), NEW j \in 1..Len(Tail(q)),
                      Tail(q)[i] = Tail(q)[j]
               PROVE  i = j
    BY DEF Distinct
  <2>1. i + 1 \in 1..Len(q) /\ j + 1 \in 1..Len(q) /\ q[i + 1] = q[j + 1]
    BY <1>1
  <2>2. i + 1 = j + 1
    BY <2>1 DEF Distinct
  <2> QED
    BY <2>2, <1>1
<1>3. Head(q) \in Members(q)
  BY <1>1 DEF Members
<1>4. ASSUME NEW t \in Members(Tail(q)) PROVE t \in Members(q) \ {Head(q)}
  <2>1. PICK i \in 1..Len(Tail(q)) : Tail(q)[i] = t
    BY DEF Members
  <2>2. t \in Thread /\ i + 1 \in 1..Len(q) /\ q[i + 1] = t /\ i + 1 # 1 /\ 1 \in 1..Len(q)
    BY <1>1, <2>1 DEF Members
  <2>3. t # q[1]
    BY <2>2 DEF Distinct
  <2> QED
    BY <1>1, <2>2, <2>3 DEF Members
<1>5. ASSUME NEW t \in Members(q), t # Head(q) PROVE t \in Members(Tail(q))
  <2>1. PICK i \in 1..Len(q) : q[i] = t
    BY DEF Members
  <2>2. t \in Thread /\ i - 1 \in 1..Len(Tail(q)) /\ Tail(q)[i - 1] = t
    BY <1>1, <1>5, <2>1 DEF Members
  <2> QED
    BY <2>2 DEF Members
<1> QED
  BY <1>1, <1>2, <1>3, <1>4, <1>5

LEMMA AppendMembers ==
  ASSUME NEW q \in Seq(Thread), Distinct(q), NEW t \in Thread, t \notin Members(q)
  PROVE  /\ Append(q, t) \in Seq(Thread) /\ Distinct(Append(q, t))
         /\ Members(Append(q, t)) = Members(q) \cup {t}
<1>1. PICK r : r = Append(q, t)
  OBVIOUS
<1>2. /\ r \in Seq(Thread) /\ Len(q) \in Nat /\ Len(r) = Len(q) + 1
      /\ r[Len(q) + 1] = t
      /\ \A i \in 1..Len(q) : r[i] = q[i]
  BY <1>1
<1>3. \A i \in 1..Len(r) : i = Len(q) + 1 \/ i \in 1..Len(q)
  BY <1>2
<1>4. \A i \in 1..Len(q) : q[i] # t
  BY DEF Members
<1>5. Distinct(r)
  BY <1>2, <1>3, <1>4 DEF Distinct
<1>6. Members(r) = Members(q) \cup {t}
  <2>1. ASSUME NEW u \in Members(r) PROVE u \in Members(q) \cup {t}
    BY <1>2, <1>3 DEF Members
  <2>2. ASSUME NEW u \in Members(q) PROVE u \in Members(r)
    <3>1. PICK i \in 1..Len(q) : q[i] = u
      BY DEF Members
    <3>2. i \in 1..Len(r) /\ r[i] = u /\ u \in Thread
      BY <1>2, <3>1 DEF Members
    <3> QED
      BY <3>2 DEF Members
  <2>3. t \in Members(r)
    <3>1. Len(q) + 1 \in 1..Len(r)
      BY <1>2
    <3> QED
      BY <1>2, <3>1 DEF Members
  <2> QED
    BY <2>1, <2>2, <2>3
<1> QED
  BY <1>1, <1>2, <1>5, <1>6

LEMMA WithoutMembers ==
  ASSUME NEW q \in Seq(Thread), Distinct(q), NEW t \in Thread
  PROVE  /\ Without(q, t) \in Seq(Thread) /\ Distinct(Without(q, t))
         /\ Members(Without(q, t)) = Members(q) \ {t}
<1>1. CASE \E i \in 1..Len(q) : q[i] = t
  <2>1. PICK k : k = CHOOSE i \in 1..Len(q) : q[i] = t
    OBVIOUS
  <2>2. k \in 1..Len(q) /\ q[k] = t /\ Len(q) \in Nat
    BY <1>1, <2>1
  <2>3. PICK r : r = Without(q, t)
    OBVIOUS
  <2>4. r = SubSeq(q, 1, k - 1) \o SubSeq(q, k + 1, Len(q))
    BY <1>1, <2>1, <2>3 DEF Without
  <2>5. PICK a, b : a = SubSeq(q, 1, k - 1) /\ b = SubSeq(q, k + 1, Len(q))
    OBVIOUS
  <2>6. /\ a \in Seq(Thread) /\ Len(a) = k - 1
        /\ \A i \in 1..k - 1 : a[i] = q[i]
    BY <2>2, <2>5
  <2>7. /\ b \in Seq(Thread) /\ Len(b) = Len(q) - k
        /\ \A i \in 1..Len(q) - k : b[i] = q[k + i]
    BY <2>2, <2>5
  <2>8. r \in Seq(Thread) /\ Len(r) = Len(q) - 1
    <3>1. r = a \o b
      BY <2>4, <2>5
    <3>2. a \in Seq(Thread) /\ b \in Seq(Thread)
      BY <2>6, <2>7
    <3>3. a \o b \in Seq(Thread) /\ Len(a \o b) = Len(a) + Len(b)
      BY <3>2
    <3> QED
      BY <3>1, <3>3, <2>2, <2>6, <2>7
  <2>9. \A i \in 1..Len(r) : r[i] = IF i < k THEN q[i] ELSE q[i + 1]
    <3> SUFFICES ASSUME NEW i \in 1..Len(r)
                 PROVE  r[i] = IF i < k THEN q[i] ELSE q[i + 1]
      OBVIOUS
    <3>1. r = a \o b
      BY <2>4, <2>5
    <3>2. CASE i < k
      BY <3>1, <3>2, <2>2, <2>6, <2>7, <2>8
    <3>3. CASE ~(i < k)
      <4>1. i - Len(a) \in 1..Len(q) - k /\ k + (i - Len(a)) = i + 1 /\ i > Len(a)
        BY <3>3, <2>2, <2>6, <2>8
      <4>2. r[i] = b[i - Len(a)]
        BY <3>1, <4>1, <2>2, <2>6, <2>7, <2>8
      <4> QED
        BY <3>3, <4>1, <4>2, <2>7
    <3> QED
      BY <3>2, <3>3
  <2> DEFINE at(i) == IF i < k THEN i ELSE i + 1
  <2>10. \A i \in 1..Len(r) : at(i) \in 1..Len(q) /\ at(i) # k /\ r[i] = q[at(i)]
    BY <2>2, <2>8, <2>9
  <2>11. Distinct(r)
    <3> SUFFICES ASSUME NEW i \in 1..Len(r), NEW j \in 1..Len(r), r[i] = r[j]
                 PROVE  i = j
      BY DEF Distinct
    <3>1. at(i) = at(j)
      BY <2>10 DEF Distinct
    <3> QED
      BY <3>1, <2>2, <2>8
  <2>12. ASSUME NEW u \in Members(r) PROVE u \in Members(q) /\ u # t
    <3>1. PICK i \in 1..Len(r) : r[i] = u
      BY DEF Members
    <3>2. u \in Thread /\ at(i) \in 1..Len(q) /\ q[at(i)] = u /\ at(i) # k
      BY <2>10, <3>1 DEF Members
    <3> HIDE DEF at
    <3> QED
      BY <2>2, <3>2 DEF Members, Distinct
  <2>13. ASSUME NEW u \in Members(q), u # t PROVE u \in Members(r)
    <3>1. PICK j \in 1..Len(q) : q[j] = u
      BY DEF Members
    <3>2. j # k
      BY <2>2, <2>13, <3>1
    <3>3. PICK i : i = IF j < k THEN j ELSE j - 1
      OBVIOUS
    <3>4. i \in 1..Len(r) /\ at(i) = j
      BY <2>2, <2>8, <3>2, <3>3
    <3>5. u \in Thread /\ r[i] = u
      BY <2>10, <3>1, <3>4 DEF Members
    <3> QED
      BY <3>4, <3>5 DEF Members
  <2> QED
    BY <2>3, <2>8, <2>11, <2>12, <2>13
<1>2. CASE ~\E i \in 1..Len(q) : q[i] = t
  BY <1>2 DEF Without, Members
<1> QED
  BY <1>1, <1>2

LEMMA NoMembers ==
  ASSUME NEW q \in Seq(Thread)
  PROVE  Members(q) = {} <=> q = <<>>
<1>1. CASE q = <<>>
  BY <1>1 DEF Members
<1>2. CASE q # <<>>
  <2>1. 1 \in 1..Len(q) /\ q[1] \in Thread
    BY <1>2
  <2> QED
    BY <1>2, <2>1 DEF Members
<1> QED
  BY <1>1, <1>2

---------------------------------------------------------------------------
(* What a call does to the queues *)

LEMMA SaneSem ==
  ASSUME NEW S, Sane(S), NEW s \in Sem
  PROVE  /\ S[s] \in SemRec /\ S[s].count \in Nat /\ S[s].queue \in Seq(Thread)
         /\ Distinct(S[s].queue)
         /\ (S[s].count > 0 => S[s].queue = <<>>)
         /\ S[s].queue = <<>> <=> QueueOf(S, s) = {}
         /\ S[s] = [count |-> S[s].count, queue |-> S[s].queue]
<1>1. S[s] \in SemRec /\ Distinct(S[s].queue)
      /\ (S[s].count > 0 => QueueOf(S, s) = {})
  BY DEF Sane
<1>2. S[s].count \in Nat /\ S[s].queue \in Seq(Thread)
      /\ S[s] = [count |-> S[s].count, queue |-> S[s].queue]
  BY <1>1 DEF SemRec
<1> QED
  BY <1>1, <1>2, NoMembers DEF QueueOf

\* A semaphore is replaced by one that is in order.
LEMMA SemReplaced ==
  ASSUME NEW S, Sane(S), NEW s \in Sem, NEW c \in Nat, NEW q \in Seq(Thread),
         Distinct(q), c > 0 => Members(q) = {}
  PROVE  /\ Sane(Put(S, s, c, q))
         /\ \A x \in Sem : x # s => /\ Put(S, s, c, q)[x] = S[x]
                                    /\ QueueOf(Put(S, s, c, q), x) = QueueOf(S, x)
         /\ QueueOf(Put(S, s, c, q), s) = Members(q) /\ Put(S, s, c, q)[s].count = c
<1> DEFINE R == Put(S, s, c, q)
<1>1. [count |-> c, queue |-> q] \in SemRec
  BY DEF SemRec
<1>2. R \in [Sem -> SemRec] /\ R[s] = [count |-> c, queue |-> q]
      /\ \A x \in Sem : x # s => R[x] = S[x]
  BY <1>1 DEF Sane, Put
<1> HIDE DEF R
<1>3. \A x \in Sem : x # s => QueueOf(R, x) = QueueOf(S, x)
  BY <1>2 DEF QueueOf
<1>4. QueueOf(R, s) = Members(q) /\ R[s].count = c /\ R[s].queue = q
  BY <1>2 DEF QueueOf
<1> QED
  BY <1>2, <1>3, <1>4 DEF Sane, R

LEMMA SignalledQueue ==
  ASSUME NEW S, Sane(S), NEW s \in Sem
  PROVE  /\ Sane(Signalled(S, s))
         /\ \A x \in Sem : x # s => /\ Signalled(S, s)[x] = S[x]
                                    /\ QueueOf(Signalled(S, s), x) = QueueOf(S, x)
         /\ QueueOf(S, s) = {} => /\ QueueOf(Signalled(S, s), s) = {}
                                  /\ Signalled(S, s)[s].count = S[s].count + 1
         /\ QueueOf(S, s) # {} =>
              /\ Signalled(S, s)[s].count = S[s].count
              /\ \E h \in QueueOf(S, s) : QueueOf(Signalled(S, s), s) = QueueOf(S, s) \ {h}
<1>1. /\ S[s] \in SemRec /\ S[s].count \in Nat /\ S[s].queue \in Seq(Thread)
      /\ Distinct(S[s].queue) /\ (S[s].count > 0 => S[s].queue = <<>>)
      /\ S[s].queue = <<>> <=> QueueOf(S, s) = {}
  BY SaneSem
<1>2. PICK c, q : c = S[s].count /\ q = S[s].queue
  OBVIOUS
<1>3. CASE q = <<>>
  <2>1. PICK r : r = [S[s] EXCEPT !.count = @ + 1]
    OBVIOUS
  <2>2. r = [count |-> c + 1, queue |-> q]
    BY <1>1, <1>2, <2>1 DEF SemRec
  <2>3. Signalled(S, s) = Put(S, s, c + 1, q)
    BY <1>2, <1>3, <2>1, <2>2 DEF Signalled, Put
  <2>4. c + 1 \in Nat /\ q \in Seq(Thread) /\ Distinct(q)
    BY <1>1, <1>2
  <2>5. Members(q) = {}
    BY <1>3, <2>4, NoMembers
  <2> QED
    <3>1. PICK d \in Nat : d = c + 1
      BY <2>4
    <3>2. Distinct(q) /\ d \in Nat /\ (d > 0 => Members(q) = {}) /\ q \in Seq(Thread)
      BY <2>4, <2>5, <3>1
    <3>3. /\ Sane(Put(S, s, d, q))
          /\ \A x \in Sem : x # s => /\ Put(S, s, d, q)[x] = S[x]
                                     /\ QueueOf(Put(S, s, d, q), x) = QueueOf(S, x)
          /\ QueueOf(Put(S, s, d, q), s) = Members(q) /\ Put(S, s, d, q)[s].count = d
      BY <3>2, SemReplaced
    <3>4. QueueOf(S, s) = {}
      BY <1>1, <1>2, <1>3
    <3> QED
      BY <1>2, <2>3, <2>5, <3>1, <3>3, <3>4
<1>4. CASE q # <<>>
  <2>1. PICK r : r = [S[s] EXCEPT !.queue = Tail(@)]
    OBVIOUS
  <2>2. r = [count |-> c, queue |-> Tail(q)]
    BY <1>1, <1>2, <2>1 DEF SemRec
  <2>3. Signalled(S, s) = Put(S, s, c, Tail(q))
    BY <1>2, <1>4, <2>1, <2>2 DEF Signalled, Put
  <2>4. /\ Tail(q) \in Seq(Thread) /\ Distinct(Tail(q)) /\ c \in Nat /\ ~(c > 0)
        /\ Head(q) \in Members(q) /\ Members(Tail(q)) = Members(q) \ {Head(q)}
    BY <1>1, <1>2, <1>4, TailMembers
  <2>5. Members(q) = QueueOf(S, s)
    BY <1>2 DEF QueueOf
  <2>6. /\ Sane(Signalled(S, s))
        /\ \A x \in Sem : x # s => /\ Signalled(S, s)[x] = S[x]
                                   /\ QueueOf(Signalled(S, s), x) = QueueOf(S, x)
        /\ QueueOf(Signalled(S, s), s) = Members(Tail(q)) /\ Signalled(S, s)[s].count = c
    <3>1. PICK p \in Seq(Thread) : p = Tail(q)
      BY <2>4
    <3>2. Distinct(p) /\ c \in Nat /\ (c > 0 => Members(p) = {})
      BY <2>4, <3>1
    <3>3. /\ Sane(Put(S, s, c, p))
          /\ \A x \in Sem : x # s => /\ Put(S, s, c, p)[x] = S[x]
                                     /\ QueueOf(Put(S, s, c, p), x) = QueueOf(S, x)
          /\ QueueOf(Put(S, s, c, p), s) = Members(p) /\ Put(S, s, c, p)[s].count = c
      BY <3>2, SemReplaced
    <3> QED
      BY <2>3, <3>1, <3>3
  <2> QED
    BY <1>1, <1>2, <1>4, <2>4, <2>5, <2>6
<1> QED
  BY <1>3, <1>4

LEMMA WaitedQueue ==
  ASSUME NEW S, Sane(S), NEW s \in Sem, NEW t \in Thread, t \notin QueueOf(S, s)
  PROVE  /\ Sane(Waited(S, s, t))
         /\ \A x \in Sem : x # s => /\ Waited(S, s, t)[x] = S[x]
                                    /\ QueueOf(Waited(S, s, t), x) = QueueOf(S, x)
         /\ S[s].count > 0 => /\ Waited(S, s, t)[s].count = S[s].count - 1
                              /\ QueueOf(Waited(S, s, t), s) = {}
         /\ S[s].count = 0 => /\ Waited(S, s, t)[s].count = 0
                              /\ QueueOf(Waited(S, s, t), s) = QueueOf(S, s) \cup {t}
<1>1. /\ S[s] \in SemRec /\ S[s].count \in Nat /\ S[s].queue \in Seq(Thread)
      /\ Distinct(S[s].queue) /\ (S[s].count > 0 => S[s].queue = <<>>)
      /\ S[s].queue = <<>> <=> QueueOf(S, s) = {}
  BY SaneSem
<1>2. PICK c, q : c = S[s].count /\ q = S[s].queue
  OBVIOUS
<1>3. CASE c > 0
  <2>1. PICK r : r = [S[s] EXCEPT !.count = @ - 1]
    OBVIOUS
  <2>2. r = [count |-> c - 1, queue |-> q]
    BY <1>1, <1>2, <2>1 DEF SemRec
  <2>3. Waited(S, s, t) = Put(S, s, c - 1, q)
    BY <1>2, <1>3, <2>1, <2>2 DEF Waited, Put
  <2>4. c - 1 \in Nat /\ q \in Seq(Thread) /\ Distinct(q) /\ Members(q) = {}
    BY <1>1, <1>2, <1>3, NoMembers
  <2>5. QueueOf(S, s) = {} /\ c # 0
    BY <1>1, <1>2, <1>3
  <2> QED
    <3>1. PICK d \in Nat : d = c - 1
      BY <2>4
    <3>2. Distinct(q) /\ d \in Nat /\ (d > 0 => Members(q) = {}) /\ q \in Seq(Thread)
      BY <2>4, <3>1
    <3>3. /\ Sane(Put(S, s, d, q))
          /\ \A x \in Sem : x # s => /\ Put(S, s, d, q)[x] = S[x]
                                     /\ QueueOf(Put(S, s, d, q), x) = QueueOf(S, x)
          /\ QueueOf(Put(S, s, d, q), s) = Members(q) /\ Put(S, s, d, q)[s].count = d
      BY <3>2, SemReplaced
    <3> QED
      BY <1>2, <1>3, <2>3, <2>4, <2>5, <3>1, <3>3
<1>4. CASE ~(c > 0)
  <2>1. PICK r : r = [S[s] EXCEPT !.queue = Append(@, t)]
    OBVIOUS
  <2>2. r = [count |-> c, queue |-> Append(q, t)]
    BY <1>1, <1>2, <2>1 DEF SemRec
  <2>3. Waited(S, s, t) = Put(S, s, c, Append(q, t))
    BY <1>2, <1>4, <2>1, <2>2 DEF Waited, Put
  <2>4. Members(q) = QueueOf(S, s)
    BY <1>2 DEF QueueOf
  <2>5. /\ Append(q, t) \in Seq(Thread) /\ Distinct(Append(q, t)) /\ c = 0
        /\ Members(Append(q, t)) = Members(q) \cup {t}
    BY <1>1, <1>2, <1>4, <2>4, AppendMembers
  <2>6. /\ Sane(Waited(S, s, t))
        /\ \A x \in Sem : x # s => /\ Waited(S, s, t)[x] = S[x]
                                   /\ QueueOf(Waited(S, s, t), x) = QueueOf(S, x)
        /\ QueueOf(Waited(S, s, t), s) = Members(Append(q, t))
        /\ Waited(S, s, t)[s].count = c
    <3>1. PICK p \in Seq(Thread) : p = Append(q, t)
      BY <2>5
    <3>2. Distinct(p) /\ c \in Nat /\ (c > 0 => Members(p) = {})
      BY <2>5, <3>1
    <3>3. /\ Sane(Put(S, s, c, p))
          /\ \A x \in Sem : x # s => /\ Put(S, s, c, p)[x] = S[x]
                                     /\ QueueOf(Put(S, s, c, p), x) = QueueOf(S, x)
          /\ QueueOf(Put(S, s, c, p), s) = Members(p) /\ Put(S, s, c, p)[s].count = c
      BY <3>2, SemReplaced
    <3> QED
      BY <2>3, <3>1, <3>3
  <2> QED
    BY <1>1, <1>2, <1>4, <2>4, <2>5, <2>6
<1> QED
  BY <1>3, <1>4

\* A queue gets shorter, the counts stay.
Requeued(S, s, q) == [S EXCEPT ![s].queue = q]
NowQueued(R, S, s, Q) ==
  /\ Sane(R)
  /\ \A x \in Sem : /\ R[x].count = S[x].count
                    /\ x # s => QueueOf(R, x) = QueueOf(S, x)
  /\ QueueOf(R, s) = Q

LEMMA QueueReplaced ==
  ASSUME NEW S, Sane(S), NEW s \in Sem, NEW q \in Seq(Thread), Distinct(q),
         Members(q) \subseteq QueueOf(S, s)
  PROVE  NowQueued(Requeued(S, s, q), S, s, Members(q))
<1>1. PICK c : c = S[s].count
  OBVIOUS
<1>2. c \in Nat /\ S[s] \in SemRec /\ (c > 0 => QueueOf(S, s) = {})
  BY <1>1, SaneSem
<1>3. PICK r : r = [S[s] EXCEPT !.queue = q]
  OBVIOUS
<1>4. r = [count |-> c, queue |-> q]
  BY <1>1, <1>2, <1>3 DEF SemRec
<1>5. Requeued(S, s, q) = Put(S, s, c, q)
  BY <1>3, <1>4 DEF Put, Requeued
<1>6. c > 0 => Members(q) = {}
  BY <1>2
<1>7. /\ Sane(Put(S, s, c, q))
      /\ \A x \in Sem : x # s => /\ Put(S, s, c, q)[x] = S[x]
                                 /\ QueueOf(Put(S, s, c, q), x) = QueueOf(S, x)
      /\ QueueOf(Put(S, s, c, q), s) = Members(q) /\ Put(S, s, c, q)[s].count = c
  BY <1>2, <1>6, SemReplaced
<1> QED
  BY <1>1, <1>5, <1>7 DEF NowQueued

LEMMA SignalledOneQueue ==
  ASSUME NEW S, Sane(S), NEW s \in Sem
  PROVE  /\ QueueOf(S, s) = {} => NowQueued(SignalledOne(S, s), S, s, {})
         /\ QueueOf(S, s) # {} => \E h \in QueueOf(S, s) :
              NowQueued(SignalledOne(S, s), S, s, QueueOf(S, s) \ {h})
<1>1. PICK q : q = S[s].queue
  OBVIOUS
<1>2. q \in Seq(Thread) /\ Distinct(q) /\ Members(q) = QueueOf(S, s)
      /\ (q = <<>> <=> QueueOf(S, s) = {})
  BY <1>1, SaneSem DEF QueueOf
<1>3. CASE q = <<>>
  <2>1. SignalledOne(S, s) = Requeued(S, s, q)
    BY <1>1, <1>3 DEF SignalledOne, Requeued
  <2>2. NowQueued(Requeued(S, s, q), S, s, Members(q))
    BY <1>2, QueueReplaced
  <2> QED
    BY <1>2, <1>3, <2>1, <2>2
<1>4. CASE q # <<>>
  <2>1. PICK p : p = Tail(q)
    OBVIOUS
  <2>2. SignalledOne(S, s) = Requeued(S, s, p)
    BY <1>1, <1>4, <2>1 DEF SignalledOne, Requeued
  <2>3. /\ p \in Seq(Thread) /\ Distinct(p)
        /\ Head(q) \in Members(q) /\ Members(p) = Members(q) \ {Head(q)}
    BY <1>2, <1>4, <2>1, TailMembers
  <2>4. NowQueued(Requeued(S, s, p), S, s, Members(p))
    BY <1>2, <2>3, QueueReplaced
  <2> QED
    BY <1>2, <1>4, <2>2, <2>3, <2>4
<1> QED
  BY <1>3, <1>4

LEMMA SignalledAllQueue ==
  ASSUME NEW S, Sane(S), NEW s \in Sem
  PROVE  NowQueued(SignalledAll(S, s), S, s, {})
<1>1. <<>> \in Seq(Thread) /\ Distinct(<<>>)
  BY DEF Distinct
<1>2. PICK q : q = <<>>
  OBVIOUS
<1>3. q \in Seq(Thread) /\ Distinct(q)
  BY <1>1, <1>2
<1>4. SignalledAll(S, s) = Requeued(S, s, q)
  BY <1>2 DEF SignalledAll, Requeued
<1>5. Members(q) = {}
  BY <1>2, <1>3, NoMembers
<1>6. NowQueued(Requeued(S, s, q), S, s, Members(q))
  BY <1>3, <1>5, QueueReplaced
<1> QED
  BY <1>4, <1>5, <1>6

LEMMA LeftQueue ==
  ASSUME NEW S, Sane(S), NEW s \in Sem, NEW t \in Thread
  PROVE  NowQueued(Left(S, s, t), S, s, QueueOf(S, s) \ {t})
<1>1. PICK q : q = S[s].queue
  OBVIOUS
<1>2. q \in Seq(Thread) /\ Distinct(q) /\ Members(q) = QueueOf(S, s)
  BY <1>1, SaneSem DEF QueueOf
<1>3. PICK p : p = Without(q, t)
  OBVIOUS
<1>4. p \in Seq(Thread) /\ Distinct(p) /\ Members(p) = Members(q) \ {t}
  BY <1>2, <1>3, WithoutMembers
<1>5. Left(S, s, t) = Requeued(S, s, p)
  BY <1>1, <1>3 DEF Left, Requeued
<1>6. NowQueued(Requeued(S, s, p), S, s, Members(p))
  BY <1>2, <1>4, QueueReplaced
<1> QED
  BY <1>2, <1>4, <1>5, <1>6

LEMMA Queued ==
  ASSUME NEW t \in Thread, NEW s
  PROVE  InQueue(t, s) <=> t \in QueueOf(sema, s)
BY DEF InQueue, QueueOf, Members

---------------------------------------------------------------------------
(* The pool *)

LEMMA TailOfPool ==
  ASSUME NEW p \in Seq(Sem), p # <<>>, Distinct(p)
  PROVE  /\ Tail(p) \in Seq(Sem) /\ Distinct(Tail(p)) /\ Head(p) \in PoolOf(p)
         /\ PoolOf(Tail(p)) = PoolOf(p) \ {Head(p)}
<1>1. /\ Tail(p) \in Seq(Sem) /\ Len(p) \in Nat /\ Len(p) > 0
      /\ Len(Tail(p)) = Len(p) - 1 /\ Head(p) = p[1] /\ p[1] \in Sem
      /\ \A i \in 1..Len(Tail(p)) : Tail(p)[i] = p[i + 1]
  OBVIOUS
<1>2. Distinct(Tail(p))
  <2> SUFFICES ASSUME NEW i \in 1..Len(Tail(p)), NEW j \in 1..Len(Tail(p)),
                      Tail(p)[i] = Tail(p)[j]
               PROVE  i = j
    BY DEF Distinct
  <2>1. i + 1 \in 1..Len(p) /\ j + 1 \in 1..Len(p) /\ p[i + 1] = p[j + 1]
    BY <1>1
  <2>2. i + 1 = j + 1
    BY <2>1 DEF Distinct
  <2> QED
    BY <2>2, <1>1
<1>3. Head(p) \in PoolOf(p)
  BY <1>1 DEF PoolOf
<1>4. ASSUME NEW s \in PoolOf(Tail(p)) PROVE s \in PoolOf(p) \ {Head(p)}
  <2>1. PICK i \in 1..Len(Tail(p)) : Tail(p)[i] = s
    BY DEF PoolOf
  <2>2. s \in Sem /\ i + 1 \in 1..Len(p) /\ p[i + 1] = s /\ i + 1 # 1 /\ 1 \in 1..Len(p)
    BY <1>1, <2>1 DEF PoolOf
  <2>3. s # p[1]
    BY <2>2 DEF Distinct
  <2> QED
    BY <1>1, <2>2, <2>3 DEF PoolOf
<1>5. ASSUME NEW s \in PoolOf(p), s # Head(p) PROVE s \in PoolOf(Tail(p))
  <2>1. PICK i \in 1..Len(p) : p[i] = s
    BY DEF PoolOf
  <2>2. s \in Sem /\ i - 1 \in 1..Len(Tail(p)) /\ Tail(p)[i - 1] = s
    BY <1>1, <1>5, <2>1 DEF PoolOf
  <2> QED
    BY <2>2 DEF PoolOf
<1> QED
  BY <1>1, <1>2, <1>3, <1>4, <1>5

LEMMA TakesOne ==
  ASSUME sem_pool \in Seq(Sem), Distinct(sem_pool), InPool(1)
  PROVE  /\ new_sem_from_pool(1) \in Pooled
         /\ Taken(1) \in Seq(Sem) /\ Distinct(Taken(1))
         /\ PoolOf(Taken(1)) = Pooled \ {new_sem_from_pool(1)}
<1>1. Len(sem_pool) \in Nat /\ Len(sem_pool) >= 1 /\ sem_pool # <<>>
  BY DEF InPool
<1>2. Taken(1) = Tail(sem_pool) /\ new_sem_from_pool(1) = Head(sem_pool)
  BY <1>1 DEF Taken, new_sem_from_pool
<1> QED
  BY <1>1, <1>2, TailOfPool DEF Pooled

LEMMA TakesTwo ==
  ASSUME sem_pool \in Seq(Sem), Distinct(sem_pool), InPool(2)
  PROVE  LET s == new_sem_from_pool(1)  o == new_sem_from_pool(2) IN
         /\ s \in Pooled /\ o \in Pooled /\ s # o
         /\ Taken(2) \in Seq(Sem) /\ Distinct(Taken(2))
         /\ PoolOf(Taken(2)) = Pooled \ {s, o}
<1>1. Len(sem_pool) \in Nat /\ Len(sem_pool) >= 2 /\ sem_pool # <<>>
  BY DEF InPool
<1>2. PICK p : p = Tail(sem_pool)
  OBVIOUS
<1>3. p \in Seq(Sem) /\ p # <<>> /\ Head(p) = sem_pool[2] /\ Head(sem_pool) = sem_pool[1]
  <2>1. p \in Seq(Sem) /\ Len(p) = Len(sem_pool) - 1 /\ p[1] = sem_pool[2]
    BY <1>1, <1>2
  <2>2. p # <<>> /\ Head(p) = p[1]
    BY <1>1, <2>1
  <2> QED
    BY <1>1, <2>1, <2>2
<1>4. /\ Distinct(p) /\ Head(sem_pool) \in Pooled
      /\ PoolOf(p) = Pooled \ {Head(sem_pool)}
  BY <1>1, <1>2, TailOfPool DEF Pooled
<1>5. /\ Tail(p) \in Seq(Sem) /\ Distinct(Tail(p)) /\ Head(p) \in PoolOf(p)
      /\ PoolOf(Tail(p)) = PoolOf(p) \ {Head(p)}
  BY <1>3, <1>4, TailOfPool
<1>6. Taken(2) = Tail(p)
  <2>1. /\ Taken(2) \in Seq(Sem) /\ Len(Taken(2)) = Len(sem_pool) - 2
        /\ \A i \in 1..Len(sem_pool) - 2 : Taken(2)[i] = sem_pool[i + 2]
    <3>1. PICK n : n = Len(sem_pool)
      OBVIOUS
    <3>2. Taken(2) = SubSeq(sem_pool, 3, n)
      BY <3>1 DEF Taken
    <3>3. n \in Int /\ 3 \in Int /\ \A i \in 3..n : sem_pool[i] \in Sem
      BY <1>1, <3>1
    <3>4. /\ SubSeq(sem_pool, 3, n) \in Seq(Sem)
          /\ Len(SubSeq(sem_pool, 3, n)) = IF 3 <= n THEN n - 3 + 1 ELSE 0
          /\ \A i \in 1..n - 3 + 1 : SubSeq(sem_pool, 3, n)[i] = sem_pool[3 + i - 1]
      BY <3>3, SubSeqProperties
    <3> HIDE DEF Taken
    <3>5. \A i \in 1..n - 2 : Taken(2)[i] = sem_pool[i + 2]
      <4> SUFFICES ASSUME NEW i \in 1..n - 2 PROVE Taken(2)[i] = sem_pool[i + 2]
        OBVIOUS
      <4>1. i \in 1..n - 3 + 1 /\ 3 + i - 1 = i + 2
        BY <1>1, <3>1
      <4> QED
        BY <3>2, <3>4, <4>1
    <3>6. Len(Taken(2)) = n - 2
      BY <1>1, <3>1, <3>2, <3>4
    <3> QED
      BY <3>1, <3>2, <3>4, <3>5, <3>6
  <2>2. /\ Tail(p) \in Seq(Sem) /\ Len(Tail(p)) = Len(sem_pool) - 2
        /\ \A i \in 1..Len(sem_pool) - 2 : Tail(p)[i] = sem_pool[i + 2]
    <3>1. Len(p) = Len(sem_pool) - 1 /\ \A i \in 1..Len(p) : p[i] = sem_pool[i + 1]
      BY <1>1, <1>2
    <3>2. Tail(p) \in Seq(Sem) /\ Len(Tail(p)) = Len(p) - 1
          /\ \A i \in 1..Len(p) - 1 : Tail(p)[i] = p[i + 1]
      BY <1>3
    <3> QED
      BY <3>1, <3>2, <1>1
  <2> QED
    BY <2>1, <2>2, <1>1
<1> QED
  BY <1>3, <1>4, <1>5, <1>6 DEF new_sem_from_pool

LEMMA Restores ==
  ASSUME NEW p \in Seq(Sem), NEW s \in Sem, Distinct(p), s \notin PoolOf(p)
  PROVE  /\ <<s>> \o p \in Seq(Sem) /\ Distinct(<<s>> \o p)
         /\ PoolOf(<<s>> \o p) = PoolOf(p) \cup {s}
<1>1. PICK r : r = <<s>> \o p
  OBVIOUS
<1>2. /\ r \in Seq(Sem) /\ Len(p) \in Nat /\ Len(r) = Len(p) + 1
      /\ r[1] = s
      /\ \A i \in 1..Len(p) : r[i + 1] = p[i]
  BY <1>1
<1>3. ASSUME NEW i \in 1..Len(r), i # 1
      PROVE  i - 1 \in 1..Len(p) /\ r[i] = p[i - 1]
  <2>1. i - 1 \in 1..Len(p) /\ (i - 1) + 1 = i
    BY <1>2, <1>3
  <2> QED
    BY <1>2, <2>1
<1>4. \A k \in 1..Len(p) : p[k] # s
  BY DEF PoolOf
<1>5. ASSUME NEW x \in PoolOf(r) PROVE x \in PoolOf(p) \cup {s}
  BY <1>2, <1>3 DEF PoolOf
<1>6. ASSUME NEW x \in PoolOf(p) PROVE x \in PoolOf(r)
  <2>1. PICK i \in 1..Len(p) : p[i] = x
    BY DEF PoolOf
  <2>2. x \in Sem /\ i + 1 \in 1..Len(r) /\ r[i + 1] = x
    BY <1>2, <2>1 DEF PoolOf
  <2> QED
    BY <2>2 DEF PoolOf
<1>7. s \in PoolOf(r)
  BY <1>2 DEF PoolOf
<1>8. Distinct(r)
  <2> SUFFICES ASSUME NEW i \in 1..Len(r), NEW j \in 1..Len(r), r[i] = r[j]
               PROVE  i = j
    BY DEF Distinct
  <2>1. CASE i = 1
    BY <1>2, <1>3, <1>4, <2>1
  <2>2. CASE j = 1
    BY <1>2, <1>3, <1>4, <2>2
  <2>3. CASE i # 1 /\ j # 1
    <3>1. i - 1 = j - 1
      BY <1>3, <2>3 DEF Distinct
    <3> QED
      BY <3>1, <1>2
  <2> QED
    BY <2>1, <2>2, <2>3
<1> QED
  BY <1>1, <1>2, <1>5, <1>6, <1>7, <1>8

---------------------------------------------------------------------------
(* One thread goes from one place to another *)

Moved(t, l) ==
  /\ pc' \in [Thread -> Places] /\ pc'[t] = l
  /\ \A u \in Thread : u # t => pc'[u] = pc[u]
In(l, P) == IF l \in P THEN 1 ELSE 0

LEMMA TypeFacts ==
  ASSUME TypeOK
  PROVE  /\ sema \in [Sem -> SemRec] /\ sem_pool \in Seq(Sem) /\ mutex \in MutexRec
         /\ cond \in CondRec /\ mlock \in Thread \cup {NULL}
         /\ clock \in Thread \cup {NULL} /\ pc \in [Thread -> Places]
         /\ loc \in [Thread -> LocRec] /\ holds \in [Thread -> Nat]
<1>1. sema \in [Sem -> SemRec]
  BY DEF TypeOK, SemRec
<1>2. mutex \in MutexRec /\ cond \in CondRec
  BY DEF TypeOK, MutexRec, CondRec
<1>3. loc \in [Thread -> LocRec]
  BY DEF TypeOK, LocRec
<1> QED
  BY <1>1, <1>2, <1>3 DEF TypeOK

LEMMA TypesNext ==
  ASSUME sema' \in [Sem -> SemRec], sem_pool' \in Seq(Sem), mutex' \in MutexRec,
         cond' \in CondRec, mlock' \in Thread \cup {NULL},
         clock' \in Thread \cup {NULL}, pc' \in [Thread -> Places],
         loc' \in [Thread -> LocRec], holds' \in [Thread -> Nat]
  PROVE  TypeOK'
BY DEF TypeOK, SemRec, MutexRec, CondRec, LocRec

LEMMA Goes ==
  ASSUME TypeOK, NEW t \in Thread, NEW l \in Places, Goto(t, l)
  PROVE  Moved(t, l)
BY DEF TypeOK, Goto, Moved

LEMMA Stays ==
  ASSUME TypeOK, NEW t \in Thread, pc' = pc
  PROVE  Moved(t, pc[t])
BY DEF TypeOK, Moved

LEMMA CountMoves ==
  ASSUME TypeOK, NEW P, NEW n \in Nat, Counted(P, n),
         NEW t \in Thread, NEW l, Moved(t, l)
  PROVE  /\ l \in P /\ pc[t] \notin P => Counted(P, n + 1)'
         /\ l \notin P /\ pc[t] \in P => n > 0 /\ Counted(P, n - 1)'
         /\ (l \in P <=> pc[t] \in P) => Counted(P, n)'
<1>1. IsFiniteSet(At(P)) /\ Cardinality(At(P)) = n
  BY DEF Counted
<1>2. CASE l \in P /\ pc[t] \notin P
  <2>1. At(P)' = At(P) \cup {t} /\ t \notin At(P)
    BY <1>2 DEF At, Moved
  <2>2. IsFiniteSet(At(P) \cup {t}) /\ Cardinality(At(P) \cup {t}) = n + 1
    BY <1>1, <2>1, FS_AddElement
  <2>3. IsFiniteSet(At(P)') /\ Cardinality(At(P)') = n + 1
    BY <2>1, <2>2
  <2> QED
    BY <1>2, <2>3 DEF Counted
<1>3. CASE l \notin P /\ pc[t] \in P
  <2>1. At(P)' = At(P) \ {t} /\ t \in At(P)
    BY <1>3 DEF At, Moved
  <2>2. IsFiniteSet(At(P) \ {t}) /\ Cardinality(At(P) \ {t}) = n - 1
    BY <1>1, <2>1, FS_RemoveElement
  <2>3. IsFiniteSet(At(P)') /\ Cardinality(At(P)') = n - 1
    BY <2>1, <2>2
  <2>4. n # 0
    BY <1>1, <2>1, FS_EmptySet
  <2> QED
    BY <1>3, <2>3, <2>4 DEF Counted
<1>4. CASE l \in P <=> pc[t] \in P
  <2>1. At(P)' = At(P)
    BY <1>4 DEF At, Moved
  <2>2. IsFiniteSet(At(P)') /\ Cardinality(At(P)') = n
    BY <2>1, <1>1
  <2> QED
    BY <1>4, <2>2 DEF Counted
<1> QED
  BY <1>2, <1>3, <1>4

LEMMA CountsMove ==
  ASSUME TypeOK, CountInv, NEW t \in Thread, NEW l, Moved(t, l),
         mutex'.waiters = mutex.waiters + In(l, Queuers) - In(pc[t], Queuers),
         cond'.waiters = cond.waiters + In(l, CondUsers) - In(pc[t], CondUsers),
         cond'.sigspending =
           cond.sigspending + In(l, Signallers) - In(pc[t], Signallers)
  PROVE  CountInv' /\ mutex'.waiters \in Nat /\ cond'.waiters \in Nat
         /\ cond'.sigspending \in Nat
<1>1. ASSUME NEW P, NEW n \in Nat, NEW m, Counted(P, n),
             m = n + In(l, P) - In(pc[t], P)
      PROVE  m \in Nat /\ Counted(P, m)'
  <2>1. CASE l \in P /\ pc[t] \notin P
    <3>1. m = n + 1
      BY <1>1, <2>1 DEF In
    <3> QED
      BY <1>1, <2>1, <3>1, CountMoves
  <2>2. CASE l \notin P /\ pc[t] \in P
    <3>1. m = n - 1
      BY <1>1, <2>2 DEF In
    <3>2. n > 0 /\ Counted(P, n - 1)'
      BY <1>1, <2>2, CountMoves
    <3> QED
      BY <3>1, <3>2
  <2>3. CASE l \in P <=> pc[t] \in P
    <3>1. m = n
      BY <1>1, <2>3 DEF In
    <3> QED
      BY <1>1, <2>3, <3>1, CountMoves
  <2> QED
    BY <2>1, <2>2, <2>3
<1>2. /\ mutex.waiters \in Nat /\ cond.waiters \in Nat /\ cond.sigspending \in Nat
      /\ Counted(Queuers, mutex.waiters) /\ Counted(CondUsers, cond.waiters)
      /\ Counted(Signallers, cond.sigspending)
  BY DEF TypeOK, CountInv
<1>3. PICK a, b, c : a = mutex'.waiters /\ b = cond'.waiters /\ c = cond'.sigspending
  OBVIOUS
<1>4. a \in Nat /\ Counted(Queuers, a)'
  BY <1>1, <1>2, <1>3
<1>5. b \in Nat /\ Counted(CondUsers, b)'
  BY <1>1, <1>2, <1>3
<1>6. c \in Nat /\ Counted(Signallers, c)'
  BY <1>1, <1>2, <1>3
<1>7. CountInv'
  BY <1>3, <1>4, <1>5, <1>6 DEF CountInv, Counted
<1> QED
  BY <1>3, <1>4, <1>5, <1>6, <1>7

\* What the three counters say about where the threads are.
LEMMA CountFacts ==
  ASSUME TypeOK, CountInv
  PROVE  /\ mutex.waiters \in Nat /\ cond.waiters \in Nat /\ cond.sigspending \in Nat
         /\ mutex.waiters = 0 <=> \A t \in Thread : pc[t] \notin Queuers
         /\ cond.waiters = 0 <=> \A t \in Thread : pc[t] \notin CondUsers
         /\ cond.sigspending = 0 <=> \A t \in Thread : pc[t] \notin Signallers
         /\ mutex.waiters = 1 => \A t, u \in Thread :
              pc[t] \in Queuers /\ pc[u] \in Queuers => t = u
         /\ cond.waiters = 1 => \A t, u \in Thread :
              pc[t] \in CondUsers /\ pc[u] \in CondUsers => t = u
         /\ cond.sigspending = 1 => \A t, u \in Thread :
              pc[t] \in Signallers /\ pc[u] \in Signallers => t = u
<1>1. ASSUME NEW P, NEW n \in Nat, Counted(P, n)
      PROVE  /\ n = 0 <=> \A t \in Thread : pc[t] \notin P
             /\ n = 1 => \A t, u \in Thread : pc[t] \in P /\ pc[u] \in P => t = u
  <2>1. IsFiniteSet(At(P)) /\ Cardinality(At(P)) = n
    BY <1>1 DEF Counted
  <2>2. n = 0 <=> At(P) = {}
    BY <2>1, FS_EmptySet
  <2>3. ASSUME n = 1, NEW t \in Thread, NEW u \in Thread, pc[t] \in P, pc[u] \in P
        PROVE  t = u
    <3>1. PICK x : At(P) = {x}
      BY <2>1, <2>3, FS_Singleton
    <3> QED
      BY <2>3, <3>1 DEF At
  <2> QED
    BY <2>2, <2>3 DEF At
<1>2. /\ mutex.waiters \in Nat /\ cond.waiters \in Nat /\ cond.sigspending \in Nat
      /\ Counted(Queuers, mutex.waiters) /\ Counted(CondUsers, cond.waiters)
      /\ Counted(Signallers, cond.sigspending)
  BY DEF TypeOK, CountInv
<1> QED
  BY <1>1, <1>2

---------------------------------------------------------------------------
(* What a step keeps of the parts of the invariant *)

LEMMA LockMoves ==
  ASSUME TypeOK, LockInv, NEW t \in Thread, NEW l, Moved(t, l),
         l \in Lockers => mlock \in {NULL, t},
         mlock' = (IF l \in Lockers THEN t
                   ELSE IF pc[t] \in Lockers THEN NULL ELSE mlock),
         l \in {"c_add", "c_remove"} => clock \in {NULL, t},
         clock' = (IF l \in {"c_add", "c_remove"} THEN t
                   ELSE IF pc[t] \in {"c_add", "c_remove"} THEN NULL ELSE clock)
  PROVE  LockInv' /\ mlock' \in Thread \cup {NULL} /\ clock' \in Thread \cup {NULL}
<1>1. mlock \in Thread \cup {NULL} /\ clock \in Thread \cup {NULL} /\ NULL \notin Thread
  BY SemAssumption DEF TypeOK
<1>2. ASSUME NEW u \in Thread
      PROVE  mlock' = u <=> pc'[u] \in Lockers
  BY <1>1 DEF LockInv, Moved
<1>3. ASSUME NEW u \in Thread
      PROVE  clock' = u <=> pc'[u] \in {"c_add", "c_remove"}
  BY <1>1 DEF LockInv, Moved
<1> QED
  BY <1>1, <1>2, <1>3 DEF LockInv

LEMMA HoldMoves ==
  ASSUME TypeOK, HoldInv, NEW t \in Thread, NEW l, Moved(t, l),
         holds' = holds, mutex'.owner = mutex.owner, mutex'.type = mutex.type,
         mutex'.lock_count = mutex.lock_count,
         l \in Owners => holds[t] > 0,
         l \in Switchers => mutex.owner = SWITCHING
  PROVE  HoldInv'
BY DEF HoldInv, Moved

LEMMA MutexMoves ==
  ASSUME TypeOK, MutexUse, NEW t \in Thread, NEW l, Moved(t, l),
         mutex'.owner = mutex.owner, mutex'.sem = mutex.sem,
         mutex'.order = mutex.order, mutex'.waiters = mutex.waiters,
         mutex'.sig = mutex.sig, mutex'.type = mutex.type,
         mutex.sig # "ready" => ~mutex'.busy,
         \A u \in Thread : u # t => loc'[u] = loc[u],
         pc[t] # "l_drain",
         l \in Queuers => loc'[t].sem = mutex.sem /\ loc'[t].order = mutex.order,
         l # "l_drain", l # "l_switch"
  PROVE  MutexUse'
<1>1. (\A u \in Thread : pc'[u] # "l_drain") <=> \A u \in Thread : pc[u] # "l_drain"
  BY DEF Moved
<1>2. ASSUME NEW u \in Thread
      PROVE  /\ pc'[u] \in Queuers \cup {"l_drain"} =>
                  loc'[u].sem = mutex.sem /\ loc'[u].order = mutex.order
             /\ pc'[u] = "l_switch" => loc'[u].sem = mutex.sem
             /\ pc'[u] \in {"l_drain", "l_switch"} => mutex.waiters = 0
  <2>1. CASE u = t
    BY <2>1 DEF Moved
  <2>2. CASE u # t
    BY <2>2 DEF Moved, MutexUse
  <2> QED
    BY <2>1, <2>2
<1> QED
  BY <1>1, <1>2 DEF MutexUse

CondPlaces == Busies \cup CondUsers \cup Signallers

LEMMA CondMoves ==
  ASSUME TypeOK, CondUse, NEW t \in Thread, NEW l, Moved(t, l),
         cond' = cond, mutex'.busy = mutex.busy,
         \A u \in Thread : u # t => loc'[u] = loc[u],
         pc[t] \notin CondPlaces, l \notin CondPlaces
  PROVE  CondUse'
<1>1. \A u \in Thread : pc'[u] \in CondPlaces \/ pc[u] \in CondPlaces =>
        pc'[u] = pc[u] /\ loc'[u] = loc[u]
  BY DEF Moved
<1>2. (\A u \in Thread : pc'[u] \notin Busies) <=> \A u \in Thread : pc[u] \notin Busies
  BY <1>1 DEF CondPlaces
<1>3. ASSUME NEW u \in Thread
      PROVE  /\ pc'[u] \in Signallers \cup {"c_leave"} => loc'[u].sem = cond.sem
             /\ pc'[u] = "c_add" => cond.waiters = 1
             /\ pc'[u] = "c_remove" => cond.waiters = 0
  <2>1. CASE pc'[u] \in CondPlaces
    BY <2>1, <1>1 DEF CondUse
  <2>2. CASE pc'[u] \notin CondPlaces
    BY <2>2 DEF CondPlaces, Busies, CondUsers
  <2> QED
    BY <2>1, <2>2
<1> QED
  BY <1>2, <1>3 DEF CondUse

LEMMA PoolStays ==
  ASSUME PoolInv, sem_pool' = sem_pool, mutex'.sem = mutex.sem,
         mutex'.order = mutex.order, cond'.sem = cond.sem
  PROVE  PoolInv'
BY DEF PoolInv, Pooled

LEMMA PoolChanges ==
  ASSUME NEW p, sem_pool' = p, Distinct(p),
         NEW s, mutex'.sem = s, NEW o, mutex'.order = o, NEW c, cond'.sem = c,
         PoolOf(p) = Sem \ {s, o, c},
         s # NULL => s # o /\ s # c, o # NULL => o # c
  PROVE  PoolInv'
<1>1. Distinct(sem_pool)'
  BY DEF Distinct
<1>2. Pooled' = PoolOf(p)
  BY DEF Pooled, PoolOf
<1> QED
  BY <1>1, <1>2 DEF PoolInv

Sleepers == {"l_woken", "l_switch", "l_order", "c_leave"}

LEMMA QueueStays ==
  ASSUME QueueInv, NEW t \in Thread, NEW l, Moved(t, l),
         sema' = sema, mutex'.sem = mutex.sem, mutex'.order = mutex.order,
         cond'.sem = cond.sem,
         l = pc[t] \/ \A s \in Sem : t \notin QueueOf(sema, s)
  PROVE  QueueInv'
<1>1. Sane(sema)' /\ \A s \in Sem : sema'[s].count = sema[s].count
  BY DEF QueueInv
<1>2. ASSUME NEW s \in Sem, NEW u \in QueueOf(sema, s)
      PROVE  pc'[u] = pc[u] /\ u \in Thread
  <2>1. u \in Thread
    BY DEF QueueOf, Members
  <2> QED
    BY <2>1 DEF Moved
<1>3. ASSUME NEW s \in Sem, NEW u \in QueueOf(sema, s)'
      PROVE  \/ s = mutex'.sem /\ pc'[u] \in {"l_woken", "l_switch"}
             \/ s = mutex'.order /\ pc'[u] = "l_order"
             \/ s = cond'.sem /\ pc'[u] = "c_leave"
  BY <1>2 DEF QueueInv
<1> QED
  BY <1>1, <1>3 DEF QueueInv

LEMMA Awake ==
  ASSUME QueueInv, NEW t \in Thread, pc[t] \notin Sleepers \/ ~Blocked(t)
  PROVE  \A s \in Sem : t \notin QueueOf(sema, s)
BY Queued DEF QueueInv, Sleepers, Blocked

Carrying == {"u_signal", "c_wait", "l_drain", "l_woken", "l_switch"}

LEMMA HasSem ==
  ASSUME TypeOK, HoldInv, CountInv, MutexUse, NEW t \in Thread
  PROVE  /\ pc[t] \in Carrying \cup Queuers => mutex.sem \in Sem
         /\ pc[t] \in Queuers \cup {"l_drain"} => mutex.order \in Sem
<1>1. mutex.waiters = 0 => pc[t] \notin Queuers
  BY CountFacts
<1>2. mutex.sem \in Sem \cup {NULL} /\ mutex.order \in Sem \cup {NULL}
  BY DEF TypeOK
<1> QED
  BY <1>1, <1>2 DEF MutexUse, HoldInv, Carrying, Queuers, Switchers

LEMMA TokenStays ==
  ASSUME TypeOK, HoldInv, CountInv, MutexUse, TokenInv,
         NEW t \in Thread, NEW l, Moved(t, l),
         mutex.sem # NULL => /\ sema'[mutex.sem].count = sema[mutex.sem].count
                             /\ QueueOf(sema', mutex.sem) = QueueOf(sema, mutex.sem),
         mutex'.sem = mutex.sem,
         mutex'.owner = SWITCHING <=> mutex.owner = SWITCHING,
         l = pc[t] \/ (l \notin Carrying /\ ~Carries(t))
  PROVE  TokenInv'
<1>1. ASSUME NEW u \in Thread
      PROVE  Carries(u)' => Carries(u)
  <2>1. pc[u] \in Carrying => mutex.sem # NULL
    BY HasSem, SemAssumption
  <2>2. CASE pc'[u] = pc[u]
    BY <2>1, <2>2 DEF Carries, Carrying
  <2>3. CASE pc'[u] # pc[u]
    BY <2>3 DEF Carries, Carrying, Moved
  <2> QED
    BY <2>2, <2>3
<1>2. \A u \in Thread : Carries(u) => mutex.sem # NULL
  BY HasSem, SemAssumption DEF Carries, Carrying
<1> QED
  BY <1>1, <1>2 DEF TokenInv

LEMMA TurnStays ==
  ASSUME TypeOK, HoldInv, CountInv, MutexUse, TurnInv,
         NEW t \in Thread, NEW l, Moved(t, l),
         mutex.order # NULL => /\ sema'[mutex.order].count = sema[mutex.order].count
                               /\ QueueOf(sema', mutex.order) = QueueOf(sema, mutex.order),
         mutex'.order = mutex.order,
         \/ l = pc[t]
         \/ pc[t] \notin {"l_wait", "l_order", "l_drain"}
            /\ l \notin {"l_wait", "l_order", "l_drain"}
         \/ pc[t] = "l_order" /\ HasTurn(t) /\ l = "l_wait"
  PROVE  TurnInv'
<1>1. ASSUME NEW u \in Thread
      PROVE  /\ HasTurn(u)' <=> HasTurn(u)
             /\ pc'[u] = "l_drain" <=> pc[u] = "l_drain"
             /\ HasTurn(u) \/ pc[u] = "l_drain" => mutex.order # NULL
  <2>1. pc[u] \in {"l_wait", "l_order", "l_drain"} => mutex.order # NULL
    BY HasSem, SemAssumption DEF Queuers
  <2>2. CASE pc'[u] = pc[u]
    BY <2>1, <2>2 DEF HasTurn
  <2>3. CASE pc'[u] # pc[u]
    BY <2>1, <2>3 DEF HasTurn, Moved
  <2> QED
    BY <2>2, <2>3
<1> QED
  BY <1>1 DEF TurnInv

---------------------------------------------------------------------------
(* The mutex is taken *)

LEMMA FoundFacts ==
  ASSUME SyncInv, mutex.sig # "none"
  PROVE  /\ Found \in MutexRec /\ Found.sig = "ready" /\ Found.type = mutex.type
         /\ Found.owner = mutex.owner /\ Found.waiters = mutex.waiters
         /\ Found.lock_count = mutex.lock_count /\ Found.sem = mutex.sem
         /\ Found.order = mutex.order /\ Found.busy = mutex.busy
<1>1. mutex \in MutexRec
  BY DEF SyncInv, TypeOK, MutexRec
<1>2. CASE mutex.sig = "init"
  <2>1. /\ mutex.owner = NULL /\ ~mutex.busy /\ mutex.type = "NORMAL"
        /\ mutex.lock_count = 0 /\ mutex.sem = NULL /\ mutex.waiters = 0
    BY <1>1, <1>2, MutexAssumption DEF SyncInv, MutexUse, HoldInv, MutexRec
  <2>2. \A t \in Thread : pc[t] # "l_drain"
    BY <2>1, MutexAssumption DEF SyncInv, HoldInv, Switchers
  <2>3. mutex.order = NULL
    BY <2>1, <2>2 DEF SyncInv, MutexUse
  <2>4. Found = Initialized("NORMAL") /\ mutex.busy \in BOOLEAN /\ 0 \in 0..MaxCount
    BY <1>1, <1>2, MutexAssumption DEF Found, MutexRec
  <2> QED
    BY <2>1, <2>3, <2>4 DEF Initialized, MutexRec
<1>3. CASE mutex.sig # "init"
  BY <1>1, <1>3 DEF Found, MutexRec
<1> QED
  BY <1>2, <1>3

LEMMA FoundCondFacts ==
  ASSUME SyncInv, cond.sig # "none"
  PROVE  /\ FoundCond \in CondRec /\ FoundCond.sig = "ready"
         /\ FoundCond.waiters = cond.waiters /\ FoundCond.sem = cond.sem
         /\ FoundCond.sigspending = cond.sigspending /\ FoundCond.busy = cond.busy
<1>1. cond \in CondRec
  BY DEF SyncInv, TypeOK, CondRec
<1>2. CASE cond.sig = "init"
  <2>1. cond.waiters = 0 /\ ~cond.busy /\ cond.sigspending = 0 /\ cond.sem = NULL
    BY <1>1, <1>2 DEF SyncInv, CondUse, CondRec
  <2>2. FoundCond = CondInitialized /\ cond.busy \in BOOLEAN
    BY <1>1, <1>2 DEF FoundCond, CondRec
  <2> QED
    BY <2>1, <2>2 DEF CondInitialized, CondRec
<1>3. CASE cond.sig # "init"
  BY <1>1, <1>3 DEF FoundCond, CondRec
<1> QED
  BY <1>2, <1>3

LEMMA LocalsType ==
  ASSUME NEW s \in Sem \cup {NULL}, NEW o \in Sem \cup {NULL}
  PROVE  Locals(s, o) \in LocRec /\ Locals(s, o).sem = s /\ Locals(s, o).order = o
BY DEF Locals, LocRec

LEMMA TakeFacts ==
  ASSUME TypeOK, NEW t \in Thread, NEW m \in MutexRec, m.type = Found.type, Take(t, m)
  PROVE  /\ mutex' \in MutexRec
         /\ mutex'.owner = (IF m.type = "NORMAL" THEN SELF ELSE t)
         /\ mutex'.lock_count = 1 /\ mutex'.sig = m.sig /\ mutex'.type = m.type
         /\ mutex'.waiters = m.waiters /\ mutex'.sem = m.sem
         /\ mutex'.order = m.order /\ mutex'.busy = m.busy
         /\ mlock' = NULL /\ holds' \in [Thread -> Nat]
         /\ holds'[t] = holds[t] + 1
         /\ \A u \in Thread : u # t => holds'[u] = holds[u] /\ loc'[u] = loc[u]
         /\ loc' \in [Thread -> LocRec] /\ Moved(t, "idle")
<1>1. PICK r : r = [m EXCEPT !.lock_count = 1, !.owner = Self(t)]
  OBVIOUS
<1>2. Self(t) = (IF m.type = "NORMAL" THEN SELF ELSE t) /\ 1 \in 0..MaxCount
  BY MutexAssumption DEF Self
<1>3. /\ r \in MutexRec /\ r.owner = Self(t) /\ r.lock_count = 1 /\ r.sig = m.sig
      /\ r.type = m.type /\ r.waiters = m.waiters /\ r.sem = m.sem
      /\ r.order = m.order /\ r.busy = m.busy
  BY <1>1, <1>2 DEF MutexRec
<1>4. /\ mutex' = r /\ mlock' = NULL /\ holds' = [holds EXCEPT ![t] = @ + 1]
      /\ Goto(t, "idle") /\ loc' = [loc EXCEPT ![t] = Locals(NULL, NULL)]
  BY <1>1 DEF Take, Return
<1>5. holds \in [Thread -> Nat] /\ loc \in [Thread -> LocRec] /\ Locals(NULL, NULL) \in LocRec
  BY LocalsType DEF TypeOK, LocRec
<1>6. Moved(t, "idle")
  BY <1>4, Goes DEF Places
<1>7. /\ holds' \in [Thread -> Nat] /\ holds'[t] = holds[t] + 1
      /\ \A u \in Thread : u # t => holds'[u] = holds[u]
  BY <1>4, <1>5
<1>8. loc' \in [Thread -> LocRec] /\ \A u \in Thread : u # t => loc'[u] = loc[u]
  BY <1>4, <1>5
<1> QED
  BY <1>2, <1>3, <1>4, <1>6, <1>7, <1>8

\* Nobody holds a mutex that is free or on its way.
LEMMA NotHeld ==
  ASSUME TypeOK, HoldInv, mutex.owner = NULL \/ mutex.owner = SWITCHING
  PROVE  /\ \A u \in Thread : holds[u] = 0 /\ pc[u] \notin Owners
         /\ mutex.owner = NULL => \A u \in Thread : pc[u] \notin Switchers
<1>1. ASSUME NEW u \in Thread PROVE holds[u] = 0
  <2>1. holds[u] \in Nat
    BY DEF TypeOK
  <2>2. ~(holds[u] > 0)
    BY SemAssumption, MutexAssumption DEF HoldInv
  <2> QED
    BY <2>1, <2>2
<1> QED
  BY <1>1, MutexAssumption DEF HoldInv

\* Whoever takes the mutex is the only one who may.
LEMMA TakeHeld ==
  ASSUME SyncInv, NEW t \in Thread, NEW m \in MutexRec, Take(t, m),
         m.type = mutex.type, Found.type = mutex.type,
         mlock = NULL \/ mlock = t,
         mutex.owner = NULL \/ Carries(t)
  PROVE  /\ HoldInv'
         /\ mutex.owner = NULL \/ mutex.owner = SWITCHING
         /\ \A u \in Thread : u # t => ~Carries(u) /\ pc[u] \notin Switchers
<1>0. TypeOK /\ HoldInv /\ TokenInv /\ LockInv
  BY DEF SyncInv
<1>1. mutex.owner = NULL \/ mutex.owner = SWITCHING
  BY <1>0 DEF TokenInv
<1>2. \A u \in Thread : holds[u] = 0 /\ pc[u] \notin Owners
  BY <1>0, <1>1, NotHeld
<1>3. ASSUME NEW u \in Thread, u # t PROVE ~Carries(u)
  <2>1. CASE mutex.owner = NULL
    BY <1>0, <2>1, MutexAssumption DEF TokenInv
  <2>2. CASE Carries(t)
    BY <1>0, <1>3, <2>2 DEF TokenInv
  <2> QED
    BY <2>1, <2>2
<1>4. ASSUME NEW u \in Thread, u # t PROVE pc[u] \notin Switchers
  <2>1. pc[u] \notin {"l_drain", "l_switch"}
    BY <1>0, <1>4, SemAssumption DEF LockInv, Lockers
  <2> QED
    BY <2>1, <1>3, <1>4 DEF Carries, Switchers
<1>5. /\ mutex'.owner = (IF m.type = "NORMAL" THEN SELF ELSE t) /\ mutex'.type = m.type
      /\ mutex'.lock_count = 1 /\ holds'[t] = holds[t] + 1
      /\ \A u \in Thread : u # t => holds'[u] = holds[u]
      /\ Moved(t, "idle")
  BY <1>0, TakeFacts
<1>6. holds'[t] = 1 /\ \A u \in Thread : u # t => holds'[u] = 0
  BY <1>2, <1>5
<1>7. pc'[t] = "idle" /\ \A u \in Thread : u # t => pc'[u] = pc[u]
  BY <1>5 DEF Moved
<1>8. SELF \notin Thread /\ SELF # NULL /\ SELF # SWITCHING /\ NULL \notin Thread
      /\ SWITCHING \notin Thread
  BY MutexAssumption, SemAssumption
<1>9. mutex'.owner # NULL /\ mutex'.owner # SWITCHING
      /\ \A u \in Thread : mutex'.owner = u => u = t
  BY <1>5, <1>8
<1>10. \A u \in Thread : pc'[u] \notin Owners /\ pc'[u] \notin Switchers
  BY <1>2, <1>4, <1>7 DEF Owners, Switchers
<1>11. HoldInv'
  BY <1>5, <1>6, <1>9, <1>10 DEF HoldInv
<1> QED
  BY <1>1, <1>3, <1>4, <1>11

\* What every way to take the mutex keeps ...
Taking(t, m) ==
  /\ SyncInv /\ Take(t, m) /\ m \in MutexRec
  /\ m.sig = "ready" /\ m.type = mutex.type /\ Found.type = mutex.type
  /\ m.busy = mutex.busy
  /\ m.waiters = mutex.waiters - In(pc[t], Queuers)
  /\ cond' = cond /\ clock' = clock /\ sema' = sema
  /\ pc[t] \in {"idle", "c_relock", "l_woken", "l_drain", "l_switch"}
  /\ mlock = NULL \/ mlock = t
  /\ mutex.owner = NULL \/ Carries(t)
  /\ m.sem = mutex.sem \/ (m.sem = NULL /\ mutex.waiters = 0)

LEMMA TakeStep ==
  ASSUME NEW t \in Thread, NEW m, Taking(t, m), sem_pool' \in Seq(Sem)
  PROVE  /\ TypeOK' /\ LockInv' /\ HoldInv' /\ CountInv' /\ CondUse' /\ TokenInv'
         /\ Moved(t, "idle") /\ mutex'.owner # SWITCHING /\ mutex'.owner # NULL
         /\ \A u \in Thread : u # t => loc'[u] = loc[u] /\ pc[u] \notin Switchers
         /\ mutex'.waiters = m.waiters /\ mutex'.sem = m.sem
         /\ mutex'.order = m.order /\ mutex'.sig = "ready"
<1>0. /\ TypeOK /\ LockInv /\ HoldInv /\ CountInv /\ MutexUse /\ CondUse
      /\ PoolInv /\ QueueInv /\ TokenInv /\ TurnInv /\ SyncInv
      /\ m \in MutexRec /\ Take(t, m) /\ m.type = mutex.type /\ Found.type = mutex.type
      /\ (mlock = NULL \/ mlock = t) /\ (mutex.owner = NULL \/ Carries(t))
      /\ cond' = cond /\ clock' = clock /\ sema' = sema
      /\ pc[t] \in {"idle", "c_relock", "l_woken", "l_drain", "l_switch"}
  BY DEF Taking, SyncInv
<1>1. /\ mutex' \in MutexRec
      /\ mutex'.owner = (IF m.type = "NORMAL" THEN SELF ELSE t)
      /\ mutex'.lock_count = 1 /\ mutex'.sig = m.sig /\ mutex'.type = m.type
      /\ mutex'.waiters = m.waiters /\ mutex'.sem = m.sem
      /\ mutex'.order = m.order /\ mutex'.busy = m.busy
      /\ mlock' = NULL /\ holds' \in [Thread -> Nat]
      /\ holds'[t] = holds[t] + 1
      /\ \A u \in Thread : u # t => holds'[u] = holds[u] /\ loc'[u] = loc[u]
      /\ loc' \in [Thread -> LocRec] /\ Moved(t, "idle")
  BY <1>0, TakeFacts
<1>2. /\ HoldInv'
      /\ mutex.owner = NULL \/ mutex.owner = SWITCHING
      /\ \A u \in Thread : u # t => ~Carries(u) /\ pc[u] \notin Switchers
  BY <1>0, TakeHeld
<1>3. mutex'.owner # SWITCHING /\ mutex'.owner # NULL
  BY <1>1, MutexAssumption, SemAssumption
<1>4. TypeOK'
  <2>1. pc' \in [Thread -> Places]
    BY <1>1 DEF Moved
  <2> QED
    BY <1>0, <1>1, <2>1, SemAssumption DEF TypeOK, MutexRec, LocRec
<1>5. LockInv'
  <2>1. mlock' = (IF "idle" \in Lockers THEN t
                  ELSE IF pc[t] \in Lockers THEN NULL ELSE mlock)
    BY <1>0, <1>1 DEF LockInv, Lockers
  <2>2. clock' = (IF "idle" \in {"c_add", "c_remove"} THEN t
                  ELSE IF pc[t] \in {"c_add", "c_remove"} THEN NULL ELSE clock)
    BY <1>0
  <2> QED
    BY <1>0, <1>1, <2>1, <2>2, LockMoves DEF Lockers
<1>6. CountInv'
  <2>1. mutex'.waiters = mutex.waiters + In("idle", Queuers) - In(pc[t], Queuers)
    <3>1. In("idle", Queuers) = 0 /\ mutex.waiters \in Nat
      BY <1>0, CountFacts DEF In, Queuers
    <3>2. In(pc[t], Queuers) \in Int
      BY DEF In
    <3> QED
      BY <1>1, <3>1, <3>2 DEF Taking
  <2>2. cond'.waiters = cond.waiters + In("idle", CondUsers) - In(pc[t], CondUsers)
    BY <1>0, CountFacts DEF In, CondUsers
  <2>3. cond'.sigspending =
          cond.sigspending + In("idle", Signallers) - In(pc[t], Signallers)
    BY <1>0, CountFacts DEF In, Signallers
  <2> QED
    BY <1>0, <1>1, <2>1, <2>2, <2>3, CountsMove
<1>7. CondUse'
  <2>1. pc[t] \notin CondPlaces /\ "idle" \notin CondPlaces /\ mutex'.busy = mutex.busy
    BY <1>0, <1>1 DEF CondPlaces, Busies, CondUsers, Signallers, Taking
  <2> QED
    BY <1>0, <1>1, <2>1, CondMoves
<1>8. ASSUME NEW u \in Thread PROVE ~Carries(u)'
  <2>1. CASE u = t
    BY <1>1, <2>1 DEF Carries, Moved
  <2>2. CASE u # t
    <3>1. pc'[u] = pc[u] /\ ~Carries(u) /\ pc[u] # "l_switch"
      BY <1>1, <1>2, <2>2 DEF Moved, Switchers
    <3>2. CASE m.sem = mutex.sem
      BY <1>0, <1>1, <3>1, <3>2 DEF Carries
    <3>3. CASE mutex.waiters = 0
      <4>1. pc[u] # "l_woken"
        BY <1>0, <3>3, CountFacts DEF Queuers
      <4> QED
        BY <3>1, <4>1 DEF Carries
    <3> QED
      BY <3>2, <3>3 DEF Taking
  <2> QED
    BY <2>1, <2>2
<1>9. mutex'.sem # NULL => sema'[mutex'.sem].count = 0
  <2> SUFFICES ASSUME m.sem # NULL PROVE sema[m.sem].count = 0
    BY <1>0, <1>1
  <2>1. m.sem \in Sem
    BY <1>0 DEF MutexRec
  <2>2. sema[m.sem].count \in Nat
    BY <1>0, <2>1, SaneSem DEF QueueInv
  <2>3. m.sem = mutex.sem => sema[m.sem].count = 0
    BY <1>0, <1>2, <2>2, MutexAssumption, SemAssumption DEF TokenInv
  <2>4. m.sem # mutex.sem => sema[m.sem].count = 0
    BY <1>0 DEF Taking
  <2> QED
    BY <2>3, <2>4
<1>10. TokenInv'
  BY <1>8, <1>9 DEF TokenInv
<1> QED
  BY <1>1, <1>2, <1>3, <1>4, <1>5, <1>6, <1>7, <1>10 DEF Taking

\* ... and what it keeps when the mutex keeps its semaphores, or has none.
LEMMA TakeKeeps ==
  ASSUME NEW t \in Thread, NEW m, Taking(t, m), sem_pool' = sem_pool,
         m.sem = mutex.sem, m.order = mutex.order,
         m.waiters = 0 <=> mutex.waiters = 0,
         m.waiters = 0 <=> mutex.sem = NULL,
         pc[t] # "l_drain", pc[t] # "l_switch",
         pc[t] \notin Sleepers \/ ~Blocked(t)
  PROVE  SyncInv'
<1>0. /\ TypeOK /\ HoldInv /\ CountInv /\ MutexUse /\ CondUse
      /\ PoolInv /\ QueueInv /\ TurnInv /\ sem_pool \in Seq(Sem)
      /\ cond' = cond /\ clock' = clock /\ sema' = sema
      /\ pc[t] \in {"idle", "c_relock", "l_woken", "l_drain", "l_switch"}
  BY DEF Taking, SyncInv, TypeOK
<1>1. /\ TypeOK' /\ LockInv' /\ HoldInv' /\ CountInv' /\ CondUse' /\ TokenInv'
      /\ Moved(t, "idle") /\ mutex'.owner # SWITCHING /\ mutex'.owner # NULL
      /\ \A u \in Thread : u # t => loc'[u] = loc[u] /\ pc[u] \notin Switchers
      /\ mutex'.waiters = m.waiters /\ mutex'.sem = mutex.sem
      /\ mutex'.order = mutex.order /\ mutex'.sig = "ready"
  BY <1>0, TakeStep
<1>2. MutexUse'
  <2>1. \A u \in Thread : pc[u] \notin {"l_drain", "l_switch"}
    BY <1>0, <1>1 DEF Switchers
  <2>2. ASSUME NEW u \in Thread
        PROVE  pc'[u] \notin {"l_drain", "l_switch"}
               /\ (pc'[u] \in Queuers => u # t /\ pc[u] \in Queuers)
    BY <1>1, <2>1 DEF Moved, Queuers
  <2>3. ASSUME NEW u \in Thread, pc'[u] \in Queuers
        PROVE  loc'[u].sem = mutex.sem /\ loc'[u].order = mutex.order
    BY <1>0, <1>1, <2>2, <2>3 DEF MutexUse
  <2>4. mutex.order = NULL <=> mutex'.waiters = 0
    BY <1>0, <1>1, <2>1 DEF MutexUse
  <2>5. mutex.sem = NULL <=> mutex'.waiters = 0
    BY <1>1
  <2> QED
    BY <1>1, <2>2, <2>3, <2>4, <2>5 DEF MutexUse
<1>3. PoolInv'
  BY <1>0, <1>1, PoolStays
<1>4. QueueInv'
  <2>1. \A s \in Sem : t \notin QueueOf(sema, s)
    BY <1>0, Awake
  <2> QED
    BY <1>0, <1>1, <2>1, QueueStays
<1>5. TurnInv'
  <2>1. "idle" \notin {"l_wait", "l_order", "l_drain"}
        /\ pc[t] \notin {"l_wait", "l_order", "l_drain"}
    BY <1>0
  <2> QED
    BY <1>0, <1>1, <2>1, TurnStays
<1> QED
  BY <1>1, <1>2, <1>3, <1>4, <1>5 DEF SyncInv

LEMMA LockFreeStep ==
  ASSUME SyncInv, NEW t \in Thread, LockFree(t), UNCHANGED condVars
  PROVE  SyncInv'
<1>1. /\ Found \in MutexRec /\ Found.sig = "ready" /\ Found.type = mutex.type
      /\ Found.owner = mutex.owner /\ Found.waiters = mutex.waiters
      /\ Found.sem = mutex.sem /\ Found.order = mutex.order /\ Found.busy = mutex.busy
  BY FoundFacts DEF LockFree, LockCalled
<1>2. /\ Take(t, Found) /\ mutex.owner = NULL /\ mlock = NULL
      /\ pc[t] \in {"idle", "c_relock"}
      /\ sema' = sema /\ sem_pool' = sem_pool /\ cond' = cond /\ clock' = clock
  BY <1>1 DEF LockFree, LockCalled, LOCK, semVars, condVars
<1>3. mutex.waiters = 0 /\ mutex.sem = NULL
  BY <1>2, MutexAssumption, CountFacts DEF SyncInv, MutexUse
<1>4. In(pc[t], Queuers) = 0 /\ mutex.waiters = mutex.waiters - 0
  BY <1>2, <1>3 DEF In, Queuers
<1>5. PICK m : m = Found
  OBVIOUS
<1>6. Taking(t, m)
  BY <1>1, <1>2, <1>4, <1>5 DEF Taking
<1>7. pc[t] \notin Sleepers /\ pc[t] # "l_drain" /\ pc[t] # "l_switch"
  BY <1>2 DEF Sleepers
<1> QED
  BY <1>1, <1>2, <1>3, <1>5, <1>6, <1>7, TakeKeeps

\* The thread that was signalled has the mutex in its hands.
LEMMA WokenCarries ==
  ASSUME SyncInv, NEW t \in Thread, pc[t] \in {"l_woken", "l_drain", "l_switch"},
         ~Blocked(t)
  PROVE  /\ Carries(t) /\ mutex.owner = SWITCHING /\ mutex.sem \in Sem
         /\ mutex \in MutexRec /\ mutex.sig = "ready" /\ Found.type = mutex.type
         /\ loc[t].sem = mutex.sem /\ sema[mutex.sem].count = 0
         /\ \A s \in Sem : t \notin QueueOf(sema, s)
<1>1. mutex.sem \in Sem
  BY HasSem DEF SyncInv, Carrying
<1>2. \A s \in Sem : t \notin QueueOf(sema, s)
  BY Awake DEF SyncInv
<1>3. Carries(t)
  BY <1>1, <1>2 DEF Carries
<1>4. mutex.owner = SWITCHING /\ sema[mutex.sem].count = 0 /\ mutex \in MutexRec
  BY <1>3 DEF SyncInv, TokenInv, TypeOK, MutexRec
<1>5. mutex.sig = "ready" /\ Found.type = mutex.type
  BY <1>4, MutexAssumption DEF SyncInv, MutexUse, Found
<1>6. loc[t].sem = mutex.sem
  BY DEF SyncInv, MutexUse, Queuers
<1> QED
  BY <1>1, <1>2, <1>3, <1>4, <1>5, <1>6

LEMMA WakeUpStep ==
  ASSUME SyncInv, NEW t \in Thread, WakeUp(t), UNCHANGED condVars
  PROVE  SyncInv'
<1>1. /\ Carries(t) /\ mutex.owner = SWITCHING /\ mutex.sem \in Sem
      /\ mutex \in MutexRec /\ mutex.sig = "ready" /\ Found.type = mutex.type
  BY WokenCarries DEF WakeUp
<1>2. PICK m : m = [mutex EXCEPT !.waiters = @ - 1]
  OBVIOUS
<1>3. mutex.waiters > 1 /\ mutex.waiters \in Nat
  BY <1>1 DEF WakeUp, MutexRec
<1>4. /\ m \in MutexRec /\ m.sig = "ready" /\ m.type = mutex.type
      /\ m.waiters = mutex.waiters - 1 /\ m.busy = mutex.busy
      /\ m.sem = mutex.sem /\ m.order = mutex.order
  BY <1>1, <1>2, <1>3 DEF MutexRec
<1>5. /\ Take(t, m) /\ mlock = NULL /\ pc[t] = "l_woken" /\ ~Blocked(t)
      /\ sema' = sema /\ sem_pool' = sem_pool /\ cond' = cond /\ clock' = clock
  BY <1>2 DEF WakeUp, LOCK, semVars, condVars
<1>6. In(pc[t], Queuers) = 1
  BY <1>5 DEF In, Queuers
<1>7. Taking(t, m)
  BY <1>1, <1>4, <1>5, <1>6 DEF Taking
<1>8. m.waiters # 0 /\ mutex.waiters # 0 /\ mutex.sem # NULL
  BY <1>1, <1>3, <1>4, SemAssumption
<1> QED
  BY <1>4, <1>5, <1>7, <1>8, TakeKeeps

\* The last waiter takes the mutex and gives its semaphores back.
LEMMA LastFacts ==
  ASSUME SyncInv, NEW t \in Thread, pc[t] \in {"l_drain", "l_switch"}
  PROVE  /\ mlock = t /\ mutex.waiters = 0
         /\ \A u \in Thread : pc[u] \notin Queuers
         /\ \A u \in Thread : pc[u] \in {"l_drain", "l_switch"} => u = t
         /\ pc[t] = "l_switch" => mutex.order = NULL
<1>1. mlock = t /\ mutex.waiters = 0
  BY DEF SyncInv, LockInv, Lockers, MutexUse
<1>2. \A u \in Thread : pc[u] \notin Queuers
  BY <1>1, CountFacts DEF SyncInv
<1>3. \A u \in Thread : pc[u] \in {"l_drain", "l_switch"} => u = t
  BY <1>1 DEF SyncInv, LockInv, Lockers
<1>4. pc[t] = "l_switch" => mutex.order = NULL
  BY <1>1, <1>3 DEF SyncInv, MutexUse
<1> QED
  BY <1>1, <1>2, <1>3, <1>4

LEMMA TakeLast ==
  ASSUME NEW t \in Thread, NEW m, Taking(t, m), pc[t] \in {"l_drain", "l_switch"},
         ~Blocked(t), m.sem = NULL, m.order = NULL, m.waiters = 0,
         sem_pool' \in Seq(Sem), PoolInv'
  PROVE  SyncInv'
<1>0. /\ SyncInv /\ TypeOK /\ HoldInv /\ CountInv /\ MutexUse /\ CondUse
      /\ PoolInv /\ QueueInv /\ TurnInv
      /\ cond' = cond /\ clock' = clock /\ sema' = sema
  BY DEF Taking, SyncInv
<1>1. /\ TypeOK' /\ LockInv' /\ HoldInv' /\ CountInv' /\ CondUse' /\ TokenInv'
      /\ Moved(t, "idle") /\ mutex'.owner # SWITCHING /\ mutex'.owner # NULL
      /\ mutex'.waiters = 0 /\ mutex'.sem = NULL
      /\ mutex'.order = NULL /\ mutex'.sig = "ready"
  BY <1>0, TakeStep
<1>2. /\ mutex.waiters = 0 /\ \A u \in Thread : pc[u] \notin Queuers
      /\ \A u \in Thread : pc[u] \in {"l_drain", "l_switch"} => u = t
      /\ pc[t] = "l_switch" => mutex.order = NULL
  BY <1>0, LastFacts
<1>3. \A u \in Thread : pc'[u] \notin Queuers \cup {"l_drain", "l_switch"}
  BY <1>1, <1>2 DEF Moved, Queuers
<1>4. MutexUse'
  BY <1>1, <1>3 DEF MutexUse
<1>5. QueueInv'
  <2>1. /\ sema[mutex.sem].count = 0
        /\ \A s \in Sem : t \notin QueueOf(sema, s)
    BY <1>0, WokenCarries
  <2>2. \A s \in Sem : sema[s].count = 0
    <3> SUFFICES ASSUME NEW s \in Sem PROVE sema[s].count = 0
      OBVIOUS
    <3>1. CASE s = mutex.order
      BY <1>0, <1>2, <3>1, SemAssumption DEF TurnInv
    <3>2. CASE s # mutex.order
      BY <1>0, <2>1, <3>2 DEF QueueInv
    <3> QED
      BY <3>1, <3>2
  <2>3. ASSUME NEW s \in Sem, NEW u \in QueueOf(sema, s)
        PROVE  s = cond'.sem /\ pc'[u] = "c_leave"
    <3>1. u \in Thread /\ u # t
      BY <2>1, <2>3 DEF QueueOf, Members
    <3>2. s = cond.sem /\ pc[u] = "c_leave"
      BY <1>0, <1>2, <2>3, <3>1 DEF QueueInv, Queuers
    <3> QED
      BY <1>0, <1>1, <3>1, <3>2 DEF Moved
  <2>4. Sane(sema)' /\ (\A s \in Sem : sema'[s].count = 0)
        /\ (\A s \in Sem : QueueOf(sema, s)' = QueueOf(sema, s))
    BY <1>0, <2>2 DEF QueueInv
  <2> QED
    BY <2>3, <2>4 DEF QueueInv
<1>6. TurnInv'
  BY <1>1, <1>3 DEF TurnInv, HasTurn, Queuers
<1> QED
  BY <1>1, <1>4, <1>5, <1>6 DEF SyncInv

LEMMA DrainedStep ==
  ASSUME SyncInv, NEW t \in Thread, Drained(t), UNCHANGED condVars
  PROVE  SyncInv'
<1>0. pc[t] = "l_drain" /\ ~Blocked(t) /\ PoolInv /\ sem_pool \in Seq(Sem) /\ TypeOK
  BY DEF Drained, SyncInv, TypeOK
<1>1. /\ Carries(t) /\ mutex.owner = SWITCHING /\ mutex.sem \in Sem
      /\ mutex \in MutexRec /\ mutex.sig = "ready" /\ Found.type = mutex.type
      /\ loc[t].sem = mutex.sem /\ mlock = t /\ mutex.waiters = 0
  BY <1>0, WokenCarries, LastFacts
<1>2. mutex.order \in Sem /\ loc[t].order = mutex.order
  BY <1>0, HasSem DEF SyncInv, MutexUse
<1>3. PICK m : m = [mutex EXCEPT !.sem = NULL, !.order = NULL]
  OBVIOUS
<1>4. /\ m \in MutexRec /\ m.sig = "ready" /\ m.type = mutex.type
      /\ m.waiters = mutex.waiters /\ m.busy = mutex.busy
      /\ m.sem = NULL /\ m.order = NULL
  BY <1>1, <1>3 DEF MutexRec
<1>5. /\ Take(t, m) /\ sema' = sema /\ cond' = cond /\ clock' = clock
      /\ sem_pool' = <<mutex.sem>> \o (<<mutex.order>> \o sem_pool)
  BY <1>1, <1>2, <1>3 DEF Drained, Restored, condVars
<1>6. In(pc[t], Queuers) = 0
  BY <1>0 DEF In, Queuers
<1>7. Taking(t, m)
  BY <1>0, <1>1, <1>4, <1>5, <1>6 DEF Taking
<1>8. PICK s, o : s = mutex.sem /\ o = mutex.order
  OBVIOUS
<1>9. /\ s \in Sem /\ o \in Sem /\ s # o /\ s # NULL /\ o # NULL
      /\ s \notin PoolOf(sem_pool) /\ o \notin PoolOf(sem_pool) /\ Distinct(sem_pool)
      /\ s # cond.sem /\ o # cond.sem
      /\ PoolOf(sem_pool) = Sem \ {s, o, cond.sem}
  BY <1>0, <1>1, <1>2, <1>8, SemAssumption DEF PoolInv, Pooled, PoolOf
<1>10. PICK p : p = <<o>> \o sem_pool
  OBVIOUS
<1>11. p \in Seq(Sem) /\ Distinct(p) /\ PoolOf(p) = PoolOf(sem_pool) \cup {o}
  BY <1>0, <1>9, <1>10, Restores
<1>12. /\ sem_pool' \in Seq(Sem) /\ Distinct(sem_pool')
       /\ PoolOf(sem_pool') = PoolOf(p) \cup {s}
  <2>1. sem_pool' = <<s>> \o p
    BY <1>5, <1>8, <1>10
  <2>2. s \notin PoolOf(p)
    BY <1>9, <1>11
  <2> QED
    BY <1>9, <1>11, <2>1, <2>2, Restores
<1>13. mutex'.sem = NULL /\ mutex'.order = NULL
  BY <1>4, <1>7, <1>12, TakeStep
<1>14. PoolInv'
  <2>1. PICK q, c : q = sem_pool' /\ c = cond.sem
    OBVIOUS
  <2>2. Distinct(q) /\ PoolOf(q) = Sem \ {NULL, NULL, c} /\ cond'.sem = c
    BY <1>5, <1>9, <1>11, <1>12, <2>1, SemAssumption
  <2> QED
    BY <1>13, <2>1, <2>2, PoolChanges
<1> QED
  BY <1>0, <1>1, <1>4, <1>7, <1>12, <1>14, TakeLast

LEMMA SwitchedStep ==
  ASSUME SyncInv, NEW t \in Thread, Switched(t), UNCHANGED condVars
  PROVE  SyncInv'
<1>0. pc[t] = "l_switch" /\ ~Blocked(t) /\ PoolInv /\ sem_pool \in Seq(Sem) /\ TypeOK
  BY DEF Switched, SyncInv, TypeOK
<1>1. /\ Carries(t) /\ mutex.owner = SWITCHING /\ mutex.sem \in Sem
      /\ mutex \in MutexRec /\ mutex.sig = "ready" /\ Found.type = mutex.type
      /\ loc[t].sem = mutex.sem /\ mlock = t /\ mutex.waiters = 0
      /\ mutex.order = NULL
  BY <1>0, WokenCarries, LastFacts
<1>2. PICK m : m = [mutex EXCEPT !.sem = NULL]
  OBVIOUS
<1>3. /\ m \in MutexRec /\ m.sig = "ready" /\ m.type = mutex.type
      /\ m.waiters = mutex.waiters /\ m.busy = mutex.busy
      /\ m.sem = NULL /\ m.order = NULL
  BY <1>1, <1>2 DEF MutexRec
<1>4. /\ Take(t, m) /\ sema' = sema /\ cond' = cond /\ clock' = clock
      /\ sem_pool' = <<mutex.sem>> \o sem_pool
  BY <1>1, <1>2 DEF Switched, Restored, condVars
<1>5. In(pc[t], Queuers) = 0
  BY <1>0 DEF In, Queuers
<1>6. Taking(t, m)
  BY <1>0, <1>1, <1>3, <1>4, <1>5 DEF Taking
<1>7. PICK s : s = mutex.sem
  OBVIOUS
<1>8. /\ s \in Sem /\ s # NULL /\ s \notin PoolOf(sem_pool) /\ Distinct(sem_pool)
      /\ s # cond.sem /\ PoolOf(sem_pool) = Sem \ {s, cond.sem}
  BY <1>0, <1>1, <1>7, SemAssumption DEF PoolInv, Pooled, PoolOf
<1>9. /\ sem_pool' \in Seq(Sem) /\ Distinct(sem_pool')
      /\ PoolOf(sem_pool') = PoolOf(sem_pool) \cup {s}
  BY <1>0, <1>4, <1>7, <1>8, Restores
<1>10. mutex'.sem = NULL /\ mutex'.order = NULL
  BY <1>3, <1>6, <1>9, TakeStep
<1>11. PoolInv'
  <2>1. PICK q, c : q = sem_pool' /\ c = cond.sem
    OBVIOUS
  <2>2. Distinct(q) /\ PoolOf(q) = Sem \ {NULL, NULL, c} /\ cond'.sem = c
    BY <1>4, <1>8, <1>9, <2>1, SemAssumption
  <2> QED
    BY <1>10, <2>1, <2>2, PoolChanges
<1> QED
  BY <1>0, <1>1, <1>3, <1>6, <1>9, <1>11, TakeLast

---------------------------------------------------------------------------
(* Steps that leave the queues alone *)

\* A call that returns at once, or that only ends.
LEMMA QuietStep ==
  ASSUME SyncInv, NEW t \in Thread, Moved(t, "idle"), pc[t] \in {"idle", "c_relock"},
         sema' = sema, sem_pool' = sem_pool, cond' = cond, clock' = clock,
         mlock' = mlock, mutex'.sem = mutex.sem, mutex'.order = mutex.order,
         mutex'.waiters = mutex.waiters, mutex'.type = mutex.type,
         mutex'.busy = mutex.busy,
         mutex'.owner = SWITCHING <=> mutex.owner = SWITCHING,
         mutex.waiters > 0 => mutex'.owner # NULL,
         mutex'.sig # "ready" => mutex'.owner = NULL /\ ~mutex.busy,
         mutex'.sig = "init" => mutex.sig = "init",
         \A u \in Thread : u # t => loc'[u] = loc[u],
         TypeOK', HoldInv'
  PROVE  SyncInv'
<1>0. /\ TypeOK /\ LockInv /\ HoldInv /\ CountInv /\ MutexUse /\ CondUse
      /\ PoolInv /\ QueueInv /\ TokenInv /\ TurnInv
  BY DEF SyncInv
<1>1. /\ pc[t] \notin Sleepers /\ pc[t] \notin CondPlaces /\ "idle" \notin CondPlaces
      /\ pc[t] \notin Carrying /\ "idle" \notin Carrying
      /\ pc[t] \notin {"l_wait", "l_order", "l_drain"}
      /\ "idle" \notin {"l_wait", "l_order", "l_drain"}
  BY DEF Sleepers, CondPlaces, Busies, CondUsers, Signallers, Carrying
<1>2. LockInv'
  <2>1. /\ "idle" \notin Lockers /\ pc[t] \notin Lockers
        /\ "idle" \notin {"c_add", "c_remove"} /\ pc[t] \notin {"c_add", "c_remove"}
    BY DEF Lockers
  <2> QED
    BY <1>0, <2>1, LockMoves
<1>3. CountInv'
  <2>1. /\ In("idle", Queuers) = 0 /\ In(pc[t], Queuers) = 0
        /\ In("idle", CondUsers) = 0 /\ In(pc[t], CondUsers) = 0
        /\ In("idle", Signallers) = 0 /\ In(pc[t], Signallers) = 0
    BY DEF In, Queuers, CondUsers, Signallers
  <2>2. mutex.waiters \in Nat /\ cond.waiters \in Nat /\ cond.sigspending \in Nat
    BY <1>0, CountFacts
  <2>3. /\ mutex'.waiters = mutex.waiters + In("idle", Queuers) - In(pc[t], Queuers)
        /\ cond'.waiters = cond.waiters + In("idle", CondUsers) - In(pc[t], CondUsers)
        /\ cond'.sigspending =
             cond.sigspending + In("idle", Signallers) - In(pc[t], Signallers)
    BY <2>1, <2>2
  <2> QED
    BY <1>0, <2>3, CountsMove
<1>4. MutexUse'
  <2>1. ASSUME NEW u \in Thread
        PROVE  pc'[u] \in Queuers \cup {"l_drain", "l_switch"} =>
                 pc'[u] = pc[u] /\ loc'[u] = loc[u]
    BY DEF Moved, Queuers
  <2>2. (\A u \in Thread : pc'[u] # "l_drain") <=> \A u \in Thread : pc[u] # "l_drain"
    BY <1>1 DEF Moved
  <2>3. ASSUME NEW u \in Thread
        PROVE  /\ pc'[u] \in Queuers \cup {"l_drain"} =>
                    loc'[u].sem = mutex.sem /\ loc'[u].order = mutex.order
               /\ pc'[u] = "l_switch" => loc'[u].sem = mutex.sem
               /\ pc'[u] \in {"l_drain", "l_switch"} => mutex.waiters = 0
    BY <1>0, <2>1 DEF MutexUse
  <2> QED
    BY <1>0, <2>2, <2>3 DEF MutexUse
<1>5. CondUse'
  BY <1>0, <1>1, CondMoves
<1>6. PoolInv'
  BY <1>0, PoolStays
<1>7. QueueInv'
  <2>1. \A s \in Sem : t \notin QueueOf(sema, s)
    BY <1>0, <1>1, Awake
  <2> QED
    BY <1>0, <2>1, QueueStays
<1>8. TokenInv'
  <2>1. ~Carries(t)
    BY <1>1 DEF Carries, Carrying
  <2> QED
    BY <1>0, <1>1, <2>1, TokenStays
<1>9. TurnInv'
  BY <1>0, <1>1, TurnStays
<1> QED
  BY <1>2, <1>3, <1>4, <1>5, <1>6, <1>7, <1>8, <1>9 DEF SyncInv

LEMMA Returns ==
  ASSUME TypeOK, NEW t \in Thread, Return(t)
  PROVE  /\ Moved(t, "idle") /\ loc' \in [Thread -> LocRec]
         /\ \A u \in Thread : u # t => loc'[u] = loc[u]
<1>1. Moved(t, "idle")
  BY Goes DEF Return, Places
<1>2. loc \in [Thread -> LocRec] /\ Locals(NULL, NULL) \in LocRec
  BY LocalsType DEF TypeOK, LocRec
<1> QED
  BY <1>1, <1>2 DEF Return

\* The holder of a recursive mutex counts its locks.
LEMMA HoldChanges ==
  ASSUME TypeOK, HoldInv, NEW t \in Thread, holds[t] > 0, mutex.type = "RECURSIVE",
         NEW k \in Nat, k > 0,
         mutex'.owner = mutex.owner, mutex'.type = mutex.type, mutex'.lock_count = k,
         holds'[t] = k, \A u \in Thread : u # t => holds'[u] = holds[u],
         NEW l, Moved(t, l), l \notin Switchers
  PROVE  HoldInv'
<1>1. mutex.owner = t /\ \A u \in Thread : holds[u] > 0 => u = t
  BY DEF HoldInv
<1>2. mutex'.owner # NULL /\ mutex'.owner # SWITCHING
  BY <1>1, SemAssumption, MutexAssumption
<1>3. ASSUME NEW u \in Thread
      PROVE  /\ holds'[u] > 0 => u = t
             /\ pc'[u] \in Owners => holds'[u] > 0
             /\ pc'[u] \notin Switchers
  <2>1. CASE u = t
    BY <2>1 DEF Moved
  <2>2. CASE u # t
    BY <1>1, <1>2, <2>2 DEF Moved, HoldInv
  <2> QED
    BY <2>1, <2>2
<1> QED
  BY <1>1, <1>2, <1>3 DEF HoldInv

LEMMA LockAgainStep ==
  ASSUME SyncInv, NEW t \in Thread, LockAgain(t), UNCHANGED condVars
  PROVE  SyncInv'
<1>1. /\ Found \in MutexRec /\ Found.sig = "ready" /\ Found.type = mutex.type
      /\ Found.owner = mutex.owner /\ Found.waiters = mutex.waiters
      /\ Found.lock_count = mutex.lock_count /\ Found.sem = mutex.sem
      /\ Found.order = mutex.order /\ Found.busy = mutex.busy
  BY FoundFacts DEF LockAgain, LockCalled
<1>2. /\ mutex.type = "RECURSIVE" /\ mutex.owner = t /\ mutex.lock_count < MaxCount
      /\ pc[t] \in {"idle", "c_relock"} /\ Return(t)
      /\ holds' = [holds EXCEPT ![t] = @ + 1]
      /\ sema' = sema /\ sem_pool' = sem_pool /\ cond' = cond /\ clock' = clock
      /\ mlock' = mlock
  BY <1>1 DEF LockAgain, LockCalled, semVars, condVars
<1>3. /\ TypeOK /\ HoldInv /\ holds[t] > 0 /\ mutex.lock_count = holds[t]
      /\ holds[t] \in Nat /\ holds \in [Thread -> Nat] /\ MaxCount \in Nat
  BY <1>2, MutexAssumption DEF SyncInv, HoldInv, TypeOK
<1>4. PICK k : k = mutex.lock_count + 1
  OBVIOUS
<1>5. k \in 0..MaxCount /\ k \in Nat /\ k > 0
  BY <1>1, <1>2, <1>3, <1>4
<1>6. /\ mutex' \in MutexRec /\ mutex'.lock_count = k /\ mutex'.sig = "ready"
      /\ mutex'.type = mutex.type /\ mutex'.owner = mutex.owner
      /\ mutex'.waiters = mutex.waiters /\ mutex'.sem = mutex.sem
      /\ mutex'.order = mutex.order /\ mutex'.busy = mutex.busy
  <2>1. mutex' = [Found EXCEPT !.lock_count = k]
    BY <1>1, <1>4 DEF LockAgain
  <2> QED
    BY <1>1, <1>5, <2>1 DEF MutexRec
<1>7. /\ holds' \in [Thread -> Nat] /\ holds'[t] = k
      /\ \A u \in Thread : u # t => holds'[u] = holds[u]
  BY <1>2, <1>3, <1>4
<1>8. /\ Moved(t, "idle") /\ loc' \in [Thread -> LocRec]
      /\ \A u \in Thread : u # t => loc'[u] = loc[u]
  BY <1>2, <1>3, Returns
<1>9. TypeOK'
  BY <1>2, <1>3, <1>6, <1>7, <1>8 DEF TypeOK, MutexRec, LocRec, Moved
<1>10. HoldInv'
  BY <1>2, <1>3, <1>5, <1>6, <1>7, <1>8, HoldChanges DEF Switchers
<1>11. mutex'.owner # NULL
  BY <1>2, <1>6, SemAssumption
<1> QED
  BY <1>2, <1>6, <1>8, <1>9, <1>10, <1>11, QuietStep

\* The mutex is given up.
LEMMA UnlockFacts ==
  ASSUME SyncInv, NEW t \in Thread, UnlockCalled(t)
  PROVE  /\ mutex \in MutexRec /\ mutex.sig = "ready" /\ mlock = NULL
         /\ pc[t] = "idle" /\ holds[t] > 0 /\ mutex.lock_count = holds[t]
         /\ mutex.owner # NULL /\ mutex.owner # SWITCHING
         /\ LastUnlock(t) => holds[t] = 1
<1>1. /\ mutex \in MutexRec /\ mlock = NULL /\ pc[t] = "idle" /\ holds[t] > 0
      /\ mutex.owner = Self(t)
  BY DEF UnlockCalled, LOCK, SyncInv, TypeOK, MutexRec
<1>2. mutex.owner # NULL /\ mutex.owner # SWITCHING
  BY <1>1, SemAssumption, MutexAssumption DEF Self
<1>3. mutex.sig = "ready" /\ mutex.lock_count = holds[t]
  BY <1>1, <1>2 DEF SyncInv, MutexUse, HoldInv, MutexRec
<1>4. LastUnlock(t) => holds[t] = 1
  BY <1>1, <1>3 DEF SyncInv, HoldInv, LastUnlock
<1> QED
  BY <1>1, <1>2, <1>3, <1>4

LEMMA HoldGone ==
  ASSUME TypeOK, HoldInv, NEW t \in Thread, holds[t] = 1, holds'[t] = 0,
         \A u \in Thread : u # t => holds'[u] = holds[u],
         mutex'.owner \in {NULL, SWITCHING}, mutex'.lock_count = 0,
         NEW l, Moved(t, l), l \notin Owners,
         l \in Switchers => mutex'.owner = SWITCHING
  PROVE  HoldInv'
<1>1. /\ \A u \in Thread : holds[u] > 0 => u = t
      /\ mutex.owner # SWITCHING
  BY SemAssumption, MutexAssumption DEF HoldInv
<1>2. ASSUME NEW u \in Thread
      PROVE  /\ ~(holds'[u] > 0) /\ pc'[u] \notin Owners
             /\ pc'[u] \in Switchers => mutex'.owner = SWITCHING
             /\ mutex'.owner # u
  <2>1. mutex'.owner # u
    BY SemAssumption, MutexAssumption
  <2>2. CASE u = t
    BY <2>1, <2>2 DEF Moved
  <2>3. CASE u # t
    BY <1>1, <2>1, <2>3 DEF Moved, HoldInv
  <2> QED
    BY <2>2, <2>3
<1> QED
  BY <1>2 DEF HoldInv

LEMMA UnlockOnceStep ==
  ASSUME SyncInv, NEW t \in Thread, UnlockOnce(t), UNCHANGED condVars
  PROVE  SyncInv'
<1>1. /\ mutex \in MutexRec /\ mutex.sig = "ready" /\ mlock = NULL
      /\ pc[t] = "idle" /\ holds[t] > 0 /\ mutex.lock_count = holds[t]
      /\ mutex.owner # NULL
  BY UnlockFacts DEF UnlockOnce
<1>2. /\ mutex.type = "RECURSIVE" /\ mutex.lock_count > 1
      /\ holds' = [holds EXCEPT ![t] = @ - 1]
      /\ sema' = sema /\ sem_pool' = sem_pool /\ cond' = cond /\ clock' = clock
      /\ mlock' = mlock /\ pc' = pc /\ loc' = loc
      /\ mutex' = [mutex EXCEPT !.lock_count = @ - 1]
  BY DEF UnlockOnce, Release, semVars, condVars
<1>3. TypeOK /\ HoldInv /\ holds[t] \in Nat /\ holds \in [Thread -> Nat] /\ MaxCount \in Nat
  BY MutexAssumption DEF SyncInv, TypeOK
<1>4. PICK k : k = mutex.lock_count - 1
  OBVIOUS
<1>5. k \in 0..MaxCount /\ k \in Nat /\ k > 0
  BY <1>1, <1>2, <1>3, <1>4 DEF MutexRec
<1>6. /\ mutex' \in MutexRec /\ mutex'.lock_count = k /\ mutex'.sig = "ready"
      /\ mutex'.type = mutex.type /\ mutex'.owner = mutex.owner
      /\ mutex'.waiters = mutex.waiters /\ mutex'.sem = mutex.sem
      /\ mutex'.order = mutex.order /\ mutex'.busy = mutex.busy
  <2>1. mutex' = [mutex EXCEPT !.lock_count = k]
    BY <1>2, <1>4
  <2> QED
    BY <1>1, <1>5, <2>1 DEF MutexRec
<1>7. /\ holds' \in [Thread -> Nat] /\ holds'[t] = k
      /\ \A u \in Thread : u # t => holds'[u] = holds[u]
  BY <1>1, <1>2, <1>3, <1>4, <1>5
<1>8. Moved(t, "idle")
  BY <1>1, <1>2, <1>3, Stays
<1>9. TypeOK'
  BY <1>2, <1>3, <1>6, <1>7 DEF TypeOK, MutexRec
<1>10. HoldInv'
  BY <1>1, <1>2, <1>3, <1>5, <1>6, <1>7, <1>8, HoldChanges DEF Switchers
<1> QED
  BY <1>1, <1>2, <1>6, <1>8, <1>9, <1>10, QuietStep

LEMMA UnlockFreeStep ==
  ASSUME SyncInv, NEW t \in Thread, UnlockFree(t), UNCHANGED condVars
  PROVE  SyncInv'
<1>1. /\ mutex \in MutexRec /\ mutex.sig = "ready" /\ mlock = NULL
      /\ pc[t] = "idle" /\ holds[t] = 1 /\ mutex.owner # SWITCHING
  BY UnlockFacts DEF UnlockFree, LastUnlock
<1>2. /\ mutex.waiters = 0 /\ holds' = [holds EXCEPT ![t] = @ - 1]
      /\ sema' = sema /\ sem_pool' = sem_pool /\ cond' = cond /\ clock' = clock
      /\ mlock' = mlock /\ pc' = pc /\ loc' = loc
      /\ mutex' = [mutex EXCEPT !.lock_count = 0, !.owner = NULL]
  BY DEF UnlockFree, Release, semVars, condVars
<1>3. TypeOK /\ HoldInv /\ holds \in [Thread -> Nat] /\ MaxCount \in Nat
  BY MutexAssumption DEF SyncInv, TypeOK
<1>4. /\ mutex' \in MutexRec /\ mutex'.lock_count = 0 /\ mutex'.sig = "ready"
      /\ mutex'.type = mutex.type /\ mutex'.owner = NULL
      /\ mutex'.waiters = mutex.waiters /\ mutex'.sem = mutex.sem
      /\ mutex'.order = mutex.order /\ mutex'.busy = mutex.busy
  <2>1. PICK r : r = [mutex EXCEPT !.lock_count = 0, !.owner = NULL]
    OBVIOUS
  <2>2. 0 \in 0..MaxCount
    BY <1>3
  <2>3. /\ r \in MutexRec /\ r.lock_count = 0 /\ r.sig = "ready"
        /\ r.type = mutex.type /\ r.owner = NULL
        /\ r.waiters = mutex.waiters /\ r.sem = mutex.sem
        /\ r.order = mutex.order /\ r.busy = mutex.busy
    BY <1>1, <2>1, <2>2 DEF MutexRec
  <2> QED
    BY <1>2, <2>1, <2>3
<1>5. /\ holds' \in [Thread -> Nat] /\ holds'[t] = 0
      /\ \A u \in Thread : u # t => holds'[u] = holds[u]
  BY <1>1, <1>2, <1>3
<1>6. Moved(t, "idle")
  BY <1>1, <1>2, <1>3, Stays
<1>7. TypeOK'
  BY <1>2, <1>3, <1>4, <1>5 DEF TypeOK, MutexRec
<1>8. HoldInv'
  BY <1>1, <1>3, <1>4, <1>5, <1>6, HoldGone DEF Owners, Switchers
<1>9. NULL # SWITCHING
  BY MutexAssumption
<1> QED
  BY <1>1, <1>2, <1>4, <1>6, <1>7, <1>8, <1>9, QuietStep

LEMMA DestroyStep ==
  ASSUME SyncInv, NEW t \in Thread, Destroy(t), UNCHANGED condVars
  PROVE  SyncInv'
<1>1. /\ mutex.owner = NULL /\ ~mutex.busy /\ mlock = NULL /\ pc[t] = "idle"
      /\ sema' = sema /\ sem_pool' = sem_pool /\ cond' = cond /\ clock' = clock
      /\ mlock' = mlock /\ pc' = pc /\ loc' = loc /\ holds' = holds
      /\ mutex' = [mutex EXCEPT !.sig = "none"]
  BY DEF Destroy, LOCK, semVars, condVars
<1>2. TypeOK /\ HoldInv /\ mutex \in MutexRec
  BY DEF SyncInv, TypeOK, MutexRec
<1>3. /\ mutex' \in MutexRec /\ mutex'.sig = "none" /\ mutex'.owner = NULL
      /\ mutex'.lock_count = mutex.lock_count /\ mutex'.type = mutex.type
      /\ mutex'.waiters = mutex.waiters /\ mutex'.sem = mutex.sem
      /\ mutex'.order = mutex.order /\ mutex'.busy = mutex.busy
  BY <1>1, <1>2 DEF MutexRec
<1>4. Moved(t, "idle")
  BY <1>1, <1>2, Stays
<1>5. TypeOK'
  BY <1>1, <1>2, <1>3 DEF TypeOK, MutexRec
<1>6. HoldInv'
  BY <1>1, <1>2, <1>3, <1>4, HoldMoves DEF Owners, Switchers
<1>7. mutex.waiters = 0
  BY <1>1, <1>2, MutexAssumption, CountFacts DEF SyncInv, MutexUse
<1> QED
  BY <1>1, <1>3, <1>4, <1>5, <1>6, <1>7, QuietStep

LEMMA LockFailsStep ==
  ASSUME SyncInv, NEW t \in Thread, LockFails(t), UNCHANGED condVars
  PROVE  SyncInv'
<1>1. /\ pc[t] = "c_relock" /\ Return(t)
      /\ sema' = sema /\ sem_pool' = sem_pool /\ cond' = cond /\ clock' = clock
      /\ mlock' = mlock /\ mutex' = mutex /\ holds' = holds
  BY DEF LockFails, semVars, condVars
<1>2. TypeOK /\ HoldInv /\ MutexUse
  BY DEF SyncInv
<1>3. /\ Moved(t, "idle") /\ loc' \in [Thread -> LocRec]
      /\ \A u \in Thread : u # t => loc'[u] = loc[u]
  BY <1>1, <1>2, Returns
<1>4. TypeOK'
  BY <1>1, <1>2, <1>3 DEF TypeOK, LocRec, Moved
<1>5. HoldInv'
  BY <1>1, <1>2, <1>3, HoldMoves DEF Owners, Switchers
<1> QED
  BY <1>1, <1>2, <1>3, <1>4, <1>5, QuietStep DEF MutexUse

LEMMA RefusedStep ==
  ASSUME SyncInv, UNCHANGED syncVars
  PROVE  SyncInv'
<1>1. /\ sema' = sema /\ sem_pool' = sem_pool /\ cond' = cond /\ clock' = clock
      /\ mlock' = mlock /\ mutex' = mutex /\ holds' = holds /\ pc' = pc /\ loc' = loc
  BY DEF syncVars, semVars, mutexVars
<1>2. /\ TypeOK' /\ LockInv' /\ HoldInv' /\ MutexUse' /\ CondUse' /\ PoolInv'
  BY <1>1 DEF SyncInv, TypeOK, LockInv, HoldInv, MutexUse, CondUse, PoolInv, Pooled
<1>3. CountInv'
  BY <1>1 DEF SyncInv, CountInv, Counted, At
<1>4. QueueInv' /\ TokenInv' /\ TurnInv'
  BY <1>1 DEF SyncInv, QueueInv, TokenInv, TurnInv, Carries, HasTurn
<1> QED
  BY <1>2, <1>3, <1>4 DEF SyncInv

\* The mutex is initialized again, when no thread is in a call.
LEMMA InitMutexStep ==
  ASSUME SyncInv, InitMutex, UNCHANGED condVars
  PROVE  SyncInv'
<1>1. /\ mutex.sig = "none" /\ \A t \in Thread : pc[t] = "idle"
      /\ sema' = sema /\ sem_pool' = sem_pool /\ cond' = cond /\ clock' = clock
      /\ mlock' = mlock /\ holds' = holds /\ pc' = pc /\ loc' = loc
  BY DEF InitMutex, semVars, condVars
<1>2. PICK type \in Types : mutex' = Initialized(type)
  BY DEF InitMutex
<1>3. /\ mutex' \in MutexRec /\ mutex'.sig = "ready" /\ mutex'.owner = NULL
      /\ mutex'.waiters = 0 /\ mutex'.lock_count = 0 /\ mutex'.sem = NULL
      /\ mutex'.order = NULL /\ mutex'.busy = FALSE
  <2>1. type \in {"NORMAL", "ERRORCHECK", "RECURSIVE"} /\ 0 \in 0..MaxCount
    BY MutexAssumption
  <2> QED
    BY <1>2, <2>1 DEF Initialized, MutexRec
<1>4. /\ TypeOK /\ HoldInv /\ CountInv /\ MutexUse /\ mutex.owner = NULL /\ ~mutex.busy
  BY <1>1 DEF SyncInv, MutexUse
<1>5. mutex.waiters = 0 /\ mutex.sem = NULL /\ mutex.order = NULL
  BY <1>1, <1>4, CountFacts, MutexAssumption DEF MutexUse, Queuers
<1>6. TypeOK' /\ LockInv'
  BY <1>1, <1>3 DEF SyncInv, TypeOK, MutexRec, LockInv
<1>7. HoldInv'
  <2>1. \A u \in Thread : holds[u] = 0
    BY <1>4, NotHeld
  <2>2. \A u \in Thread : pc'[u] \notin Owners /\ pc'[u] \notin Switchers
    BY <1>1 DEF Owners, Switchers
  <2> QED
    BY <1>1, <1>3, <2>1, <2>2, SemAssumption DEF HoldInv
<1>8. CountInv'
  BY <1>1, <1>3, <1>5 DEF SyncInv, CountInv, Counted, At
<1>9. MutexUse'
  <2>1. \A u \in Thread : pc'[u] \notin Queuers \cup {"l_drain", "l_switch"}
    BY <1>1 DEF Queuers
  <2> QED
    BY <1>3, <2>1, MutexAssumption DEF MutexUse
<1>10. CondUse'
  <2>1. cond' = cond /\ mutex'.busy = mutex.busy
    BY <1>1, <1>3, <1>4 DEF TypeOK
  <2> QED
    BY <1>1, <2>1 DEF SyncInv, CondUse
<1>11. PoolInv' /\ QueueInv'
  <2>1. mutex'.sem = mutex.sem /\ mutex'.order = mutex.order
    BY <1>3, <1>5
  <2>2. PoolInv'
    BY <1>1, <2>1, PoolStays DEF SyncInv
  <2>3. QueueInv'
    BY <1>1, <2>1 DEF SyncInv, QueueInv
  <2> QED
    BY <2>2, <2>3
<1>12. TokenInv' /\ TurnInv'
  BY <1>1, <1>3 DEF TokenInv, TurnInv, Carries, HasTurn
<1> QED
  BY <1>6, <1>7, <1>8, <1>9, <1>10, <1>11, <1>12 DEF SyncInv

---------------------------------------------------------------------------
(* Steps that hand the mutex over *)

\* One thread may join a queue, others may leave one.
LEMMA QueueChanges ==
  ASSUME QueueInv, NEW t \in Thread, NEW l, Moved(t, l), Sane(sema'),
         mutex'.sem = mutex.sem, mutex'.order = mutex.order, cond'.sem = cond.sem,
         \A s \in Sem : s \notin {mutex.sem, mutex.order} => sema'[s].count = 0,
         \A s \in Sem : \A u \in QueueOf(sema', s) :
           \/ u # t /\ u \in QueueOf(sema, s)
           \/ u = t /\ \/ s = mutex.sem /\ l \in {"l_woken", "l_switch"}
                       \/ s = mutex.order /\ l = "l_order"
                       \/ s = cond.sem /\ l = "c_leave"
  PROVE  QueueInv'
<1>1. Sane(sema)'
  BY DEF Sane
<1>2. ASSUME NEW s \in Sem, NEW u \in QueueOf(sema', s)
      PROVE  \/ s = mutex'.sem /\ pc'[u] \in {"l_woken", "l_switch"}
             \/ s = mutex'.order /\ pc'[u] = "l_order"
             \/ s = cond'.sem /\ pc'[u] = "c_leave"
  <2>1. u \in Thread
    BY DEF QueueOf, Members
  <2>2. CASE u = t
    BY <2>1, <2>2 DEF Moved
  <2>3. CASE u # t
    BY <2>1, <2>3 DEF Moved, QueueInv
  <2> QED
    BY <2>2, <2>3
<1>3. \A s \in Sem : QueueOf(sema, s)' = QueueOf(sema', s)
  BY DEF QueueOf
<1> QED
  BY <1>1, <1>2, <1>3 DEF QueueInv

\* The signal wakes up the first thread that waits, or is left in mutex.sem.
LEMMA TokenPassed ==
  ASSUME TypeOK, HoldInv, CountInv, MutexUse, QueueInv, TokenInv,
         NEW t \in Thread, pc[t] \in {"u_signal", "c_wait"},
         NEW S, S = Signalled(sema, mutex.sem),
         sema'[mutex.sem].count = S[mutex.sem].count,
         QueueOf(sema', mutex.sem) = QueueOf(S, mutex.sem),
         mutex' = mutex, NEW l, Moved(t, l), l \notin Carrying
  PROVE  TokenInv'
<1>1. mutex.sem \in Sem /\ Sane(sema)
  BY HasSem DEF Carrying, QueueInv
<1>2. /\ mutex.owner = SWITCHING /\ sema[mutex.sem].count = 0
      /\ \A u \in Thread : Carries(u) => u = t
  <2>1. Carries(t)
    BY DEF Carries
  <2> QED
    BY <2>1 DEF TokenInv
<1>3. PICK s : s = mutex.sem
  OBVIOUS
<1>4. \A u \in Thread : Carries(u)' <=>
        u # t /\ pc[u] \in {"l_woken", "l_switch"} /\ u \notin QueueOf(S, s)
  <2>1. ASSUME NEW u \in Thread, u # t
        PROVE  Carries(u)' <=> pc[u] \in {"l_woken", "l_switch"} /\ u \notin QueueOf(S, s)
    <3>1. pc'[u] = pc[u] /\ ~Carries(u)
      BY <1>2, <2>1 DEF Moved
    <3>2. QueueOf(sema, mutex.sem)' = QueueOf(S, s)
      <4>1. QueueOf(sema, mutex.sem)' = QueueOf(sema', mutex.sem)
        BY DEF QueueOf
      <4> QED
        BY <4>1, <1>3
    <3> QED
      BY <3>1, <3>2 DEF Carries
  <2>2. ~Carries(t)'
    BY DEF Carries, Carrying, Moved
  <2> QED
    BY <2>1, <2>2
<1>5. \A u \in Thread : u # t /\ pc[u] \in {"l_woken", "l_switch"} => u \in QueueOf(sema, s)
  BY <1>2, <1>3 DEF Carries
<1>6. CASE QueueOf(sema, s) = {}
  <2>1. S[s].count = 1
    <3>1. S[s].count = sema[s].count + 1
      BY <1>1, <1>3, <1>6, SignalledQueue
    <3> QED
      BY <1>2, <1>3, <3>1
  <2>2. \A u \in Thread : ~Carries(u)'
    BY <1>4, <1>5, <1>6
  <2> QED
    BY <1>2, <1>3, <2>1, <2>2 DEF TokenInv
<1>7. CASE QueueOf(sema, s) # {}
  <2>1. S[s].count = 0 /\ \E h \in QueueOf(sema, s) : QueueOf(S, s) = QueueOf(sema, s) \ {h}
    BY <1>1, <1>2, <1>3, <1>7, SignalledQueue
  <2>2. PICK h \in QueueOf(sema, s) : QueueOf(S, s) = QueueOf(sema, s) \ {h}
    BY <2>1
  <2>3. \A u \in Thread : Carries(u)' => u = h
    BY <1>4, <1>5, <2>2
  <2> QED
    BY <1>2, <1>3, <2>1, <2>3 DEF TokenInv
<1> QED
  BY <1>6, <1>7

LEMMA UnlockSwitchingStep ==
  ASSUME SyncInv, NEW t \in Thread, UnlockSwitching(t), UNCHANGED condVars
  PROVE  SyncInv'
<1>0. /\ TypeOK /\ LockInv /\ HoldInv /\ CountInv /\ MutexUse /\ CondUse
      /\ PoolInv /\ QueueInv /\ TokenInv /\ TurnInv
  BY DEF SyncInv
<1>1. /\ mutex \in MutexRec /\ mutex.sig = "ready" /\ mlock = NULL
      /\ pc[t] = "idle" /\ holds[t] = 1 /\ mutex.owner # SWITCHING
  BY UnlockFacts DEF UnlockSwitching, LastUnlock
<1>2. /\ mutex.waiters > 0 /\ holds' = [holds EXCEPT ![t] = @ - 1]
      /\ sema' = sema /\ sem_pool' = sem_pool /\ cond' = cond /\ clock' = clock
      /\ mlock' = mlock /\ loc' = loc /\ Goto(t, "u_signal")
      /\ mutex' = [mutex EXCEPT !.lock_count = 0, !.owner = SWITCHING]
  BY DEF UnlockSwitching, Release, semVars, condVars
<1>3. holds \in [Thread -> Nat] /\ MaxCount \in Nat /\ mutex.waiters \in Nat
  BY <1>0, MutexAssumption DEF TypeOK
<1>4. /\ mutex' \in MutexRec /\ mutex'.lock_count = 0 /\ mutex'.sig = "ready"
      /\ mutex'.type = mutex.type /\ mutex'.owner = SWITCHING
      /\ mutex'.waiters = mutex.waiters /\ mutex'.sem = mutex.sem
      /\ mutex'.order = mutex.order /\ mutex'.busy = mutex.busy
  <2>1. PICK r : r = [mutex EXCEPT !.lock_count = 0, !.owner = SWITCHING]
    OBVIOUS
  <2>2. 0 \in 0..MaxCount
    BY <1>3
  <2>3. /\ r \in MutexRec /\ r.lock_count = 0 /\ r.sig = "ready"
        /\ r.type = mutex.type /\ r.owner = SWITCHING
        /\ r.waiters = mutex.waiters /\ r.sem = mutex.sem
        /\ r.order = mutex.order /\ r.busy = mutex.busy
    BY <1>1, <2>1, <2>2 DEF MutexRec
  <2> QED
    BY <1>2, <2>1, <2>3
<1>5. /\ holds' \in [Thread -> Nat] /\ holds'[t] = 0
      /\ \A u \in Thread : u # t => holds'[u] = holds[u]
  BY <1>1, <1>2, <1>3
<1>6. Moved(t, "u_signal")
  BY <1>0, <1>2, Goes DEF Places
<1>7. TypeOK'
  BY <1>0, <1>2, <1>4, <1>5, <1>6 DEF TypeOK, MutexRec, Moved
<1>8. HoldInv'
  BY <1>0, <1>1, <1>4, <1>5, <1>6, HoldGone DEF Owners
<1>9. /\ pc[t] \notin Sleepers /\ pc[t] \notin CondPlaces /\ "u_signal" \notin CondPlaces
      /\ pc[t] \notin {"l_wait", "l_order", "l_drain"}
      /\ "u_signal" \notin {"l_wait", "l_order", "l_drain"}
  BY <1>1 DEF Sleepers, CondPlaces, Busies, CondUsers, Signallers
<1>10. LockInv'
  <2>1. /\ "u_signal" \notin Lockers /\ pc[t] \notin Lockers
        /\ "u_signal" \notin {"c_add", "c_remove"} /\ pc[t] \notin {"c_add", "c_remove"}
    BY <1>1 DEF Lockers
  <2> QED
    BY <1>0, <1>2, <1>6, <2>1, LockMoves
<1>11. CountInv'
  <2>1. /\ In("u_signal", Queuers) = 0 /\ In(pc[t], Queuers) = 0
        /\ In("u_signal", CondUsers) = 0 /\ In(pc[t], CondUsers) = 0
        /\ In("u_signal", Signallers) = 0 /\ In(pc[t], Signallers) = 0
    BY <1>1 DEF In, Queuers, CondUsers, Signallers
  <2>2. cond.waiters \in Nat /\ cond.sigspending \in Nat
    BY <1>0, CountFacts
  <2>3. /\ mutex'.waiters = mutex.waiters + In("u_signal", Queuers) - In(pc[t], Queuers)
        /\ cond'.waiters = cond.waiters + In("u_signal", CondUsers) - In(pc[t], CondUsers)
        /\ cond'.sigspending =
             cond.sigspending + In("u_signal", Signallers) - In(pc[t], Signallers)
    BY <1>2, <1>3, <1>4, <2>1, <2>2
  <2> QED
    BY <1>0, <1>6, <2>3, CountsMove
<1>12. mutex.sem \in Sem /\ mutex.order \in Sem /\ mutex.waiters # 0
  BY <1>0, <1>2, <1>3 DEF MutexUse, TypeOK
<1>13. MutexUse'
  <2>1. ASSUME NEW u \in Thread
        PROVE  pc'[u] \in Queuers \cup {"l_drain", "l_switch"} => pc'[u] = pc[u]
    BY <1>6 DEF Moved, Queuers
  <2>2. ASSUME NEW u \in Thread
        PROVE  /\ pc'[u] \in Queuers \cup {"l_drain"} =>
                    loc'[u].sem = mutex.sem /\ loc'[u].order = mutex.order
               /\ pc'[u] = "l_switch" => loc'[u].sem = mutex.sem
               /\ pc'[u] \in {"l_drain", "l_switch"} => mutex.waiters = 0
    BY <1>0, <1>2, <2>1 DEF MutexUse
  <2>3. SWITCHING # NULL
    BY MutexAssumption
  <2> QED
    BY <1>0, <1>4, <1>12, <2>2, <2>3, SemAssumption DEF MutexUse
<1>14. CondUse'
  BY <1>0, <1>2, <1>4, <1>6, <1>9, CondMoves
<1>15. PoolInv'
  BY <1>0, <1>2, <1>4, PoolStays
<1>16. QueueInv'
  <2>1. \A s \in Sem : t \notin QueueOf(sema, s)
    BY <1>0, <1>9, Awake
  <2> QED
    BY <1>0, <1>2, <1>4, <1>6, <2>1, QueueStays
<1>17. TokenInv'
  <2>1. \A u \in Thread : ~Carries(u)
    BY <1>0, <1>1 DEF TokenInv
  <2>2. \A u \in Thread : Carries(u)' => u = t
    BY <1>2, <1>4, <1>6, <2>1 DEF Moved, Carries
  <2>3. sema[mutex.sem].count = 0
    <3>1. sema[mutex.sem].count \in Nat
      BY <1>0, <1>12, SaneSem DEF QueueInv
    <3> QED
      BY <1>0, <1>1, <1>12, <3>1, SemAssumption DEF TokenInv
  <2> QED
    BY <1>2, <1>4, <2>2, <2>3 DEF TokenInv
<1>18. TurnInv'
  BY <1>0, <1>2, <1>4, <1>6, <1>9, TurnStays
<1> QED
  BY <1>7, <1>8, <1>10, <1>11, <1>13, <1>14, <1>15, <1>16, <1>17, <1>18 DEF SyncInv

\* What the condition variable notices of a step of the mutex.
LEMMA MutexSide ==
  ASSUME SyncInv, NEW t \in Thread, NEW l, Moved(t, l),
         pc[t] \notin CondPlaces, l \notin CondPlaces,
         cond' = cond, clock' = clock, mutex'.busy = mutex.busy,
         \A u \in Thread : u # t => loc'[u] = loc[u],
         l \in Lockers => mlock \in {NULL, t},
         mlock' = (IF l \in Lockers THEN t
                   ELSE IF pc[t] \in Lockers THEN NULL ELSE mlock),
         mutex'.waiters = mutex.waiters + In(l, Queuers) - In(pc[t], Queuers)
  PROVE  LockInv' /\ CountInv' /\ CondUse' /\ mlock' \in Thread \cup {NULL}
         /\ mutex'.waiters \in Nat
<1>0. TypeOK /\ LockInv /\ CountInv /\ CondUse
  BY DEF SyncInv
<1>1. l \notin {"c_add", "c_remove"} /\ pc[t] \notin {"c_add", "c_remove"}
  BY DEF CondPlaces, CondUsers, Busies
<1>2. LockInv' /\ mlock' \in Thread \cup {NULL}
  BY <1>0, <1>1, LockMoves
<1>3. /\ In(l, CondUsers) = 0 /\ In(pc[t], CondUsers) = 0
      /\ In(l, Signallers) = 0 /\ In(pc[t], Signallers) = 0
  BY DEF In, CondPlaces
<1>4. /\ cond'.waiters = cond.waiters + In(l, CondUsers) - In(pc[t], CondUsers)
      /\ cond'.sigspending =
           cond.sigspending + In(l, Signallers) - In(pc[t], Signallers)
  BY <1>0, <1>3, CountFacts
<1>5. CountInv' /\ mutex'.waiters \in Nat
  BY <1>0, <1>4, CountsMove
<1>6. CondUse'
  BY <1>0, CondMoves
<1> QED
  BY <1>2, <1>5, <1>6

LEMMA SignalWaiterStep ==
  ASSUME SyncInv, NEW t \in Thread, SignalWaiter(t), UNCHANGED condVars
  PROVE  SyncInv'
<1>0. /\ TypeOK /\ LockInv /\ HoldInv /\ CountInv /\ MutexUse /\ CondUse
      /\ PoolInv /\ QueueInv /\ TokenInv /\ TurnInv /\ Sane(sema)
  BY DEF SyncInv, QueueInv
<1>1. /\ pc[t] = "u_signal" /\ Goto(t, "idle") /\ sema' = Signalled(sema, mutex.sem)
      /\ sem_pool' = sem_pool /\ mutex' = mutex /\ mlock' = mlock /\ loc' = loc
      /\ holds' = holds /\ cond' = cond /\ clock' = clock
  BY DEF SignalWaiter, condVars
<1>2. Moved(t, "idle")
  BY <1>0, <1>1, Goes DEF Places
<1>3. PICK s, S : s = mutex.sem /\ S = Signalled(sema, mutex.sem)
  OBVIOUS
<1>4. s \in Sem
  BY <1>0, <1>1, <1>3, HasSem DEF Carrying
<1>5. /\ Sane(S)
      /\ \A x \in Sem : x # s => S[x] = sema[x] /\ QueueOf(S, x) = QueueOf(sema, x)
      /\ QueueOf(S, s) \subseteq QueueOf(sema, s)
  BY <1>0, <1>3, <1>4, SignalledQueue
<1>6. sema' = S
  BY <1>1, <1>3
<1>7. /\ pc[t] \notin CondPlaces /\ "idle" \notin CondPlaces /\ "idle" \notin Lockers
      /\ pc[t] \notin Lockers /\ "idle" \notin Carrying
      /\ pc[t] \notin {"l_wait", "l_order", "l_drain"}
      /\ "idle" \notin {"l_wait", "l_order", "l_drain"}
      /\ In("idle", Queuers) = 0 /\ In(pc[t], Queuers) = 0 /\ pc[t] \notin Sleepers
  BY <1>1 DEF CondPlaces, Busies, CondUsers, Signallers, Lockers, Carrying, In,
     Queuers, Sleepers
<1>8. LockInv' /\ CountInv' /\ CondUse'
  <2>1. mutex'.waiters = mutex.waiters + In("idle", Queuers) - In(pc[t], Queuers)
    BY <1>0, <1>1, <1>7, CountFacts
  <2> QED
    BY <1>1, <1>2, <1>7, <2>1, MutexSide
<1>9. TypeOK'
  <2>1. sema' \in [Sem -> SemRec] /\ pc' \in [Thread -> Places]
    BY <1>2, <1>5, <1>6 DEF Sane, Moved
  <2>2. /\ sem_pool' = sem_pool /\ mutex' = mutex /\ mlock' = mlock /\ loc' = loc
        /\ holds' = holds /\ cond' = cond /\ clock' = clock
    BY <1>1
  <2> QED
    BY <1>0, <2>1, <2>2, TypeFacts, TypesNext
<1>10. HoldInv'
  BY <1>0, <1>1, <1>2, HoldMoves DEF Owners, Switchers
<1>11. MutexUse'
  BY <1>0, <1>1, <1>2, <1>7, MutexMoves DEF Queuers, MutexUse
<1>12. PoolInv'
  BY <1>0, <1>1, PoolStays
<1>13. QueueInv'
  <2>1. \A x \in Sem : t \notin QueueOf(sema, x)
    BY <1>0, <1>7, Awake
  <2>2. \A x \in Sem : QueueOf(S, x) \subseteq QueueOf(sema, x)
    BY <1>5
  <2>3. \A x \in Sem : x \notin {mutex.sem, mutex.order} => S[x].count = 0
    BY <1>0, <1>3, <1>5 DEF QueueInv
  <2>4. \A x \in Sem : \A u \in QueueOf(S, x) : u # t /\ u \in QueueOf(sema, x)
    BY <2>1, <2>2
  <2> QED
    BY <1>0, <1>1, <1>2, <1>5, <1>6, <2>3, <2>4, QueueChanges
<1>14. TokenInv'
  BY <1>0, <1>1, <1>2, <1>3, <1>6, <1>7, TokenPassed
<1>15. TurnInv'
  <2>1. mutex.order # NULL => mutex.order \in Sem /\ mutex.order # s
    BY <1>0, <1>3, <1>4, SemAssumption DEF TypeOK, PoolInv
  <2>2. mutex.order # NULL => /\ sema'[mutex.order].count = sema[mutex.order].count
                              /\ QueueOf(sema', mutex.order) = QueueOf(sema, mutex.order)
    BY <1>5, <1>6, <2>1
  <2> QED
    BY <1>0, <1>1, <1>2, <1>7, <2>2, TurnStays
<1> QED
  BY <1>8, <1>9, <1>10, <1>11, <1>12, <1>13, <1>14, <1>15 DEF SyncInv

\* A thread that goes to sleep on mutex.sem, or takes the signal left in it.
LEMMA TokenTaken ==
  ASSUME TypeOK, HoldInv, CountInv, MutexUse, QueueInv, TokenInv,
         NEW t \in Thread, ~Carries(t), mutex.sem \in Sem,
         NEW W, Sane(W), W[mutex.sem].count = sema[mutex.sem].count,
         QueueOf(W, mutex.sem) = QueueOf(sema, mutex.sem),
         t \notin QueueOf(sema, mutex.sem),
         sema' = Waited(W, mutex.sem, t),
         mutex' = mutex, NEW l \in {"l_woken", "l_switch"}, Moved(t, l)
  PROVE  TokenInv'
<1>1. PICK s, c : s = mutex.sem /\ c = sema[s].count
  OBVIOUS
<1>2. s \in Sem /\ s # NULL /\ c \in Nat
  BY <1>1, SemAssumption, SaneSem DEF QueueInv
<1>3. PICK S : S = Waited(W, s, t)
  OBVIOUS
<1>4. /\ c > 0 => S[s].count = c - 1 /\ QueueOf(S, s) = {}
      /\ c = 0 => S[s].count = 0 /\ QueueOf(S, s) = QueueOf(sema, s) \cup {t}
  BY <1>1, <1>2, <1>3, WaitedQueue
<1>5. sema' = S /\ QueueOf(sema, mutex.sem)' = QueueOf(S, s)
  <2>1. sema' = S
    BY <1>1, <1>3
  <2> QED
    BY <2>1, <1>1 DEF QueueOf
<1>6. c > 0 => mutex.owner = SWITCHING /\ c = 1 /\ \A u \in Thread : ~Carries(u)
  BY <1>1, <1>2 DEF TokenInv
<1>7. ASSUME NEW u \in Thread, u # t, Carries(u)' PROVE Carries(u) /\ c = 0
  <2>1. pc'[u] = pc[u]
    BY <1>7 DEF Moved
  <2>2. CASE c = 0
    BY <1>1, <1>4, <1>5, <1>7, <2>1, <2>2 DEF Carries
  <2>3. CASE c > 0
    <3>1. QueueOf(sema, s) = {}
      BY <1>1, <1>2, <2>3 DEF QueueInv, Sane
    <3>2. Carries(u)
      BY <1>1, <1>7, <2>1, <3>1 DEF Carries
    <3> QED
      BY <1>6, <2>3, <3>2
  <2> QED
    BY <1>2, <2>2, <2>3
<1>8. Carries(t)' => c > 0
  <2>1. pc'[t] \notin {"u_signal", "c_wait", "l_drain"}
    BY DEF Moved
  <2> QED
    BY <1>2, <1>4, <1>5, <2>1 DEF Carries
<1>9. CASE c = 0
  <2>1. \A u \in Thread : Carries(u)' => Carries(u)
    BY <1>7, <1>8, <1>9
  <2> QED
    BY <1>1, <1>4, <1>5, <1>9, <2>1 DEF TokenInv
<1>10. CASE c > 0
  <2>1. \A u \in Thread : Carries(u)' => u = t
    BY <1>7, <1>10
  <2>2. S[s].count = 0
    BY <1>4, <1>6, <1>10
  <2> QED
    BY <1>1, <1>5, <1>6, <1>10, <2>1, <2>2 DEF TokenInv
<1> QED
  BY <1>2, <1>9, <1>10

---------------------------------------------------------------------------
(* Steps that queue up *)

\* A call of pthread_mutex_lock that has to wait.
LEMMA LockCalledFacts ==
  ASSUME SyncInv, NEW t \in Thread, LockCalled(t)
  PROVE  /\ pc[t] \in {"idle", "c_relock"} /\ mlock = NULL
         /\ Found \in MutexRec /\ Found.sig = "ready" /\ Found.type = mutex.type
         /\ Found.owner = mutex.owner /\ Found.waiters = mutex.waiters
         /\ Found.lock_count = mutex.lock_count /\ Found.sem = mutex.sem
         /\ Found.order = mutex.order /\ Found.busy = mutex.busy
         /\ pc[t] \notin CondPlaces /\ pc[t] \notin Lockers /\ In(pc[t], Queuers) = 0
         /\ pc[t] \notin {"l_wait", "l_order", "l_drain", "l_switch"}
         /\ ~Carries(t) /\ ~HasTurn(t)
         /\ \A s \in Sem : t \notin QueueOf(sema, s)
         /\ \A u \in Thread : pc[u] \notin Lockers
<1>1. pc[t] \in {"idle", "c_relock"} /\ mlock = NULL /\ mutex.sig # "none"
  BY DEF LockCalled, LOCK
<1>2. \A u \in Thread : pc[u] \notin Lockers
  BY <1>1, SemAssumption DEF SyncInv, LockInv
<1>3. /\ pc[t] \notin CondPlaces /\ pc[t] \notin Lockers /\ In(pc[t], Queuers) = 0
      /\ pc[t] \notin {"l_wait", "l_order", "l_drain", "l_switch"}
      /\ ~Carries(t) /\ ~HasTurn(t) /\ pc[t] \notin Sleepers
  BY <1>1 DEF CondPlaces, Busies, CondUsers, Signallers, Lockers, In, Queuers,
     Carries, HasTurn, Sleepers
<1>4. \A s \in Sem : t \notin QueueOf(sema, s)
  BY <1>3, Awake DEF SyncInv
<1> QED
  BY <1>1, <1>2, <1>3, <1>4, FoundFacts

LEMMA QueueFirstStep ==
  ASSUME SyncInv, NEW t \in Thread, QueueFirst(t), UNCHANGED condVars
  PROVE  SyncInv'
<1>0. /\ TypeOK /\ LockInv /\ HoldInv /\ CountInv /\ MutexUse /\ CondUse
      /\ PoolInv /\ QueueInv /\ TokenInv /\ TurnInv /\ Sane(sema)
  BY DEF SyncInv, QueueInv
<1>1. /\ pc[t] \in {"idle", "c_relock"} /\ mlock = NULL
      /\ Found \in MutexRec /\ Found.sig = "ready" /\ Found.type = mutex.type
      /\ Found.owner = mutex.owner /\ Found.waiters = mutex.waiters
      /\ Found.lock_count = mutex.lock_count /\ Found.busy = mutex.busy
      /\ pc[t] \notin CondPlaces /\ pc[t] \notin Lockers /\ In(pc[t], Queuers) = 0
      /\ \A s \in Sem : t \notin QueueOf(sema, s)
      /\ \A u \in Thread : pc[u] \notin Lockers
  BY LockCalledFacts DEF QueueFirst, MustQueue
<1>2. /\ mutex.owner # NULL /\ mutex.owner # SWITCHING /\ mutex.waiters = 0 /\ InPool(2)
      /\ sema' = sema /\ sem_pool' = Taken(2) /\ cond' = cond /\ clock' = clock
      /\ mlock' = mlock /\ holds' = holds /\ Goto(t, "l_wait")
  BY <1>1 DEF QueueFirst, MustQueue, condVars
<1>3. PICK s, o : s = new_sem_from_pool(1) /\ o = new_sem_from_pool(2)
  OBVIOUS
<1>4. /\ mutex' = [Found EXCEPT !.waiters = 1, !.sem = s, !.order = o]
      /\ loc' = [loc EXCEPT ![t] = Locals(s, o)]
  BY <1>3 DEF QueueFirst
<1>5. sem_pool \in Seq(Sem) /\ Distinct(sem_pool) /\ loc \in [Thread -> LocRec]
  BY <1>0 DEF TypeOK, PoolInv, LocRec
<1>6. /\ s \in Pooled /\ o \in Pooled /\ s # o
      /\ Taken(2) \in Seq(Sem) /\ Distinct(Taken(2))
      /\ PoolOf(Taken(2)) = Pooled \ {s, o}
  BY <1>2, <1>3, <1>5, TakesTwo
<1>7. s \in Sem /\ o \in Sem /\ s # cond.sem /\ o # cond.sem /\ s # NULL /\ o # NULL
  BY <1>0, <1>6, SemAssumption DEF Pooled, PoolOf, PoolInv
<1>8. /\ mutex' \in MutexRec /\ mutex'.lock_count = mutex.lock_count
      /\ mutex'.sig = "ready" /\ mutex'.type = mutex.type
      /\ mutex'.owner = mutex.owner /\ mutex'.waiters = 1 /\ mutex'.sem = s
      /\ mutex'.order = o /\ mutex'.busy = mutex.busy
  <2>1. PICK r : r = [Found EXCEPT !.waiters = 1, !.sem = s, !.order = o]
    OBVIOUS
  <2>2. /\ r \in MutexRec /\ r.lock_count = Found.lock_count /\ r.sig = Found.sig
        /\ r.type = Found.type /\ r.owner = Found.owner
        /\ r.waiters = 1 /\ r.sem = s /\ r.order = o /\ r.busy = Found.busy
    BY <1>1, <1>7, <2>1 DEF MutexRec
  <2> QED
    BY <1>1, <1>4, <2>1, <2>2
<1>9. /\ loc' \in [Thread -> LocRec] /\ loc'[t].sem = s /\ loc'[t].order = o
      /\ \A u \in Thread : u # t => loc'[u] = loc[u]
  BY <1>4, <1>5, <1>7, LocalsType
<1>10. Moved(t, "l_wait")
  BY <1>0, <1>2, Goes DEF Places
<1>11. \A u \in Thread : pc[u] \notin Queuers /\ pc[u] \notin Switchers
  BY <1>0, <1>2, CountFacts DEF HoldInv
<1>12. mutex.sem = NULL /\ mutex.order = NULL
  BY <1>0, <1>2, <1>11 DEF MutexUse, Switchers
<1>13. TypeOK'
  <2>1. pc' \in [Thread -> Places]
    BY <1>10 DEF Moved
  <2> QED
    BY <1>0, <1>2, <1>6, <1>8, <1>9, <2>1 DEF TypeOK, MutexRec, LocRec
<1>14. LockInv' /\ CountInv' /\ CondUse'
  <2>1. "l_wait" \notin CondPlaces /\ "l_wait" \notin Lockers /\ In("l_wait", Queuers) = 1
    BY DEF CondPlaces, Busies, CondUsers, Signallers, Lockers, In, Queuers
  <2>2. mutex'.waiters = mutex.waiters + In("l_wait", Queuers) - In(pc[t], Queuers)
    BY <1>1, <1>2, <1>8, <2>1
  <2> QED
    BY <1>1, <1>2, <1>8, <1>9, <1>10, <2>1, <2>2, MutexSide
<1>15. HoldInv'
  BY <1>0, <1>2, <1>8, <1>10, HoldMoves DEF Owners, Switchers
<1>16. MutexUse'
  <2>1. \A u \in Thread : pc'[u] \in Queuers \cup {"l_drain", "l_switch"} => u = t
    BY <1>10, <1>11 DEF Moved, Queuers, Switchers
  <2>2. pc'[t] = "l_wait"
    BY <1>10 DEF Moved
  <2> QED
    BY <1>2, <1>7, <1>8, <1>9, <2>1, <2>2 DEF MutexUse
<1>17. PoolInv'
  <2>1. PICK p, c : p = Taken(2) /\ c = cond.sem
    OBVIOUS
  <2>2. PoolOf(p) = Sem \ {s, o, c}
    BY <1>0, <1>6, <1>12, <2>1, SemAssumption DEF PoolInv, Pooled, PoolOf
  <2> QED
    BY <1>2, <1>6, <1>7, <1>8, <2>1, <2>2, PoolChanges
<1>18. QueueInv'
  <2>1. ASSUME NEW x \in Sem, NEW u \in QueueOf(sema, x)
        PROVE  x = cond'.sem /\ pc'[u] = "c_leave"
    <3>1. u \in Thread /\ u # t
      BY <1>1, <2>1 DEF QueueOf, Members
    <3>2. x = cond.sem /\ pc[u] = "c_leave"
      BY <1>0, <1>12, <2>1, SemAssumption DEF QueueInv
    <3> QED
      BY <1>2, <1>10, <3>1, <3>2 DEF Moved
  <2>2. \A x \in Sem : sema[x].count = 0
    BY <1>0, <1>12, SemAssumption DEF QueueInv
  <2> QED
    BY <1>0, <1>2, <2>1, <2>2 DEF QueueInv
<1>19. sema'[s].count = 0 /\ sema'[o].count = 0
  BY <1>0, <1>2, <1>7, <1>12, SemAssumption DEF QueueInv
<1>20. TokenInv'
  <2>1. \A u \in Thread : ~Carries(u)'
    BY <1>10, <1>11 DEF Carries, Moved, Queuers, Switchers
  <2> QED
    BY <1>8, <1>19, <2>1 DEF TokenInv
<1>21. TurnInv'
  <2>1. \A u \in Thread : HasTurn(u)' <=> u = t
    BY <1>10, <1>11 DEF HasTurn, Moved, Queuers
  <2>2. \A u \in Thread : pc'[u] # "l_drain"
    BY <1>10, <1>11 DEF Moved, Switchers
  <2> QED
    BY <1>8, <1>19, <2>1, <2>2 DEF TurnInv
<1> QED
  BY <1>13, <1>14, <1>15, <1>16, <1>17, <1>18, <1>20, <1>21 DEF SyncInv

LEMMA QueueNextStep ==
  ASSUME SyncInv, NEW t \in Thread, QueueNext(t), UNCHANGED condVars
  PROVE  SyncInv'
<1>0. /\ TypeOK /\ LockInv /\ HoldInv /\ CountInv /\ MutexUse /\ CondUse
      /\ PoolInv /\ QueueInv /\ TokenInv /\ TurnInv /\ Sane(sema)
  BY DEF SyncInv, QueueInv
<1>1. /\ pc[t] \in {"idle", "c_relock"} /\ mlock = NULL
      /\ Found \in MutexRec /\ Found.sig = "ready" /\ Found.type = mutex.type
      /\ Found.owner = mutex.owner /\ Found.waiters = mutex.waiters
      /\ Found.lock_count = mutex.lock_count /\ Found.busy = mutex.busy
      /\ Found.sem = mutex.sem /\ Found.order = mutex.order
      /\ pc[t] \notin CondPlaces /\ pc[t] \notin Lockers /\ In(pc[t], Queuers) = 0
      /\ ~Carries(t) /\ ~HasTurn(t)
      /\ \A s \in Sem : t \notin QueueOf(sema, s)
      /\ \A u \in Thread : pc[u] \notin Lockers
  BY LockCalledFacts DEF QueueNext, MustQueue
<1>2. /\ mutex.owner # NULL /\ mutex.waiters > 0
      /\ sem_pool' = sem_pool /\ cond' = cond /\ clock' = clock
      /\ mlock' = t /\ holds' = holds /\ Goto(t, "l_order")
      /\ mutex' = [Found EXCEPT !.waiters = @ + 1]
      /\ loc' = [loc EXCEPT ![t] = Locals(mutex.sem, mutex.order)]
      /\ sema' = Waited(sema, mutex.order, t)
  BY <1>1 DEF QueueNext, MustQueue, condVars
<1>3. mutex.waiters \in Nat /\ loc \in [Thread -> LocRec] /\ mutex.waiters # 0
  BY <1>0, <1>2 DEF TypeOK, LocRec
<1>4. /\ mutex.sem \in Sem /\ mutex.order \in Sem /\ mutex.sem # mutex.order
      /\ mutex.order # NULL /\ mutex.sem # NULL /\ mutex.order # cond.sem
  BY <1>0, <1>2, <1>3, SemAssumption DEF MutexUse, TypeOK, PoolInv
<1>5. PICK o, S : o = mutex.order /\ S = Waited(sema, mutex.order, t)
  OBVIOUS
<1>6. /\ Sane(S)
      /\ \A x \in Sem : x # o => S[x] = sema[x] /\ QueueOf(S, x) = QueueOf(sema, x)
      /\ sema[o].count > 0 => S[o].count = sema[o].count - 1 /\ QueueOf(S, o) = {}
      /\ sema[o].count = 0 => S[o].count = 0 /\ QueueOf(S, o) = QueueOf(sema, o) \cup {t}
  BY <1>0, <1>1, <1>4, <1>5, WaitedQueue
<1>7. sema' = S /\ sema[o].count \in Nat
  BY <1>0, <1>2, <1>4, <1>5, SaneSem
<1>8. /\ mutex' \in MutexRec /\ mutex'.lock_count = mutex.lock_count
      /\ mutex'.sig = "ready" /\ mutex'.type = mutex.type
      /\ mutex'.owner = mutex.owner /\ mutex'.waiters = mutex.waiters + 1
      /\ mutex'.sem = mutex.sem /\ mutex'.order = mutex.order /\ mutex'.busy = mutex.busy
  BY <1>1, <1>2, <1>3 DEF MutexRec
<1>9. /\ loc' \in [Thread -> LocRec] /\ loc'[t].sem = mutex.sem
      /\ loc'[t].order = mutex.order
      /\ \A u \in Thread : u # t => loc'[u] = loc[u]
  BY <1>2, <1>3, <1>4, LocalsType
<1>10. Moved(t, "l_order")
  BY <1>0, <1>2, Goes DEF Places
<1>11. LockInv' /\ CountInv' /\ CondUse'
  <2>1. "l_order" \notin CondPlaces /\ "l_order" \in Lockers /\ In("l_order", Queuers) = 1
    BY DEF CondPlaces, Busies, CondUsers, Signallers, Lockers, In, Queuers
  <2>2. mutex'.waiters = mutex.waiters + In("l_order", Queuers) - In(pc[t], Queuers)
    BY <1>1, <1>3, <1>8, <2>1
  <2> QED
    BY <1>1, <1>2, <1>8, <1>9, <1>10, <2>1, <2>2, MutexSide
<1>12. TypeOK'
  <2>1. sema' \in [Sem -> SemRec] /\ pc' \in [Thread -> Places]
    BY <1>6, <1>7, <1>10 DEF Sane, Moved
  <2> QED
    BY <1>0, <1>2, <1>8, <1>9, <2>1, TypeFacts, TypesNext
<1>13. HoldInv'
  BY <1>0, <1>2, <1>8, <1>10, HoldMoves DEF Owners, Switchers
<1>14. MutexUse'
  <2>1. \A u \in Thread : pc'[u] \notin {"l_drain", "l_switch"}
    BY <1>1, <1>10 DEF Moved, Lockers
  <2>2. ASSUME NEW u \in Thread, pc'[u] \in Queuers
        PROVE  loc'[u].sem = mutex.sem /\ loc'[u].order = mutex.order
    <3>1. CASE u = t
      BY <1>9, <3>1
    <3>2. CASE u # t
      BY <1>0, <1>9, <1>10, <2>2, <3>2 DEF Moved, MutexUse
    <3> QED
      BY <3>1, <3>2
  <2>3. mutex.waiters + 1 # 0
    BY <1>3
  <2> QED
    BY <1>2, <1>4, <1>8, <2>1, <2>2, <2>3 DEF MutexUse
<1>15. PoolInv'
  BY <1>0, <1>2, <1>8, PoolStays
<1>16. QueueInv'
  <2>1. \A x \in Sem : x \notin {mutex.sem, mutex.order} => S[x].count = 0
    BY <1>0, <1>5, <1>6 DEF QueueInv
  <2>2. ASSUME NEW x \in Sem, NEW u \in QueueOf(S, x)
        PROVE  \/ u # t /\ u \in QueueOf(sema, x)
               \/ u = t /\ x = mutex.order
    <3>1. CASE x # o
      BY <1>1, <1>6, <2>2, <3>1
    <3>2. CASE x = o
      BY <1>1, <1>5, <1>6, <1>7, <2>2, <3>2
    <3> QED
      BY <3>1, <3>2
  <2> QED
    BY <1>0, <1>2, <1>6, <1>7, <1>8, <1>10, <2>1, <2>2, QueueChanges
<1>17. TokenInv'
  <2>1. /\ sema'[mutex.sem].count = sema[mutex.sem].count
        /\ QueueOf(sema', mutex.sem) = QueueOf(sema, mutex.sem)
    BY <1>4, <1>5, <1>6, <1>7
  <2> QED
    BY <1>0, <1>1, <1>8, <1>10, <2>1, TokenStays DEF Carrying
<1>18. TurnInv'
  <2>1. \A u \in Thread : pc[u] # "l_drain" /\ pc'[u] # "l_drain"
    BY <1>1, <1>10 DEF Moved, Lockers
  <2>2. QueueOf(sema, mutex.order)' = QueueOf(S, o) /\ mutex'.order = o
    <3>1. QueueOf(sema, mutex.order)' = QueueOf(sema', mutex'.order)
      BY DEF QueueOf
    <3> QED
      BY <3>1, <1>5, <1>7, <1>8
  <2>3. \A u \in Thread : u # t => (HasTurn(u)' <=> HasTurn(u))
    BY <1>1, <1>10, <2>2 DEF HasTurn, Moved, Lockers
  <2>4. HasTurn(t)' <=> t \notin QueueOf(S, o)
    BY <1>10, <2>2 DEF HasTurn, Moved
  <2>5. CASE sema[o].count = 0
    <3>1. \A u \in Thread : HasTurn(u)' <=> HasTurn(u)
      BY <1>1, <1>6, <2>3, <2>4, <2>5
    <3> QED
      BY <1>0, <1>4, <1>5, <1>6, <1>7, <2>1, <2>2, <2>5, <3>1 DEF TurnInv
  <2>6. CASE sema[o].count > 0
    <3>1. sema[o].count = 1 /\ \A u \in Thread : ~HasTurn(u)
      BY <1>0, <1>4, <1>5, <2>6 DEF TurnInv
    <3>2. S[o].count = 0 /\ QueueOf(S, o) = {}
      BY <1>6, <3>1
    <3>3. \A u \in Thread : HasTurn(u)' <=> u = t
      BY <2>3, <2>4, <3>1, <3>2
    <3> QED
      BY <1>7, <2>1, <2>2, <3>2, <3>3 DEF TurnInv
  <2> QED
    BY <1>7, <2>5, <2>6
<1> QED
  BY <1>11, <1>12, <1>13, <1>14, <1>15, <1>16, <1>17, <1>18 DEF SyncInv

LEMMA OrderedStep ==
  ASSUME SyncInv, NEW t \in Thread, Ordered(t), UNCHANGED condVars
  PROVE  SyncInv'
<1>0. /\ TypeOK /\ LockInv /\ HoldInv /\ CountInv /\ MutexUse /\ CondUse
      /\ PoolInv /\ QueueInv /\ TokenInv /\ TurnInv
  BY DEF SyncInv
<1>1. /\ pc[t] = "l_order" /\ ~Blocked(t) /\ Goto(t, "l_wait") /\ sema' = sema
      /\ sem_pool' = sem_pool /\ mutex' = mutex /\ mlock' = NULL /\ loc' = loc
      /\ holds' = holds /\ cond' = cond /\ clock' = clock
  BY DEF Ordered, condVars, semVars
<1>2. Moved(t, "l_wait")
  BY <1>0, <1>1, Goes DEF Places
<1>3. /\ pc[t] \notin CondPlaces /\ "l_wait" \notin CondPlaces /\ "l_wait" \notin Lockers
      /\ pc[t] \in Lockers /\ In("l_wait", Queuers) = 1 /\ In(pc[t], Queuers) = 1
      /\ pc[t] \in Queuers /\ "l_wait" \notin Carrying /\ pc[t] \notin Carrying
  BY <1>1 DEF CondPlaces, Busies, CondUsers, Signallers, Lockers, In, Queuers, Carrying
<1>4. LockInv' /\ CountInv' /\ CondUse' /\ mlock' \in Thread \cup {NULL}
  <2>1. mutex'.waiters = mutex.waiters + In("l_wait", Queuers) - In(pc[t], Queuers)
    BY <1>0, <1>1, <1>3, CountFacts
  <2> QED
    BY <1>1, <1>2, <1>3, <2>1, MutexSide
<1>5. TypeOK'
  <2>1. pc' \in [Thread -> Places]
    BY <1>2 DEF Moved
  <2> QED
    BY <1>0, <1>1, <1>4, <2>1, TypeFacts, TypesNext
<1>6. HoldInv'
  BY <1>0, <1>1, <1>2, HoldMoves DEF Owners, Switchers
<1>7. MutexUse'
  <2>1. loc'[t].sem = mutex.sem /\ loc'[t].order = mutex.order
    BY <1>0, <1>1, <1>3 DEF MutexUse
  <2> QED
    BY <1>0, <1>1, <1>2, <2>1, MutexMoves DEF MutexUse
<1>8. PoolInv'
  BY <1>0, <1>1, PoolStays
<1>9. \A s \in Sem : t \notin QueueOf(sema, s)
  BY <1>0, <1>1, Awake
<1>10. QueueInv'
  BY <1>0, <1>1, <1>2, <1>9, QueueStays
<1>11. TokenInv'
  <2>1. ~Carries(t)
    BY <1>3 DEF Carries, Carrying
  <2> QED
    BY <1>0, <1>1, <1>2, <1>3, <2>1, TokenStays
<1>12. TurnInv'
  <2>1. mutex.order \in Sem
    BY <1>0, <1>3, HasSem
  <2>2. HasTurn(t)
    BY <1>1, <1>9, <2>1 DEF HasTurn
  <2> QED
    BY <1>0, <1>1, <1>2, <2>2, TurnStays
<1> QED
  BY <1>4, <1>5, <1>6, <1>7, <1>8, <1>10, <1>11, <1>12 DEF SyncInv

\* The thread that goes to sleep signals mutex.order: the one that waits there
\* has its turn, or the turn is left in mutex.order.
LEMMA TurnPassed ==
  ASSUME TypeOK, HoldInv, CountInv, MutexUse, QueueInv, TurnInv,
         mutex.order # mutex.sem, mutex.order # cond.sem,
         NEW t \in Thread, pc[t] = "l_wait",
         NEW S, S = Signalled(sema, mutex.order),
         sema'[mutex.order].count = S[mutex.order].count,
         QueueOf(sema', mutex.order) = QueueOf(S, mutex.order),
         mutex' = mutex, Moved(t, "l_woken")
  PROVE  TurnInv'
<1>1. mutex.order \in Sem /\ Sane(sema) /\ mutex.order # NULL
  BY HasSem, SemAssumption DEF Queuers, QueueInv
<1>2. /\ sema[mutex.order].count = 0
      /\ \A u \in Thread : HasTurn(u) => u = t
  <2>1. HasTurn(t)
    BY DEF HasTurn
  <2> QED
    BY <2>1 DEF TurnInv
<1>3. \A u \in Thread : pc[u] # "l_drain" /\ pc'[u] # "l_drain"
  <2>1. mutex.waiters # 0
    BY CountFacts DEF Queuers
  <2> QED
    BY <2>1 DEF MutexUse, Moved
<1>4. PICK s : s = mutex.order
  OBVIOUS
<1>5. QueueOf(sema, mutex.order)' = QueueOf(S, s)
  <2>1. QueueOf(sema, mutex.order)' = QueueOf(sema', mutex.order)
    BY DEF QueueOf
  <2> QED
    BY <2>1, <1>4
<1>6. \A u \in Thread : HasTurn(u)' <=>
        u # t /\ pc[u] = "l_order" /\ u \notin QueueOf(S, s)
  BY <1>2, <1>5 DEF HasTurn, Moved
<1>7. \A u \in Thread : u # t /\ pc[u] = "l_order" => u \in QueueOf(sema, s)
  BY <1>2, <1>4 DEF HasTurn
<1>8. CASE QueueOf(sema, s) = {}
  <2>1. S[s].count = 1
    <3>1. S[s].count = sema[s].count + 1
      BY <1>1, <1>4, <1>8, SignalledQueue
    <3> QED
      BY <1>2, <1>4, <3>1
  <2>2. \A u \in Thread : ~HasTurn(u)'
    BY <1>6, <1>7, <1>8
  <2> QED
    BY <1>3, <1>4, <2>1, <2>2 DEF TurnInv
<1>9. CASE QueueOf(sema, s) # {}
  <2>1. S[s].count = 0 /\ \E h \in QueueOf(sema, s) : QueueOf(S, s) = QueueOf(sema, s) \ {h}
    BY <1>1, <1>2, <1>4, <1>9, SignalledQueue
  <2>2. PICK h \in QueueOf(sema, s) : QueueOf(S, s) = QueueOf(sema, s) \ {h}
    BY <2>1
  <2>3. h \in Thread /\ h # t /\ pc[h] = "l_order"
    <3>1. h \in Thread
      BY DEF QueueOf, Members
    <3>2. \/ s = mutex.sem /\ pc[h] \in {"l_woken", "l_switch"}
          \/ pc[h] = "l_order"
          \/ s = cond.sem /\ pc[h] = "c_leave"
      BY <1>1, <1>4 DEF QueueInv
    <3>3. s # mutex.sem /\ s # cond.sem
      BY <1>4
    <3> QED
      BY <3>1, <3>2, <3>3
  <2>4. HasTurn(h)' /\ \A u \in Thread : HasTurn(u)' => u = h
    BY <1>6, <1>7, <2>2, <2>3
  <2> QED
    BY <1>3, <1>4, <2>1, <2>3, <2>4 DEF TurnInv
<1> QED
  BY <1>8, <1>9

LEMMA SleepStep ==
  ASSUME SyncInv, NEW t \in Thread, Sleep(t), UNCHANGED condVars
  PROVE  SyncInv'
<1>0. /\ TypeOK /\ LockInv /\ HoldInv /\ CountInv /\ MutexUse /\ CondUse
      /\ PoolInv /\ QueueInv /\ TokenInv /\ TurnInv /\ Sane(sema)
  BY DEF SyncInv, QueueInv
<1>1. /\ pc[t] = "l_wait" /\ Goto(t, "l_woken")
      /\ loc[t].sem = mutex.sem /\ loc[t].order = mutex.order
      /\ sema' = Waited(Signalled(sema, mutex.order), mutex.sem, t)
      /\ sem_pool' = sem_pool /\ mutex' = mutex /\ mlock' = mlock /\ loc' = loc
      /\ holds' = holds /\ cond' = cond /\ clock' = clock
  <2>1. /\ pc[t] = "l_wait" /\ Goto(t, "l_woken")
        /\ sema' = Waited(Signalled(sema, loc[t].order), loc[t].sem, t)
        /\ sem_pool' = sem_pool /\ mutex' = mutex /\ mlock' = mlock /\ loc' = loc
        /\ holds' = holds /\ cond' = cond /\ clock' = clock
    BY DEF Sleep, WaitSignalled, condVars
  <2>2. loc[t].sem = mutex.sem /\ loc[t].order = mutex.order
    BY <1>0, <2>1 DEF MutexUse, Queuers
  <2> QED
    BY <2>1, <2>2
<1>2. Moved(t, "l_woken")
  BY <1>0, <1>1, Goes DEF Places
<1>3. /\ pc[t] \notin CondPlaces /\ "l_woken" \notin CondPlaces /\ "l_woken" \notin Lockers
      /\ pc[t] \notin Lockers /\ In("l_woken", Queuers) = 1 /\ In(pc[t], Queuers) = 1
      /\ pc[t] \in Queuers /\ pc[t] \notin Sleepers /\ ~Carries(t)
  BY <1>1 DEF CondPlaces, Busies, CondUsers, Signallers, Lockers, In, Queuers,
     Sleepers, Carries
<1>4. /\ mutex.sem \in Sem /\ mutex.order \in Sem /\ mutex.sem # mutex.order
      /\ mutex.order # NULL /\ mutex.sem # NULL /\ mutex.order # cond.sem
  BY <1>0, <1>3, HasSem, SemAssumption DEF PoolInv
<1>5. PICK s, o, S, R : /\ s = mutex.sem /\ o = mutex.order
                        /\ S = Signalled(sema, mutex.order) /\ R = Waited(S, mutex.sem, t)
  OBVIOUS
<1>6. /\ Sane(S)
      /\ \A x \in Sem : x # o => S[x] = sema[x] /\ QueueOf(S, x) = QueueOf(sema, x)
      /\ QueueOf(S, o) \subseteq QueueOf(sema, o)
  <2>1. S = Signalled(sema, o) /\ o \in Sem /\ Sane(sema)
    BY <1>0, <1>4, <1>5
  <2> QED
    BY <2>1, SignalledQueue
<1>7. \A x \in Sem : t \notin QueueOf(sema, x)
  BY <1>0, <1>3, Awake
<1>8. /\ Sane(R)
      /\ \A x \in Sem : x # s => R[x] = S[x] /\ QueueOf(R, x) = QueueOf(S, x)
      /\ QueueOf(R, s) \subseteq QueueOf(S, s) \cup {t}
  <2>1. S[s].count \in Nat /\ t \notin QueueOf(S, s)
    BY <1>4, <1>5, <1>6, <1>7, SaneSem
  <2> QED
    BY <1>4, <1>5, <1>6, <2>1, WaitedQueue
<1>9. sema' = R
  BY <1>1, <1>5
<1>10. LockInv' /\ CountInv' /\ CondUse'
  <2>1. mutex'.waiters = mutex.waiters + In("l_woken", Queuers) - In(pc[t], Queuers)
    BY <1>0, <1>1, <1>3, CountFacts
  <2> QED
    BY <1>1, <1>2, <1>3, <2>1, MutexSide
<1>11. TypeOK'
  <2>1. sema' \in [Sem -> SemRec] /\ pc' \in [Thread -> Places]
    BY <1>2, <1>8, <1>9 DEF Sane, Moved
  <2>2. /\ sem_pool' = sem_pool /\ mutex' = mutex /\ mlock' = mlock /\ loc' = loc
        /\ holds' = holds /\ cond' = cond /\ clock' = clock
    BY <1>1
  <2> QED
    BY <1>0, <2>1, <2>2, TypeFacts, TypesNext
<1>12. HoldInv'
  BY <1>0, <1>1, <1>2, HoldMoves DEF Owners, Switchers
<1>13. MutexUse'
  <2>1. loc'[t].sem = mutex.sem /\ loc'[t].order = mutex.order
    BY <1>1
  <2> QED
    BY <1>0, <1>1, <1>2, <2>1, MutexMoves DEF MutexUse
<1>14. PoolInv'
  BY <1>0, <1>1, PoolStays
<1>15. QueueInv'
  <2>1. \A x \in Sem : x \notin {mutex.sem, mutex.order} => R[x].count = 0
    BY <1>0, <1>5, <1>6, <1>8 DEF QueueInv
  <2>2. ASSUME NEW x \in Sem, NEW u \in QueueOf(R, x)
        PROVE  \/ u # t /\ u \in QueueOf(sema, x)
               \/ u = t /\ x = mutex.sem
    BY <1>5, <1>6, <1>7, <1>8, <2>2
  <2> QED
    BY <1>0, <1>1, <1>2, <1>8, <1>9, <2>1, <2>2, QueueChanges
<1>16. TokenInv'
  <2>1. /\ S[mutex.sem].count = sema[mutex.sem].count
        /\ QueueOf(S, mutex.sem) = QueueOf(sema, mutex.sem)
    BY <1>4, <1>5, <1>6
  <2>2. sema' = Waited(S, mutex.sem, t)
    BY <1>5, <1>9
  <2> QED
    BY <1>0, <1>1, <1>2, <1>3, <1>4, <1>6, <1>7, <2>1, <2>2, TokenTaken
<1>17. TurnInv'
  <2>1. /\ sema'[mutex.order].count = S[mutex.order].count
        /\ QueueOf(sema', mutex.order) = QueueOf(S, mutex.order)
    BY <1>4, <1>5, <1>8, <1>9
  <2> QED
    BY <1>0, <1>1, <1>2, <1>4, <1>5, <2>1, TurnPassed
<1> QED
  BY <1>10, <1>11, <1>12, <1>13, <1>14, <1>15, <1>16, <1>17 DEF SyncInv

\* A thread that is aborted goes to the end of its queue.
LEMMA AbortedStep ==
  ASSUME SyncInv, NEW t \in Thread, Aborted(t), UNCHANGED condVars
  PROVE  SyncInv'
<1>0. /\ TypeOK /\ LockInv /\ HoldInv /\ CountInv /\ MutexUse /\ CondUse
      /\ PoolInv /\ QueueInv /\ TokenInv /\ TurnInv /\ Sane(sema)
  BY DEF SyncInv, QueueInv
<1>1. /\ pc[t] = "l_woken" /\ pc' = pc /\ InQueue(t, mutex.sem)
      /\ sema' = Waited(Left(sema, mutex.sem, t), mutex.sem, t)
      /\ sem_pool' = sem_pool /\ mutex' = mutex /\ mlock' = mlock /\ loc' = loc
      /\ holds' = holds /\ cond' = cond /\ clock' = clock
  <2>1. /\ pc[t] = "l_woken" /\ pc' = pc /\ InQueue(t, loc[t].sem)
        /\ sema' = Waited(Left(sema, loc[t].sem, t), loc[t].sem, t)
        /\ sem_pool' = sem_pool /\ mutex' = mutex /\ mlock' = mlock /\ loc' = loc
        /\ holds' = holds /\ cond' = cond /\ clock' = clock
    BY DEF Aborted, mutexVars, condVars
  <2>2. loc[t].sem = mutex.sem
    BY <1>0, <2>1 DEF MutexUse, Queuers
  <2> QED
    BY <2>1, <2>2
<1>2. Moved(t, "l_woken")
  BY <1>0, <1>1, Stays
<1>3. /\ pc[t] \notin CondPlaces /\ "l_woken" \notin CondPlaces /\ "l_woken" \notin Lockers
      /\ pc[t] \notin Lockers /\ In("l_woken", Queuers) = 1 /\ In(pc[t], Queuers) = 1
      /\ pc[t] \in Queuers
  BY <1>1 DEF CondPlaces, Busies, CondUsers, Signallers, Lockers, In, Queuers
<1>4. PICK s, S, R : s = mutex.sem /\ S = Left(sema, s, t) /\ R = Waited(S, s, t)
  OBVIOUS
<1>5. s \in Sem /\ t \in QueueOf(sema, s)
  BY <1>0, <1>1, <1>3, <1>4, HasSem, Queued
<1>6. /\ Sane(S) /\ QueueOf(S, s) = QueueOf(sema, s) \ {t}
      /\ \A x \in Sem : S[x].count = sema[x].count
      /\ \A x \in Sem : x # s => QueueOf(S, x) = QueueOf(sema, x)
  BY <1>0, <1>4, <1>5, LeftQueue DEF NowQueued
<1>7. S[s].count = 0 /\ t \notin QueueOf(S, s)
  <2>1. sema[s].count \in Nat /\ ~(sema[s].count > 0)
    BY <1>0, <1>5, SaneSem DEF Sane
  <2> QED
    BY <1>5, <1>6, <2>1
<1>8. /\ Sane(R) /\ R[s].count = 0 /\ QueueOf(R, s) = QueueOf(S, s) \cup {t}
      /\ \A x \in Sem : x # s => R[x] = S[x] /\ QueueOf(R, x) = QueueOf(S, x)
  BY <1>4, <1>5, <1>6, <1>7, WaitedQueue
<1>9. \A x \in Sem : R[x].count = sema[x].count /\ QueueOf(R, x) = QueueOf(sema, x)
  BY <1>5, <1>6, <1>7, <1>8
<1>10. sema' = R
  BY <1>1, <1>4
<1>11. LockInv' /\ CountInv' /\ CondUse'
  <2>1. mutex'.waiters = mutex.waiters + In("l_woken", Queuers) - In(pc[t], Queuers)
    BY <1>0, <1>1, <1>3, CountFacts
  <2> QED
    BY <1>1, <1>2, <1>3, <2>1, MutexSide
<1>12. TypeOK'
  <2>1. sema' \in [Sem -> SemRec]
    BY <1>8, <1>10 DEF Sane
  <2>2. /\ sem_pool' = sem_pool /\ mutex' = mutex /\ mlock' = mlock /\ loc' = loc
        /\ holds' = holds /\ cond' = cond /\ clock' = clock /\ pc' = pc
    BY <1>1
  <2> QED
    BY <1>0, <2>1, <2>2, TypeFacts, TypesNext
<1>13. HoldInv'
  BY <1>0, <1>1, <1>2, HoldMoves DEF Owners, Switchers
<1>14. MutexUse'
  <2>1. loc'[t].sem = mutex.sem /\ loc'[t].order = mutex.order
    BY <1>0, <1>1, <1>3 DEF MutexUse
  <2> QED
    BY <1>0, <1>1, <1>2, <2>1, MutexMoves DEF MutexUse
<1>15. PoolInv'
  BY <1>0, <1>1, PoolStays
<1>16. QueueInv'
  <2>1. \A x \in Sem : x \notin {mutex.sem, mutex.order} => R[x].count = 0
    BY <1>0, <1>9 DEF QueueInv
  <2>2. ASSUME NEW x \in Sem, NEW u \in QueueOf(R, x)
        PROVE  \/ u # t /\ u \in QueueOf(sema, x)
               \/ u = t /\ x = mutex.sem
    BY <1>0, <1>1, <1>9, <2>2 DEF QueueInv
  <2> QED
    BY <1>0, <1>1, <1>2, <1>8, <1>10, <2>1, <2>2, QueueChanges
<1>17. TokenInv'
  <2>1. /\ sema'[mutex.sem].count = sema[mutex.sem].count
        /\ QueueOf(sema', mutex.sem) = QueueOf(sema, mutex.sem)
    BY <1>4, <1>5, <1>9, <1>10
  <2> QED
    BY <1>0, <1>1, <1>2, <2>1, TokenStays
<1>18. TurnInv'
  <2>1. mutex.order \in Sem
    BY <1>0, <1>3, HasSem
  <2>2. /\ sema'[mutex.order].count = sema[mutex.order].count
        /\ QueueOf(sema', mutex.order) = QueueOf(sema, mutex.order)
    BY <1>9, <1>10, <2>1
  <2> QED
    BY <1>0, <1>1, <1>2, <2>2, TurnStays
<1> QED
  BY <1>11, <1>12, <1>13, <1>14, <1>15, <1>16, <1>17, <1>18 DEF SyncInv

\* The last waiter takes the turn that is left.
LEMMA WakeUpLastStep ==
  ASSUME SyncInv, NEW t \in Thread, WakeUpLast(t), UNCHANGED condVars
  PROVE  SyncInv'
<1>0. /\ TypeOK /\ LockInv /\ HoldInv /\ CountInv /\ MutexUse /\ CondUse
      /\ PoolInv /\ QueueInv /\ TokenInv /\ TurnInv /\ Sane(sema)
  BY DEF SyncInv, QueueInv
<1>1. /\ pc[t] = "l_woken" /\ ~Blocked(t) /\ mlock = NULL /\ mutex.waiters = 1
      /\ Goto(t, "l_drain") /\ mlock' = t
      /\ loc[t].sem = mutex.sem /\ loc[t].order = mutex.order
      /\ sema' = Waited(sema, mutex.order, t)
      /\ mutex' = [mutex EXCEPT !.waiters = 0]
      /\ sem_pool' = sem_pool /\ loc' = loc
      /\ holds' = holds /\ cond' = cond /\ clock' = clock
  <2>1. /\ pc[t] = "l_woken" /\ ~Blocked(t) /\ mlock = NULL /\ mutex.waiters = 1
        /\ Goto(t, "l_drain") /\ mlock' = t
        /\ sema' = Waited(sema, loc[t].order, t)
        /\ mutex' = [mutex EXCEPT !.waiters = 0]
        /\ sem_pool' = sem_pool /\ loc' = loc
        /\ holds' = holds /\ cond' = cond /\ clock' = clock
    BY DEF WakeUpLast, LOCK, condVars
  <2>2. loc[t].sem = mutex.sem /\ loc[t].order = mutex.order
    BY <1>0, <2>1 DEF MutexUse, Queuers
  <2> QED
    BY <2>1, <2>2
<1>2. Moved(t, "l_drain")
  BY <1>0, <1>1, Goes DEF Places
<1>3. /\ pc[t] \notin CondPlaces /\ "l_drain" \notin CondPlaces /\ "l_drain" \in Lockers
      /\ pc[t] \notin Lockers /\ In("l_drain", Queuers) = 0 /\ In(pc[t], Queuers) = 1
      /\ pc[t] \in Queuers
  BY <1>1 DEF CondPlaces, Busies, CondUsers, Signallers, Lockers, In, Queuers
<1>4. /\ mutex.sem \in Sem /\ mutex.order \in Sem /\ mutex.sem # mutex.order
      /\ mutex.order # NULL /\ mutex.sem # NULL /\ mutex.order # cond.sem
  BY <1>0, <1>3, HasSem, SemAssumption DEF PoolInv
<1>5. \A u \in Thread : u # t => pc[u] \notin Queuers /\ pc[u] \notin Lockers
  <2>1. \A u \in Thread : pc[u] \in Queuers => u = t
    BY <1>0, <1>1, <1>3, CountFacts
  <2>2. \A u \in Thread : pc[u] \notin Lockers
    BY <1>0, <1>1, SemAssumption DEF LockInv
  <2> QED
    BY <2>1, <2>2
<1>6. sema[mutex.order].count = 1
  <2>1. \A u \in Thread : ~HasTurn(u) /\ pc[u] # "l_drain"
    BY <1>1, <1>5 DEF HasTurn, Queuers, Lockers
  <2> QED
    BY <1>0, <1>4, <2>1 DEF TurnInv
<1>7. /\ Carries(t) /\ mutex.owner = SWITCHING /\ mutex.sig = "ready" /\ mutex \in MutexRec
      /\ \A x \in Sem : t \notin QueueOf(sema, x)
  BY <1>1, WokenCarries
<1>8. PICK o, R : o = mutex.order /\ R = Waited(sema, mutex.order, t)
  OBVIOUS
<1>9. /\ Sane(R) /\ R[o].count = 0 /\ QueueOf(R, o) = {}
      /\ \A x \in Sem : x # o => R[x] = sema[x] /\ QueueOf(R, x) = QueueOf(sema, x)
  <2>1. /\ Sane(R)
        /\ \A x \in Sem : x # o => R[x] = sema[x] /\ QueueOf(R, x) = QueueOf(sema, x)
        /\ sema[o].count > 0 => R[o].count = sema[o].count - 1 /\ QueueOf(R, o) = {}
    BY <1>0, <1>4, <1>7, <1>8, WaitedQueue
  <2> QED
    BY <1>6, <1>8, <2>1
<1>10. sema' = R
  BY <1>1, <1>8
<1>11. /\ mutex' \in MutexRec /\ mutex'.lock_count = mutex.lock_count
       /\ mutex'.sig = "ready" /\ mutex'.type = mutex.type
       /\ mutex'.owner = mutex.owner /\ mutex'.waiters = 0
       /\ mutex'.sem = mutex.sem /\ mutex'.order = mutex.order /\ mutex'.busy = mutex.busy
  BY <1>1, <1>7 DEF MutexRec
<1>12. LockInv' /\ CountInv' /\ CondUse'
  <2>1. mutex'.waiters = mutex.waiters + In("l_drain", Queuers) - In(pc[t], Queuers)
    BY <1>1, <1>3, <1>11
  <2> QED
    BY <1>1, <1>2, <1>3, <1>11, <2>1, MutexSide
<1>13. TypeOK'
  <2>1. sema' \in [Sem -> SemRec] /\ pc' \in [Thread -> Places]
    BY <1>2, <1>9, <1>10 DEF Sane, Moved
  <2>2. /\ sem_pool' = sem_pool /\ loc' = loc /\ mlock' = t
        /\ holds' = holds /\ cond' = cond /\ clock' = clock
    BY <1>1
  <2> QED
    BY <1>0, <1>11, <2>1, <2>2, TypeFacts, TypesNext
<1>14. HoldInv'
  BY <1>0, <1>1, <1>2, <1>7, <1>11, HoldMoves DEF Owners, Switchers
<1>15. MutexUse'
  <2>1. \A u \in Thread : pc'[u] \in Queuers \cup {"l_drain", "l_switch"} => u = t
    BY <1>2, <1>5 DEF Moved, Lockers
  <2>2. pc'[t] = "l_drain"
    BY <1>2 DEF Moved
  <2> QED
    BY <1>1, <1>4, <1>7, <1>11, <2>1, <2>2 DEF MutexUse
<1>16. PoolInv'
  BY <1>0, <1>1, <1>11, PoolStays
<1>17. QueueInv'
  <2>1. \A x \in Sem : x \notin {mutex.sem, mutex.order} => R[x].count = 0
    BY <1>0, <1>8, <1>9 DEF QueueInv
  <2>2. \A x \in Sem : \A u \in QueueOf(R, x) : u # t /\ u \in QueueOf(sema, x)
    BY <1>7, <1>9
  <2> QED
    BY <1>0, <1>1, <1>2, <1>9, <1>10, <1>11, <2>1, <2>2, QueueChanges
<1>18. TokenInv'
  <2>1. /\ sema'[mutex.sem].count = sema[mutex.sem].count
        /\ QueueOf(sema, mutex.sem)' = QueueOf(sema, mutex.sem)
    <3>1. QueueOf(sema, mutex.sem)' = QueueOf(sema', mutex'.sem)
      BY DEF QueueOf
    <3> QED
      BY <1>4, <1>8, <1>9, <1>10, <1>11, <3>1
  <2>2. \A u \in Thread : Carries(u)' => Carries(u)
    BY <1>2, <1>7, <1>11, <2>1 DEF Carries, Moved
  <2> QED
    BY <1>0, <1>11, <2>1, <2>2 DEF TokenInv
<1>19. TurnInv'
  <2>1. \A u \in Thread : ~HasTurn(u)'
    BY <1>2, <1>5 DEF HasTurn, Moved, Queuers
  <2>2. sema'[mutex'.order].count = 0
    BY <1>8, <1>9, <1>10, <1>11
  <2>3. pc'[t] = "l_drain"
    BY <1>2 DEF Moved
  <2> QED
    BY <2>1, <2>2, <2>3 DEF TurnInv
<1> QED
  BY <1>12, <1>13, <1>14, <1>15, <1>16, <1>17, <1>18, <1>19 DEF SyncInv

\* A mutex that a cond wait gives up: its next owner waits for the signal.
LEMMA LockSwitchingStep ==
  ASSUME SyncInv, NEW t \in Thread, LockSwitching(t), UNCHANGED condVars
  PROVE  SyncInv'
<1>0. /\ TypeOK /\ LockInv /\ HoldInv /\ CountInv /\ MutexUse /\ CondUse
      /\ PoolInv /\ QueueInv /\ TokenInv /\ TurnInv /\ Sane(sema)
  BY DEF SyncInv, QueueInv
<1>1. /\ pc[t] \in {"idle", "c_relock"} /\ mlock = NULL
      /\ Found.owner = mutex.owner /\ Found.waiters = mutex.waiters
      /\ Found.sem = mutex.sem
      /\ pc[t] \notin CondPlaces /\ pc[t] \notin Lockers /\ In(pc[t], Queuers) = 0
      /\ pc[t] \notin {"l_wait", "l_order", "l_drain", "l_switch"}
      /\ ~Carries(t)
      /\ \A s \in Sem : t \notin QueueOf(sema, s)
      /\ \A u \in Thread : pc[u] \notin Lockers
  BY LockCalledFacts DEF LockSwitching
<1>2. /\ mutex.owner = SWITCHING /\ mutex.waiters = 0
      /\ loc' = [loc EXCEPT ![t] = Locals(mutex.sem, NULL)]
      /\ sema' = Waited(sema, mutex.sem, t)
      /\ sem_pool' = sem_pool /\ cond' = cond /\ clock' = clock /\ mutex' = mutex
      /\ mlock' = t /\ holds' = holds /\ Goto(t, "l_switch")
  BY <1>1 DEF LockSwitching, condVars
<1>3. Moved(t, "l_switch")
  BY <1>0, <1>2, Goes DEF Places
<1>4. /\ "l_switch" \notin CondPlaces /\ "l_switch" \in Lockers
      /\ In("l_switch", Queuers) = 0
  BY DEF CondPlaces, Busies, CondUsers, Signallers, Lockers, In, Queuers
<1>5. mutex.sem \in Sem /\ mutex.sem # NULL /\ mutex.sig = "ready"
  <2>1. SWITCHING # NULL
    BY MutexAssumption
  <2>2. mutex.sig \in {"init", "ready", "none"} /\ mutex.sem \in Sem \cup {NULL}
    BY <1>0 DEF TypeOK
  <2> QED
    BY <1>0, <1>2, <2>1, <2>2 DEF MutexUse
<1>6. /\ loc' \in [Thread -> LocRec] /\ loc'[t].sem = mutex.sem
      /\ \A u \in Thread : u # t => loc'[u] = loc[u]
  <2>1. loc \in [Thread -> LocRec]
    BY <1>0, TypeFacts
  <2> QED
    BY <1>2, <1>5, <2>1, LocalsType
<1>7. PICK s, R : s = mutex.sem /\ R = Waited(sema, mutex.sem, t)
  OBVIOUS
<1>8. /\ Sane(R)
      /\ \A x \in Sem : x # s => R[x] = sema[x] /\ QueueOf(R, x) = QueueOf(sema, x)
      /\ QueueOf(R, s) \subseteq QueueOf(sema, s) \cup {t}
  <2>1. sema[s].count \in Nat /\ s \in Sem /\ t \notin QueueOf(sema, s)
    BY <1>0, <1>1, <1>5, <1>7, SaneSem
  <2>2. R = Waited(sema, s, t)
    BY <1>7
  <2> QED
    BY <1>0, <2>1, <2>2, WaitedQueue
<1>9. sema' = R
  BY <1>2, <1>7
<1>10. LockInv' /\ CountInv' /\ CondUse'
  <2>1. mutex'.waiters = mutex.waiters + In("l_switch", Queuers) - In(pc[t], Queuers)
    BY <1>1, <1>2, <1>4
  <2> QED
    BY <1>1, <1>2, <1>3, <1>4, <1>6, <2>1, MutexSide
<1>11. TypeOK'
  <2>1. sema' \in [Sem -> SemRec] /\ pc' \in [Thread -> Places]
    BY <1>3, <1>8, <1>9 DEF Sane, Moved
  <2>2. /\ sem_pool' = sem_pool /\ mutex' = mutex /\ mlock' = t
        /\ holds' = holds /\ cond' = cond /\ clock' = clock
    BY <1>2
  <2> QED
    BY <1>0, <1>6, <2>1, <2>2, TypeFacts, TypesNext
<1>12. HoldInv'
  BY <1>0, <1>2, <1>3, HoldMoves DEF Owners, Switchers
<1>13. MutexUse'
  <2>1. \A u \in Thread : pc'[u] = "l_drain" <=> pc[u] = "l_drain"
    BY <1>1, <1>3 DEF Moved
  <2>2. ASSUME NEW u \in Thread
        PROVE  /\ pc'[u] \in Queuers \cup {"l_drain"} =>
                    loc'[u].sem = mutex.sem /\ loc'[u].order = mutex.order
               /\ pc'[u] = "l_switch" => loc'[u].sem = mutex.sem
    <3>1. CASE u = t
      BY <1>3, <1>6, <3>1 DEF Moved, Queuers
    <3>2. CASE u # t
      BY <1>0, <1>3, <1>6, <3>2 DEF Moved, MutexUse
    <3> QED
      BY <3>1, <3>2
  <2> QED
    BY <1>0, <1>2, <2>1, <2>2 DEF MutexUse
<1>14. PoolInv'
  BY <1>0, <1>2, PoolStays
<1>15. QueueInv'
  <2>1. \A x \in Sem : x \notin {mutex.sem, mutex.order} => R[x].count = 0
    BY <1>0, <1>7, <1>8 DEF QueueInv
  <2>2. ASSUME NEW x \in Sem, NEW u \in QueueOf(R, x)
        PROVE  \/ u # t /\ u \in QueueOf(sema, x)
               \/ u = t /\ x = mutex.sem
    BY <1>1, <1>7, <1>8, <2>2
  <2> QED
    BY <1>0, <1>2, <1>3, <1>8, <1>9, <2>1, <2>2, QueueChanges
<1>16. TokenInv'
  <2>1. t \notin QueueOf(sema, mutex.sem)
    BY <1>1, <1>5
  <2> QED
    BY <1>0, <1>1, <1>2, <1>3, <1>5, <2>1, TokenTaken
<1>17. TurnInv'
  <2>1. mutex.order # NULL => mutex.order \in Sem /\ mutex.order # s
    BY <1>0, <1>5, <1>7 DEF TypeOK, PoolInv
  <2>2. mutex.order # NULL => /\ sema'[mutex.order].count = sema[mutex.order].count
                              /\ QueueOf(sema', mutex.order) = QueueOf(sema, mutex.order)
    BY <1>8, <1>9, <2>1
  <2> QED
    BY <1>0, <1>1, <1>2, <1>3, <2>2, TurnStays
<1> QED
  BY <1>10, <1>11, <1>12, <1>13, <1>14, <1>15, <1>16, <1>17 DEF SyncInv

---------------------------------------------------------------------------
(* Steps of the condition variable *)

CondOnly == {"idle", "c_relock", "c_add", "c_release", "c_wait_only", "c_leave",
             "c_remove", "s_one", "s_thread", "s_all", "s_done"}

\* What the mutex notices of a step of the condition variable.
LEMMA CondSide ==
  ASSUME SyncInv, NEW t \in Thread, NEW l \in CondOnly, Moved(t, l), pc[t] \in CondOnly,
         holds' = holds, mlock' = mlock,
         mutex'.owner = mutex.owner, mutex'.sem = mutex.sem,
         mutex'.order = mutex.order, mutex'.waiters = mutex.waiters,
         mutex'.sig = mutex.sig, mutex'.type = mutex.type,
         mutex'.lock_count = mutex.lock_count,
         mutex.sig # "ready" => ~mutex'.busy,
         \A u \in Thread : u # t => loc'[u] = loc[u],
         l \in Owners => holds[t] > 0,
         l \in {"c_add", "c_remove"} => clock \in {NULL, t},
         clock' = (IF l \in {"c_add", "c_remove"} THEN t
                   ELSE IF pc[t] \in {"c_add", "c_remove"} THEN NULL ELSE clock),
         cond'.waiters = cond.waiters + In(l, CondUsers) - In(pc[t], CondUsers),
         cond'.sigspending =
           cond.sigspending + In(l, Signallers) - In(pc[t], Signallers),
         mutex.sem # NULL => /\ sema'[mutex.sem].count = sema[mutex.sem].count
                             /\ QueueOf(sema', mutex.sem) = QueueOf(sema, mutex.sem),
         mutex.order # NULL => /\ sema'[mutex.order].count = sema[mutex.order].count
                               /\ QueueOf(sema', mutex.order) = QueueOf(sema, mutex.order)
  PROVE  /\ LockInv' /\ HoldInv' /\ CountInv' /\ MutexUse' /\ TokenInv' /\ TurnInv'
         /\ mlock' \in Thread \cup {NULL} /\ clock' \in Thread \cup {NULL}
         /\ cond'.waiters \in Nat /\ cond'.sigspending \in Nat
<1>0. TypeOK /\ LockInv /\ HoldInv /\ CountInv /\ MutexUse /\ TokenInv /\ TurnInv
  BY DEF SyncInv
<1>1. /\ l \notin Lockers /\ pc[t] \notin Lockers /\ l \notin Queuers
      /\ pc[t] \notin Queuers /\ l \notin Switchers /\ l \notin Carrying
      /\ pc[t] \notin Carrying /\ pc[t] # "l_drain" /\ l # "l_drain" /\ l # "l_switch"
      /\ pc[t] \notin {"l_wait", "l_order", "l_drain"}
      /\ l \notin {"l_wait", "l_order", "l_drain"}
  BY DEF CondOnly, Lockers, Queuers, Switchers, Carrying
<1>2. LockInv' /\ mlock' \in Thread \cup {NULL} /\ clock' \in Thread \cup {NULL}
  BY <1>0, <1>1, LockMoves
<1>3. HoldInv'
  BY <1>0, <1>1, HoldMoves
<1>4. CountInv' /\ cond'.waiters \in Nat /\ cond'.sigspending \in Nat
  <2>1. mutex'.waiters = mutex.waiters + In(l, Queuers) - In(pc[t], Queuers)
    <3>1. In(l, Queuers) = 0 /\ In(pc[t], Queuers) = 0 /\ mutex.waiters \in Nat
      BY <1>0, <1>1, CountFacts DEF In
    <3> QED
      BY <3>1
  <2> QED
    BY <1>0, <2>1, CountsMove
<1>5. MutexUse'
  BY <1>0, <1>1, MutexMoves
<1>6. TokenInv'
  <2>1. ~Carries(t)
    BY <1>1 DEF Carries, Carrying
  <2> QED
    BY <1>0, <1>1, <2>1, TokenStays
<1>7. TurnInv'
  BY <1>0, <1>1, TurnStays
<1> QED
  BY <1>2, <1>3, <1>4, <1>5, <1>6, <1>7

LEMMA CondStays ==
  ASSUME TypeOK, CondUse, NEW t \in Thread, NEW l, Moved(t, l),
         cond' = cond, mutex'.busy = mutex.busy,
         \A u \in Thread : u # t => loc'[u] = loc[u],
         l \in Busies <=> pc[t] \in Busies, l \notin {"c_add", "c_remove"},
         l \in Signallers \cup {"c_leave"} => loc'[t].sem = cond.sem
  PROVE  CondUse'
<1>1. \A u \in Thread : pc'[u] \in Busies <=> pc[u] \in Busies
  BY DEF Moved
<1>2. ASSUME NEW u \in Thread
      PROVE  /\ pc'[u] \in Signallers \cup {"c_leave"} => loc'[u].sem = cond.sem
             /\ pc'[u] = "c_add" => cond.waiters = 1
             /\ pc'[u] = "c_remove" => cond.waiters = 0
  <2>1. CASE u = t
    BY <2>1 DEF Moved
  <2>2. CASE u # t
    BY <2>2 DEF Moved, CondUse
  <2> QED
    BY <2>1, <2>2
<1> QED
  BY <1>1, <1>2 DEF CondUse

\* A semaphore nobody has used yet, or nobody sleeps on any more.
LEMMA QueueMoves ==
  ASSUME QueueInv, NEW t \in Thread, NEW l, Moved(t, l), sema' = sema,
         mutex'.order = mutex.order,
         mutex'.sem = mutex.sem \/ mutex.sem = NULL,
         cond'.sem = cond.sem \/ \A u \in Thread : pc[u] # "c_leave" \/ cond.sem = NULL,
         \A s \in Sem : t \notin QueueOf(sema, s)
  PROVE  QueueInv'
<1>1. ASSUME NEW s \in Sem, NEW u \in QueueOf(sema, s)
      PROVE  \/ s = mutex'.sem /\ pc'[u] \in {"l_woken", "l_switch"}
             \/ s = mutex'.order /\ pc'[u] = "l_order"
             \/ s = cond'.sem /\ pc'[u] = "c_leave"
  <2>1. u \in Thread /\ u # t
    BY <1>1 DEF QueueOf, Members
  <2>2. pc'[u] = pc[u]
    BY <2>1 DEF Moved
  <2>3. s # NULL
    BY SemAssumption
  <2> QED
    BY <2>1, <2>2, <2>3, <1>1 DEF QueueInv
<1>2. Sane(sema)' /\ \A s \in Sem : QueueOf(sema, s)' = QueueOf(sema, s)
  BY DEF QueueInv, QueueOf
<1>3. \A s \in Sem : s \notin {mutex'.sem, mutex'.order} => sema'[s].count = 0
  BY SemAssumption DEF QueueInv
<1> QED
  BY <1>1, <1>2, <1>3 DEF QueueInv

\* Nobody has cond->lock.
LEMMA NoClock ==
  ASSUME SyncInv, clock = NULL
  PROVE  /\ \A u \in Thread : pc[u] \notin {"c_add", "c_remove"}
         /\ cond.waiters = 0 <=> \A u \in Thread : pc[u] \notin Busies
<1>1. \A u \in Thread : pc[u] \notin {"c_add", "c_remove"}
  BY SemAssumption DEF SyncInv, LockInv
<1>2. cond.waiters = 0 <=> \A u \in Thread : pc[u] \notin CondUsers
  BY CountFacts DEF SyncInv
<1> QED
  BY <1>1, <1>2 DEF CondUsers, Busies

LEMMA CondWaitStep ==
  ASSUME SyncInv, NEW t \in Thread, CondWait(t)
  PROVE  SyncInv'
<1>0. /\ TypeOK /\ LockInv /\ HoldInv /\ CountInv /\ MutexUse /\ CondUse
      /\ PoolInv /\ QueueInv
  BY DEF SyncInv
<1>1. /\ pc[t] = "idle" /\ clock = NULL /\ cond.sig # "none" /\ holds[t] > 0
      /\ cond' = [FoundCond EXCEPT !.waiters = @ + 1]
      /\ sema' = sema /\ sem_pool' = sem_pool /\ mutex' = mutex /\ mlock' = mlock
      /\ loc' = loc /\ holds' = holds
  BY DEF CondWait, CondCalled, CLOCK, semVars
<1>2. /\ FoundCond \in CondRec /\ FoundCond.sig = "ready"
      /\ FoundCond.waiters = cond.waiters /\ FoundCond.sem = cond.sem
      /\ FoundCond.sigspending = cond.sigspending /\ FoundCond.busy = cond.busy
  BY <1>1, FoundCondFacts
<1>3. PICK l : /\ l \in {"c_add", "c_release"} /\ Goto(t, l)
               /\ l = "c_add" => cond.waiters = 0 /\ clock' = t
               /\ l = "c_release" => cond.waiters # 0 /\ clock' = NULL
  <2>1. CASE FoundCond.waiters = 0
    BY <1>2, <2>1 DEF CondWait
  <2>2. CASE FoundCond.waiters # 0
    BY <1>2, <2>2 DEF CondWait
  <2> QED
    BY <2>1, <2>2
<1>4. cond.waiters \in Nat /\ cond.sigspending \in Nat
  BY <1>0, CountFacts
<1>5. /\ cond' \in CondRec /\ cond'.waiters = cond.waiters + 1 /\ cond'.sem = cond.sem
      /\ cond'.sigspending = cond.sigspending /\ cond'.busy = cond.busy
      /\ cond'.sig = "ready"
  BY <1>1, <1>2, <1>4 DEF CondRec
<1>6. Moved(t, l)
  BY <1>0, <1>3, Goes DEF Places
<1>7. /\ pc[t] \in CondOnly /\ l \in CondOnly /\ l \in CondUsers /\ l \notin Signallers
      /\ l \notin {"c_leave", "c_remove"}
      /\ pc[t] \notin CondUsers /\ pc[t] \notin Signallers /\ pc[t] \notin Sleepers
      /\ l \in {"c_add", "c_remove"} <=> l = "c_add"
      /\ pc[t] \notin {"c_add", "c_remove"}
  BY <1>1, <1>3 DEF CondOnly, CondUsers, Signallers, Sleepers
<1>8. /\ LockInv' /\ HoldInv' /\ CountInv' /\ MutexUse' /\ TokenInv' /\ TurnInv'
      /\ clock' \in Thread \cup {NULL}
  <2>1. /\ In(l, CondUsers) = 1 /\ In(pc[t], CondUsers) = 0
        /\ In(l, Signallers) = 0 /\ In(pc[t], Signallers) = 0
    BY <1>7 DEF In
  <2>2. /\ cond'.waiters = cond.waiters + In(l, CondUsers) - In(pc[t], CondUsers)
        /\ cond'.sigspending =
             cond.sigspending + In(l, Signallers) - In(pc[t], Signallers)
    BY <1>4, <1>5, <2>1
  <2>3. clock' = (IF l \in {"c_add", "c_remove"} THEN t
                  ELSE IF pc[t] \in {"c_add", "c_remove"} THEN NULL ELSE clock)
    BY <1>1, <1>3, <1>7
  <2>4. mutex.sig # "ready" => ~mutex'.busy
    BY <1>0, <1>1 DEF MutexUse
  <2> QED
    BY <1>1, <1>6, <1>7, <2>2, <2>3, <2>4, CondSide
<1>9. TypeOK'
  <2>1. pc' \in [Thread -> Places]
    BY <1>6 DEF Moved
  <2>2. /\ sema' = sema /\ sem_pool' = sem_pool /\ mutex' = mutex /\ mlock' = mlock
        /\ loc' = loc /\ holds' = holds
    BY <1>1
  <2> QED
    BY <1>0, <1>5, <1>8, <2>1, <2>2, TypeFacts, TypesNext
<1>10. /\ \A u \in Thread : pc[u] \notin {"c_add", "c_remove"}
       /\ cond.waiters = 0 <=> \A u \in Thread : pc[u] \notin Busies
  BY <1>1, NoClock
<1>11. CondUse'
  <2>1. (\A u \in Thread : pc'[u] \notin Busies) <=> \A u \in Thread : pc[u] \notin Busies
    <3>1. CASE l = "c_add"
      <4>1. l \notin Busies /\ pc[t] \notin Busies
        BY <1>1, <3>1 DEF Busies
      <4> QED
        BY <1>6, <4>1 DEF Moved
    <3>2. CASE l = "c_release"
      <4>1. l \in Busies
        BY <3>2 DEF Busies
      <4> QED
        BY <1>3, <1>6, <1>10, <3>2, <4>1 DEF Moved
    <3> QED
      BY <1>3, <3>1, <3>2
  <2>2. ASSUME NEW u \in Thread
        PROVE  /\ pc'[u] \in Signallers \cup {"c_leave"} => loc'[u].sem = cond.sem
               /\ pc'[u] = "c_add" => cond'.waiters = 1
               /\ pc'[u] # "c_remove"
    <3>1. CASE u = t
      BY <1>3, <1>5, <1>6, <1>7, <3>1 DEF Moved
    <3>2. CASE u # t
      BY <1>0, <1>1, <1>6, <1>10, <3>2 DEF Moved, CondUse
    <3> QED
      BY <3>1, <3>2
  <2> QED
    BY <1>0, <1>1, <1>5, <2>1, <2>2 DEF CondUse
<1>12. PoolInv'
  BY <1>0, <1>1, <1>5, PoolStays
<1>13. QueueInv'
  <2>1. \A s \in Sem : t \notin QueueOf(sema, s)
    BY <1>0, <1>7, Awake
  <2> QED
    BY <1>0, <1>1, <1>5, <1>6, <2>1, QueueStays
<1> QED
  BY <1>8, <1>9, <1>11, <1>12, <1>13 DEF SyncInv

\* The first waiter gives the condition variable its semaphore.
LEMMA CondAddStep ==
  ASSUME SyncInv, NEW t \in Thread, CondAdd(t)
  PROVE  SyncInv'
<1>0. /\ TypeOK /\ LockInv /\ HoldInv /\ CountInv /\ MutexUse /\ CondUse
      /\ PoolInv /\ QueueInv
  BY DEF SyncInv
<1>1. /\ pc[t] = "c_add" /\ mlock = NULL /\ mutex' = [mutex EXCEPT !.busy = TRUE]
      /\ clock' = NULL /\ Goto(t, "c_release") /\ sema' = sema /\ mlock' = mlock
      /\ loc' = loc /\ holds' = holds
  BY DEF CondAdd, LOCK
<1>2. PICK c, p : /\ cond' = [cond EXCEPT !.busy = TRUE, !.sem = c] /\ sem_pool' = p
                  /\ \/ c = cond.sem /\ c # NULL /\ p = sem_pool
                     \/ /\ cond.sem = NULL /\ InPool(1)
                        /\ c = new_sem_from_pool(1) /\ p = Taken(1)
  <2>1. CASE cond.sem # NULL
    <3>1. cond' = [cond EXCEPT !.busy = TRUE] /\ sem_pool' = sem_pool
      BY <2>1 DEF CondAdd
    <3>2. [cond EXCEPT !.busy = TRUE] = [cond EXCEPT !.busy = TRUE, !.sem = cond.sem]
      BY <1>0, TypeFacts DEF CondRec
    <3> QED
      BY <2>1, <3>1, <3>2
  <2>2. CASE cond.sem = NULL
    BY <2>2 DEF CondAdd
  <2> QED
    BY <2>1, <2>2
<1>3. sem_pool \in Seq(Sem) /\ Distinct(sem_pool) /\ cond \in CondRec /\ mutex \in MutexRec
  BY <1>0, TypeFacts DEF PoolInv
<1>4. c \in Sem /\ c # NULL /\ p \in Seq(Sem) /\ PoolInv'
  <2>1. CASE cond.sem # NULL
    <3>1. c = cond.sem /\ p = sem_pool
      BY <1>2, <2>1
    <3>2. cond.sem \in Sem
      BY <1>3, <2>1 DEF CondRec
    <3>3. cond'.sem = cond.sem /\ mutex'.sem = mutex.sem /\ mutex'.order = mutex.order
      BY <1>1, <1>2, <1>3, <3>1 DEF CondRec, MutexRec
    <3>4. PoolInv'
      BY <1>0, <1>2, <3>1, <3>3, PoolStays
    <3> QED
      BY <1>3, <2>1, <3>1, <3>2, <3>4
  <2>2. CASE cond.sem = NULL
    <3>1. InPool(1) /\ c = new_sem_from_pool(1) /\ p = Taken(1)
      BY <1>2, <2>2
    <3>2. c \in Pooled /\ p \in Seq(Sem) /\ Distinct(p) /\ PoolOf(p) = Pooled \ {c}
      BY <1>3, <3>1, TakesOne
    <3>3. c \in Sem /\ c # NULL /\ c # mutex.sem /\ c # mutex.order
      BY <1>0, <3>2, SemAssumption DEF Pooled, PoolOf, PoolInv
    <3>4. PICK s, o : s = mutex.sem /\ o = mutex.order
      OBVIOUS
    <3>5. cond'.sem = c /\ mutex'.sem = s /\ mutex'.order = o
      BY <1>1, <1>2, <1>3, <3>3, <3>4 DEF CondRec, MutexRec
    <3>6. PoolOf(p) = Sem \ {s, o, c}
      BY <1>0, <2>2, <3>2, <3>4, SemAssumption DEF PoolInv, Pooled, PoolOf
    <3>7. PoolInv'
      BY <1>0, <1>2, <3>2, <3>3, <3>4, <3>5, <3>6, PoolChanges DEF PoolInv
    <3> QED
      BY <3>2, <3>3, <3>7
  <2> QED
    BY <2>1, <2>2
<1>5. /\ cond' \in CondRec /\ cond'.waiters = cond.waiters /\ cond'.sem = c
      /\ cond'.sigspending = cond.sigspending /\ cond'.busy = TRUE
      /\ cond'.sig = cond.sig
  <2>1. PICK r : r = [cond EXCEPT !.busy = TRUE, !.sem = c]
    OBVIOUS
  <2>2. /\ r \in CondRec /\ r.waiters = cond.waiters /\ r.sem = c
        /\ r.sigspending = cond.sigspending /\ r.busy = TRUE /\ r.sig = cond.sig
    BY <1>3, <1>4, <2>1 DEF CondRec
  <2> QED
    BY <1>2, <2>1, <2>2
<1>6. /\ mutex' \in MutexRec /\ mutex'.lock_count = mutex.lock_count
      /\ mutex'.sig = mutex.sig /\ mutex'.type = mutex.type
      /\ mutex'.owner = mutex.owner /\ mutex'.waiters = mutex.waiters
      /\ mutex'.sem = mutex.sem /\ mutex'.order = mutex.order /\ mutex'.busy = TRUE
  BY <1>1, <1>3 DEF MutexRec
<1>7. Moved(t, "c_release")
  BY <1>0, <1>1, Goes DEF Places
<1>8. /\ pc[t] \in CondOnly /\ "c_release" \in CondOnly /\ "c_release" \in Busies
      /\ In("c_release", CondUsers) = 1 /\ In(pc[t], CondUsers) = 1
      /\ In("c_release", Signallers) = 0 /\ In(pc[t], Signallers) = 0
      /\ pc[t] \notin Sleepers /\ "c_release" \notin {"c_add", "c_remove"}
      /\ pc[t] \in Owners /\ "c_release" \notin Signallers
  BY <1>1 DEF CondOnly, CondUsers, Busies, Signallers, Sleepers, In, Owners
<1>9. holds[t] > 0 /\ mutex.sig = "ready"
  <2>1. holds[t] > 0
    BY <1>0, <1>8 DEF HoldInv
  <2>2. mutex.owner # NULL
    BY <1>0, <2>1, SemAssumption, MutexAssumption DEF HoldInv
  <2> QED
    BY <1>0, <2>1, <2>2 DEF MutexUse
<1>10. cond.waiters = 1 /\ cond.sig = "ready"
  <2>1. cond.waiters = 1
    BY <1>0, <1>1 DEF CondUse
  <2> QED
    BY <1>0, <2>1 DEF CondUse
<1>11. /\ LockInv' /\ HoldInv' /\ CountInv' /\ MutexUse' /\ TokenInv' /\ TurnInv'
       /\ clock' \in Thread \cup {NULL}
  <2>1. cond.waiters \in Nat /\ cond.sigspending \in Nat
    BY <1>0, CountFacts
  <2>2. /\ cond'.waiters = cond.waiters + In("c_release", CondUsers) - In(pc[t], CondUsers)
        /\ cond'.sigspending =
             cond.sigspending + In("c_release", Signallers) - In(pc[t], Signallers)
    BY <1>5, <1>8, <2>1
  <2> QED
    BY <1>1, <1>6, <1>7, <1>8, <1>9, <2>2, CondSide
<1>12. TypeOK'
  <2>1. pc' \in [Thread -> Places] /\ sem_pool' \in Seq(Sem)
    BY <1>2, <1>4, <1>7 DEF Moved
  <2>2. sema' = sema /\ mlock' = mlock /\ loc' = loc /\ holds' = holds
    BY <1>1
  <2> QED
    BY <1>0, <1>5, <1>6, <1>11, <2>1, <2>2, TypeFacts, TypesNext
<1>13. \A u \in Thread : cond.sem = NULL => pc[u] \notin Signallers \cup Busies
  BY <1>0, CountFacts DEF CondUse
<1>14. CondUse'
  <2>1. pc'[t] \in Busies
    BY <1>7, <1>8 DEF Moved
  <2>2. ASSUME NEW u \in Thread
        PROVE  /\ pc'[u] \in Signallers \cup {"c_leave"} => loc'[u].sem = c
               /\ pc'[u] = "c_add" => cond.waiters = 1
               /\ pc'[u] = "c_remove" => cond.waiters = 0
    <3>1. CASE u = t
      BY <1>7, <1>8, <3>1 DEF Moved
    <3>2. CASE u # t
      <4>1. pc'[u] = pc[u] /\ loc'[u] = loc[u]
        BY <1>1, <1>7, <3>2 DEF Moved
      <4>2. pc[u] \in Signallers \cup {"c_leave"} => cond.sem = c
        BY <1>2, <1>13 DEF Busies
      <4> QED
        BY <1>0, <4>1, <4>2 DEF CondUse
    <3> QED
      BY <3>1, <3>2
  <2> QED
    BY <1>4, <1>5, <1>6, <1>10, <2>1, <2>2 DEF CondUse
<1>15. QueueInv'
  <2>1. \A s \in Sem : t \notin QueueOf(sema, s)
    BY <1>0, <1>8, Awake
  <2>2. cond'.sem = cond.sem \/ cond.sem = NULL
    BY <1>2, <1>5
  <2> QED
    BY <1>0, <1>1, <1>6, <1>7, <2>1, <2>2, QueueMoves
<1> QED
  BY <1>4, <1>11, <1>12, <1>14, <1>15 DEF SyncInv

\* What comes of giving the mutex up, wholly or in part.
LEMMA ReleaseSide ==
  ASSUME SyncInv, NEW t \in Thread, pc[t] = "c_release", mlock = NULL,
         NEW l \in {"c_wait", "c_wait_only"}, Moved(t, l),
         sema' = sema, mlock' = mlock, loc' = loc, cond' = cond, clock' = clock,
         mutex'.waiters = mutex.waiters, mutex'.order = mutex.order,
         mutex'.busy = mutex.busy
  PROVE  LockInv' /\ CountInv' /\ CondUse' /\ TurnInv' /\ holds[t] > 0
         /\ \A s \in Sem : t \notin QueueOf(sema, s)
<1>0. /\ TypeOK /\ LockInv /\ HoldInv /\ CountInv /\ MutexUse /\ CondUse
      /\ QueueInv /\ TurnInv
  BY DEF SyncInv
<1>1. /\ l \notin Lockers /\ pc[t] \notin Lockers
      /\ l \notin {"c_add", "c_remove"} /\ pc[t] \notin {"c_add", "c_remove"}
      /\ l \in Busies /\ pc[t] \in Busies /\ l \notin Signallers \cup {"c_leave"}
      /\ In(l, Queuers) = 0 /\ In(pc[t], Queuers) = 0
      /\ In(l, CondUsers) = 1 /\ In(pc[t], CondUsers) = 1
      /\ In(l, Signallers) = 0 /\ In(pc[t], Signallers) = 0
      /\ pc[t] \notin Sleepers /\ pc[t] \in Owners
      /\ pc[t] \notin {"l_wait", "l_order", "l_drain"}
      /\ l \notin {"l_wait", "l_order", "l_drain"}
  BY DEF Lockers, Busies, Queuers, CondUsers, Signallers, In, Sleepers, Owners
<1>2. LockInv'
  BY <1>0, <1>1, LockMoves
<1>3. CountInv'
  <2>1. mutex.waiters \in Nat /\ cond.waiters \in Nat /\ cond.sigspending \in Nat
    BY <1>0, CountFacts
  <2>2. /\ mutex'.waiters = mutex.waiters + In(l, Queuers) - In(pc[t], Queuers)
        /\ cond'.waiters = cond.waiters + In(l, CondUsers) - In(pc[t], CondUsers)
        /\ cond'.sigspending =
             cond.sigspending + In(l, Signallers) - In(pc[t], Signallers)
    BY <1>1, <2>1
  <2> QED
    BY <1>0, <2>2, CountsMove
<1>4. CondUse'
  BY <1>0, <1>1, CondStays
<1>5. TurnInv'
  BY <1>0, <1>1, TurnStays
<1>6. holds[t] > 0
  BY <1>0, <1>1 DEF HoldInv
<1>7. \A s \in Sem : t \notin QueueOf(sema, s)
  BY <1>0, <1>1, Awake
<1> QED
  BY <1>2, <1>3, <1>4, <1>5, <1>6, <1>7

LEMMA GiveUpOneStep ==
  ASSUME SyncInv, NEW t \in Thread, CondRelease(t), GiveUpOne(t)
  PROVE  SyncInv'
<1>0. /\ TypeOK /\ LockInv /\ HoldInv /\ CountInv /\ MutexUse /\ CondUse
      /\ PoolInv /\ QueueInv /\ TokenInv /\ TurnInv
  BY DEF SyncInv
<1>1. /\ pc[t] = "c_release" /\ mlock = NULL /\ holds' = [holds EXCEPT ![t] = @ - 1]
      /\ sema' = sema /\ mlock' = mlock /\ loc' = loc /\ cond' = cond /\ clock' = clock
      /\ mutex.lock_count > 1 /\ mutex' = [mutex EXCEPT !.lock_count = @ - 1]
      /\ Goto(t, "c_wait_only") /\ sem_pool' = sem_pool
  BY DEF CondRelease, GiveUpOne, LOCK, Release, condVars
<1>2. Moved(t, "c_wait_only")
  BY <1>0, <1>1, Goes DEF Places
<1>3. mutex \in MutexRec /\ holds \in [Thread -> Nat] /\ MaxCount \in Nat
      /\ mutex.lock_count \in 0..MaxCount
  BY <1>0, TypeFacts, MutexAssumption DEF TypeOK
<1>4. PICK k : k = mutex.lock_count - 1
  OBVIOUS
<1>5. k \in Nat /\ k > 0 /\ k \in 0..MaxCount
  BY <1>1, <1>3, <1>4
<1>6. /\ mutex' \in MutexRec /\ mutex'.lock_count = k /\ mutex'.sig = mutex.sig
      /\ mutex'.type = mutex.type /\ mutex'.owner = mutex.owner
      /\ mutex'.waiters = mutex.waiters /\ mutex'.sem = mutex.sem
      /\ mutex'.order = mutex.order /\ mutex'.busy = mutex.busy
  BY <1>1, <1>3, <1>4, <1>5 DEF MutexRec
<1>7. /\ LockInv' /\ CountInv' /\ CondUse' /\ TurnInv' /\ holds[t] > 0
      /\ \A s \in Sem : t \notin QueueOf(sema, s)
  BY <1>1, <1>2, <1>6, ReleaseSide
<1>8. mutex.lock_count = holds[t] /\ mutex.type = "RECURSIVE"
  BY <1>0, <1>1, <1>7 DEF HoldInv
<1>9. /\ holds' \in [Thread -> Nat] /\ holds'[t] = k
      /\ \A u \in Thread : u # t => holds'[u] = holds[u]
  BY <1>1, <1>3, <1>4, <1>5, <1>8
<1>10. TypeOK'
  <2>1. pc' \in [Thread -> Places]
    BY <1>2 DEF Moved
  <2>2. /\ sema' = sema /\ sem_pool' = sem_pool /\ mlock' = mlock /\ loc' = loc
        /\ cond' = cond /\ clock' = clock
    BY <1>1
  <2> QED
    BY <1>0, <1>6, <1>9, <2>1, <2>2, TypeFacts, TypesNext
<1>11. /\ "c_wait_only" \notin Switchers /\ "c_wait_only" \notin Queuers
       /\ "c_wait_only" \notin Carrying /\ pc[t] \notin Carrying /\ ~Carries(t)
  BY <1>1 DEF Switchers, Queuers, Carrying, Carries
<1>12. HoldInv'
  BY <1>0, <1>2, <1>5, <1>6, <1>7, <1>8, <1>9, <1>11, HoldChanges
<1>13. MutexUse'
  <2>1. mutex.sig # "ready" => ~mutex'.busy
    BY <1>0, <1>6 DEF MutexUse
  <2> QED
    BY <1>0, <1>1, <1>2, <1>6, <1>11, <2>1, MutexMoves
<1>14. PoolInv'
  BY <1>0, <1>1, <1>6, PoolStays
<1>15. QueueInv'
  BY <1>0, <1>1, <1>2, <1>6, <1>7, QueueStays
<1>16. TokenInv'
  BY <1>0, <1>1, <1>2, <1>6, <1>11, TokenStays
<1> QED
  BY <1>7, <1>10, <1>12, <1>13, <1>14, <1>15, <1>16 DEF SyncInv

LEMMA GiveUpStep ==
  ASSUME SyncInv, NEW t \in Thread, CondRelease(t), GiveUp(t)
  PROVE  SyncInv'
<1>0. /\ TypeOK /\ LockInv /\ HoldInv /\ CountInv /\ MutexUse /\ CondUse
      /\ PoolInv /\ QueueInv /\ TokenInv /\ TurnInv
  BY DEF SyncInv
<1>1. /\ pc[t] = "c_release" /\ mlock = NULL /\ holds' = [holds EXCEPT ![t] = @ - 1]
      /\ sema' = sema /\ mlock' = mlock /\ loc' = loc /\ cond' = cond /\ clock' = clock
      /\ mutex.lock_count = 1 /\ Goto(t, "c_wait")
  BY DEF CondRelease, GiveUp, LOCK, Release, condVars
<1>2. Moved(t, "c_wait")
  BY <1>0, <1>1, Goes DEF Places
<1>3. /\ mutex \in MutexRec /\ holds \in [Thread -> Nat] /\ MaxCount \in Nat
      /\ sem_pool \in Seq(Sem) /\ Distinct(sem_pool)
  BY <1>0, TypeFacts, MutexAssumption DEF PoolInv
<1>4. PICK s, p :
        /\ mutex' = [mutex EXCEPT !.lock_count = 0, !.owner = SWITCHING, !.sem = s]
        /\ sem_pool' = p
        /\ \/ s = mutex.sem /\ s # NULL /\ p = sem_pool
           \/ /\ mutex.sem = NULL /\ InPool(1)
              /\ s = new_sem_from_pool(1) /\ p = Taken(1)
  <2>1. CASE mutex.sem # NULL
    <3>1. /\ mutex' = [mutex EXCEPT !.lock_count = 0, !.owner = SWITCHING]
          /\ sem_pool' = sem_pool
      BY <2>1 DEF GiveUp
    <3>2. PICK r : r = [mutex EXCEPT !.lock_count = 0, !.owner = SWITCHING]
      OBVIOUS
    <3>3. PICK q : q = [mutex EXCEPT !.lock_count = 0, !.owner = SWITCHING,
                                     !.sem = mutex.sem]
      OBVIOUS
    <3>4. r = q
      BY <1>3, <3>2, <3>3 DEF MutexRec
    <3> QED
      BY <2>1, <3>1, <3>2, <3>3, <3>4
  <2>2. CASE mutex.sem = NULL
    BY <2>2 DEF GiveUp
  <2> QED
    BY <2>1, <2>2
<1>5. /\ s \in Sem /\ s # NULL /\ p \in Seq(Sem) /\ s # mutex.order /\ s # cond.sem
      /\ Distinct(p) /\ PoolOf(p) = Sem \ {s, mutex.order, cond.sem}
  <2>1. CASE mutex.sem # NULL
    <3>1. s = mutex.sem /\ p = sem_pool /\ s \in Sem
      BY <1>3, <1>4, <2>1 DEF MutexRec
    <3> QED
      BY <1>0, <1>3, <2>1, <3>1 DEF PoolInv, Pooled, PoolOf
  <2>2. CASE mutex.sem = NULL
    <3>1. InPool(1) /\ s = new_sem_from_pool(1) /\ p = Taken(1)
      BY <1>4, <2>2
    <3>2. s \in Pooled /\ p \in Seq(Sem) /\ Distinct(p) /\ PoolOf(p) = Pooled \ {s}
      BY <1>3, <3>1, TakesOne
    <3> QED
      BY <1>0, <2>2, <3>2, SemAssumption DEF Pooled, PoolOf, PoolInv
  <2> QED
    BY <2>1, <2>2
<1>6. /\ mutex' \in MutexRec /\ mutex'.lock_count = 0 /\ mutex'.sig = mutex.sig
      /\ mutex'.type = mutex.type /\ mutex'.owner = SWITCHING
      /\ mutex'.waiters = mutex.waiters /\ mutex'.sem = s
      /\ mutex'.order = mutex.order /\ mutex'.busy = mutex.busy
  <2>1. PICK r : r = [mutex EXCEPT !.lock_count = 0, !.owner = SWITCHING, !.sem = s]
    OBVIOUS
  <2>2. 0 \in 0..MaxCount
    BY <1>3
  <2>3. /\ r \in MutexRec /\ r.lock_count = 0 /\ r.sig = mutex.sig
        /\ r.type = mutex.type /\ r.owner = SWITCHING
        /\ r.waiters = mutex.waiters /\ r.sem = s
        /\ r.order = mutex.order /\ r.busy = mutex.busy
    BY <1>3, <1>5, <2>1, <2>2 DEF MutexRec
  <2> QED
    BY <1>4, <2>1, <2>3
<1>7. /\ LockInv' /\ CountInv' /\ CondUse' /\ TurnInv' /\ holds[t] > 0
      /\ \A x \in Sem : t \notin QueueOf(sema, x)
  BY <1>1, <1>2, <1>6, ReleaseSide
<1>8. /\ holds[t] = 1 /\ mutex.owner # NULL /\ mutex.owner # SWITCHING
      /\ \A u \in Thread : pc[u] \notin Switchers
  <2>1. holds[t] = 1
    BY <1>0, <1>1, <1>7 DEF HoldInv
  <2>2. mutex.owner # NULL /\ mutex.owner # SWITCHING
    BY <1>0, <1>7, SemAssumption, MutexAssumption DEF HoldInv
  <2> QED
    BY <1>0, <2>1, <2>2 DEF HoldInv
<1>9. /\ holds' \in [Thread -> Nat] /\ holds'[t] = 0
      /\ \A u \in Thread : u # t => holds'[u] = holds[u]
  BY <1>1, <1>3, <1>8
<1>10. TypeOK'
  <2>1. pc' \in [Thread -> Places] /\ sem_pool' \in Seq(Sem)
    BY <1>2, <1>4, <1>5 DEF Moved
  <2>2. sema' = sema /\ mlock' = mlock /\ loc' = loc /\ cond' = cond /\ clock' = clock
    BY <1>1
  <2> QED
    BY <1>0, <1>6, <1>9, <2>1, <2>2, TypeFacts, TypesNext
<1>11. HoldInv'
  BY <1>0, <1>2, <1>6, <1>8, <1>9, HoldGone DEF Owners
<1>12. mutex.sig = "ready"
  BY <1>0, <1>8 DEF MutexUse
<1>13. MutexUse'
  <2>1. \A u \in Thread : pc'[u] \notin {"l_drain", "l_switch"} /\ pc[u] # "l_drain"
    BY <1>2, <1>8 DEF Moved, Switchers
  <2>2. ASSUME NEW u \in Thread, pc'[u] \in Queuers
        PROVE  loc'[u].sem = s /\ loc'[u].order = mutex.order
    <3>1. u # t
      BY <1>2, <2>2 DEF Moved, Queuers
    <3>2. pc[u] \in Queuers
      BY <1>2, <2>2, <3>1 DEF Moved
    <3>3. mutex.waiters # 0
      BY <1>0, <3>2, CountFacts
    <3>4. mutex.sem # NULL
      BY <1>0, <3>3 DEF MutexUse
    <3> QED
      BY <1>0, <1>1, <1>4, <3>2, <3>4 DEF MutexUse
  <2>3. SWITCHING # NULL
    BY MutexAssumption
  <2> QED
    BY <1>0, <1>5, <1>6, <1>12, <2>1, <2>2, <2>3 DEF MutexUse
<1>14. PoolInv'
  <2>1. PICK o, c : o = mutex.order /\ c = cond.sem
    OBVIOUS
  <2>2. mutex'.sem = s /\ mutex'.order = o /\ cond'.sem = c
    BY <1>1, <1>6, <2>1
  <2>3. s # o /\ s # c /\ (o # NULL => o # c) /\ PoolOf(p) = Sem \ {s, o, c}
    BY <1>0, <1>5, <2>1 DEF PoolInv
  <2> QED
    BY <1>4, <1>5, <2>2, <2>3, PoolChanges
<1>15. QueueInv'
  <2>1. mutex'.sem = mutex.sem \/ mutex.sem = NULL
    BY <1>4, <1>6
  <2> QED
    BY <1>0, <1>1, <1>2, <1>6, <1>7, <2>1, QueueMoves
<1>16. TokenInv'
  <2>1. \A u \in Thread : ~Carries(u)
    BY <1>0, <1>8 DEF TokenInv
  <2>2. \A u \in Thread : pc[u] \in {"l_woken", "l_switch"} => mutex.sem = s
    <3>1. \A u \in Thread : pc[u] \in {"l_woken", "l_switch"} => mutex.sem \in Sem
      BY <1>0, HasSem DEF Carrying
    <3> QED
      BY <1>4, <3>1, SemAssumption
  <2>3. QueueOf(sema, mutex.sem)' = QueueOf(sema, s)
    <3>1. QueueOf(sema, mutex.sem)' = QueueOf(sema', mutex'.sem)
      BY DEF QueueOf
    <3> QED
      BY <1>1, <1>6, <3>1
  <2>4. \A u \in Thread : Carries(u)' => u = t
    BY <1>2, <2>1, <2>2, <2>3 DEF Moved, Carries
  <2>5. sema[s].count = 0
    <3>1. CASE mutex.sem # NULL
      <4>1. sema[s].count \in Nat
        BY <1>0, <1>5, SaneSem DEF QueueInv
      <4> QED
        BY <1>0, <1>4, <1>8, <3>1, <4>1 DEF TokenInv
    <3>2. CASE mutex.sem = NULL
      BY <1>0, <1>5, <3>2 DEF QueueInv
    <3> QED
      BY <3>1, <3>2
  <2> QED
    BY <1>1, <1>6, <2>4, <2>5 DEF TokenInv
<1> QED
  BY <1>7, <1>10, <1>11, <1>13, <1>14, <1>15, <1>16 DEF SyncInv

\* What a cond wait does when it goes to sleep: the kernel has passed the mutex
\* on (S), or the thread still has it (S is sema).
LEMMA CondSleeps ==
  ASSUME SyncInv, NEW t \in Thread, pc[t] \in {"c_wait", "c_wait_only"},
         Goto(t, "c_leave"), NEW S, Sane(S),
         \A x \in Sem : QueueOf(S, x) \subseteq QueueOf(sema, x),
         \A x \in Sem : x # mutex.sem => S[x] = sema[x],
         sema' = Waited(S, cond.sem, t),
         loc' = [loc EXCEPT ![t] = Locals(cond.sem, NULL)],
         sem_pool' = sem_pool, mutex' = mutex, mlock' = mlock, holds' = holds,
         cond' = cond, clock' = clock
  PROVE  /\ TypeOK' /\ LockInv' /\ HoldInv' /\ CountInv' /\ MutexUse' /\ CondUse'
         /\ PoolInv' /\ QueueInv' /\ TurnInv' /\ Moved(t, "c_leave")
         /\ cond.sem \in Sem /\ t \in QueueOf(sema', cond.sem)
         /\ \A x \in Sem : x # cond.sem => /\ sema'[x] = S[x]
                                           /\ QueueOf(sema', x) = QueueOf(S, x)
<1>0. /\ TypeOK /\ LockInv /\ HoldInv /\ CountInv /\ MutexUse /\ CondUse
      /\ PoolInv /\ QueueInv /\ TurnInv
  BY DEF SyncInv
<1>1. Moved(t, "c_leave")
  BY <1>0, Goes DEF Places
<1>2. /\ "c_leave" \notin Lockers /\ pc[t] \notin Lockers
      /\ "c_leave" \notin {"c_add", "c_remove"} /\ pc[t] \notin {"c_add", "c_remove"}
      /\ "c_leave" \in Busies /\ pc[t] \in Busies
      /\ In("c_leave", Queuers) = 0 /\ In(pc[t], Queuers) = 0
      /\ In("c_leave", CondUsers) = 1 /\ In(pc[t], CondUsers) = 1
      /\ In("c_leave", Signallers) = 0 /\ In(pc[t], Signallers) = 0
      /\ pc[t] \notin Sleepers /\ "c_leave" \notin Owners /\ "c_leave" \notin Switchers
      /\ pc[t] \notin {"l_wait", "l_order", "l_drain"} /\ "c_leave" \notin Queuers
      /\ "c_leave" \notin {"l_wait", "l_order", "l_drain"}
  BY DEF Lockers, Busies, Queuers, CondUsers, Signallers, In, Sleepers, Owners, Switchers
<1>3. \A x \in Sem : t \notin QueueOf(sema, x)
  BY <1>0, <1>2, Awake
<1>4. PICK c, R : c = cond.sem /\ R = Waited(S, cond.sem, t)
  OBVIOUS
<1>5. c \in Sem /\ c # NULL /\ (mutex.sem # NULL => c # mutex.sem)
      /\ (mutex.order # NULL => c # mutex.order)
  <2>1. cond.sem # NULL
    BY <1>0, <1>2 DEF CondUse
  <2> QED
    BY <1>0, <1>4, <2>1 DEF TypeOK, PoolInv
<1>6. c \notin {mutex.sem, mutex.order}
  BY <1>5
<1>7. S[c].count = 0 /\ S[c] = sema[c]
  BY <1>0, <1>5, <1>6 DEF QueueInv
<1>8. /\ Sane(R) /\ R[c].count = 0 /\ QueueOf(R, c) = QueueOf(S, c) \cup {t}
      /\ \A x \in Sem : x # c => R[x] = S[x] /\ QueueOf(R, x) = QueueOf(S, x)
  <2>1. t \notin QueueOf(S, c) /\ R = Waited(S, c, t)
    BY <1>3, <1>4, <1>5
  <2> QED
    BY <1>5, <1>7, <2>1, WaitedQueue
<1>9. sema' = R
  BY <1>4
<1>10. /\ loc' \in [Thread -> LocRec] /\ loc'[t].sem = cond.sem
       /\ \A u \in Thread : u # t => loc'[u] = loc[u]
  <2>1. loc \in [Thread -> LocRec]
    BY <1>0, TypeFacts
  <2> QED
    BY <1>4, <1>5, <2>1, LocalsType
<1>11. TypeOK'
  <2>1. sema' \in [Sem -> SemRec] /\ pc' \in [Thread -> Places]
    BY <1>1, <1>8, <1>9 DEF Sane, Moved
  <2> QED
    BY <1>0, <1>10, <2>1, TypeFacts, TypesNext
<1>12. LockInv'
  BY <1>0, <1>1, <1>2, LockMoves
<1>13. CountInv'
  <2>1. mutex.waiters \in Nat /\ cond.waiters \in Nat /\ cond.sigspending \in Nat
    BY <1>0, CountFacts
  <2>2. /\ mutex'.waiters = mutex.waiters + In("c_leave", Queuers) - In(pc[t], Queuers)
        /\ cond'.waiters =
             cond.waiters + In("c_leave", CondUsers) - In(pc[t], CondUsers)
        /\ cond'.sigspending =
             cond.sigspending + In("c_leave", Signallers) - In(pc[t], Signallers)
    BY <1>2, <2>1
  <2> QED
    BY <1>0, <1>1, <2>2, CountsMove
<1>14. HoldInv'
  BY <1>0, <1>1, <1>2, HoldMoves
<1>15. MutexUse'
  <2>1. mutex.sig # "ready" => ~mutex'.busy
    BY <1>0 DEF MutexUse
  <2> QED
    BY <1>0, <1>1, <1>2, <1>10, <2>1, MutexMoves
<1>16. CondUse'
  BY <1>0, <1>1, <1>2, <1>10, CondStays
<1>17. PoolInv'
  BY <1>0, PoolStays
<1>18. QueueInv'
  <2>1. \A x \in Sem : x \notin {mutex.sem, mutex.order} => R[x].count = 0
    BY <1>0, <1>7, <1>8 DEF QueueInv
  <2>2. ASSUME NEW x \in Sem, NEW u \in QueueOf(R, x)
        PROVE  \/ u # t /\ u \in QueueOf(sema, x)
               \/ u = t /\ x = cond.sem
    BY <1>3, <1>4, <1>8, <2>2
  <2> QED
    BY <1>0, <1>1, <1>8, <1>9, <2>1, <2>2, QueueChanges
<1>19. \A x \in Sem : x # cond.sem => /\ sema'[x] = S[x]
                                      /\ QueueOf(sema', x) = QueueOf(S, x)
  BY <1>4, <1>8, <1>9
<1>20. TurnInv'
  <2>1. mutex.order # NULL => /\ mutex.order \in Sem /\ mutex.order # c
                              /\ mutex.order # mutex.sem
    BY <1>0, <1>5, SemAssumption DEF PoolInv, TypeOK
  <2>2. mutex.order # NULL => /\ sema'[mutex.order].count = sema[mutex.order].count
                              /\ QueueOf(sema', mutex.order) = QueueOf(sema, mutex.order)
    <3>1. mutex.order # NULL => S[mutex.order] = sema[mutex.order]
      BY <2>1
    <3>2. mutex.order # NULL => QueueOf(S, mutex.order) = QueueOf(sema, mutex.order)
      BY <3>1 DEF QueueOf
    <3> QED
      BY <1>4, <1>19, <2>1, <3>1, <3>2
  <2> QED
    BY <1>0, <1>1, <1>2, <2>2, TurnStays
<1>21. t \in QueueOf(sema', cond.sem)
  BY <1>4, <1>8, <1>9
<1> QED
  BY <1>1, <1>4, <1>5, <1>11, <1>12, <1>13, <1>14, <1>15, <1>16, <1>17, <1>18, <1>19,
     <1>20, <1>21

LEMMA CondSleepStep ==
  ASSUME SyncInv, NEW t \in Thread, CondSleep(t)
  PROVE  SyncInv' /\ cond.sem \in Sem /\ t \in QueueOf(sema', cond.sem)
         /\ QueueOf(sema', cond.sem) = QueueOf(sema, cond.sem) \cup {t}
<1>0. /\ TypeOK /\ HoldInv /\ CountInv /\ MutexUse /\ CondUse
      /\ PoolInv /\ QueueInv /\ TokenInv /\ Sane(sema)
  BY DEF SyncInv, QueueInv
<1>1. /\ Goto(t, "c_leave") /\ loc' = [loc EXCEPT ![t] = Locals(cond.sem, NULL)]
      /\ sem_pool' = sem_pool /\ mutex' = mutex /\ mlock' = mlock /\ holds' = holds
      /\ cond' = cond /\ clock' = clock
  BY DEF CondSleep, condVars
<1>2. CASE pc[t] = "c_wait" /\ sema' = WaitSignalled(sema, cond.sem, mutex.sem, t)
  <2>1. PICK S : S = Signalled(sema, mutex.sem)
    OBVIOUS
  <2>2. mutex.sem \in Sem /\ mutex.sem # NULL /\ pc[t] \in {"c_wait", "c_wait_only"}
    BY <1>0, <1>2, HasSem, SemAssumption DEF Carrying
  <2>3. /\ Sane(S) /\ QueueOf(S, mutex.sem) \subseteq QueueOf(sema, mutex.sem)
        /\ \A x \in Sem : x # mutex.sem => S[x] = sema[x] /\ QueueOf(S, x) = QueueOf(sema, x)
    BY <1>0, <2>1, <2>2, SignalledQueue
  <2>4. \A x \in Sem : QueueOf(S, x) \subseteq QueueOf(sema, x)
    BY <2>3
  <2>5. sema' = Waited(S, cond.sem, t)
    BY <1>2, <2>1 DEF WaitSignalled
  <2>6. /\ TypeOK' /\ LockInv' /\ HoldInv' /\ CountInv' /\ MutexUse' /\ CondUse'
        /\ PoolInv' /\ QueueInv' /\ TurnInv' /\ Moved(t, "c_leave")
        /\ cond.sem \in Sem /\ t \in QueueOf(sema', cond.sem)
        /\ \A x \in Sem : x # cond.sem => /\ sema'[x] = S[x]
                                          /\ QueueOf(sema', x) = QueueOf(S, x)
    BY <1>1, <2>2, <2>3, <2>4, <2>5, CondSleeps
  <2>7. mutex.sem # cond.sem
    BY <1>0, <2>2 DEF PoolInv
  <2>8. TokenInv'
    <3>1. /\ sema'[mutex.sem].count = S[mutex.sem].count
          /\ QueueOf(sema', mutex.sem) = QueueOf(S, mutex.sem)
      BY <2>2, <2>6, <2>7
    <3>2. "c_leave" \notin Carrying /\ pc[t] \in {"u_signal", "c_wait"}
      BY <1>2 DEF Carrying
    <3> QED
      BY <1>0, <1>1, <2>1, <2>6, <3>1, <3>2, TokenPassed
  <2>9. QueueOf(sema', cond.sem) = QueueOf(sema, cond.sem) \cup {t}
    <3>1. PICK c : c = cond.sem
      OBVIOUS
    <3>2. c \in Sem /\ S[c] = sema[c] /\ QueueOf(S, c) = QueueOf(sema, c)
      BY <2>3, <2>6, <2>7, <3>1
    <3>3. sema[c].count = 0
      <4>1. mutex.order # c
        BY <1>0, <2>6, <3>1, SemAssumption DEF PoolInv
      <4> QED
        BY <1>0, <2>7, <3>1, <3>2, <4>1 DEF QueueInv
    <3>4. t \notin QueueOf(S, c)
      <4>1. pc[t] \notin Sleepers
        BY <1>2 DEF Sleepers
      <4> QED
        BY <1>0, <3>2, <4>1, Awake
    <3>5. sema' = Waited(S, c, t) /\ S[c].count = 0
      BY <2>5, <3>1, <3>2, <3>3
    <3>6. QueueOf(Waited(S, c, t), c) = QueueOf(S, c) \cup {t}
      BY <2>3, <3>2, <3>4, <3>5, WaitedQueue
    <3> QED
      BY <3>1, <3>2, <3>5, <3>6
  <2> QED
    BY <2>6, <2>8, <2>9 DEF SyncInv
<1>3. CASE pc[t] = "c_wait_only" /\ sema' = Waited(sema, cond.sem, t)
  <2>1. \A x \in Sem : QueueOf(sema, x) \subseteq QueueOf(sema, x) /\ sema[x] = sema[x]
    OBVIOUS
  <2>2. /\ TypeOK' /\ LockInv' /\ HoldInv' /\ CountInv' /\ MutexUse' /\ CondUse'
        /\ PoolInv' /\ QueueInv' /\ TurnInv' /\ Moved(t, "c_leave")
        /\ cond.sem \in Sem /\ t \in QueueOf(sema', cond.sem)
        /\ \A x \in Sem : x # cond.sem => /\ sema'[x] = sema[x]
                                          /\ QueueOf(sema', x) = QueueOf(sema, x)
    BY <1>0, <1>1, <1>3, <2>1, CondSleeps
  <2>3. TokenInv'
    <3>1. ~Carries(t) /\ "c_leave" \notin Carrying
      BY <1>3 DEF Carries, Carrying
    <3>2. mutex.sem # NULL => /\ sema'[mutex.sem].count = sema[mutex.sem].count
                              /\ QueueOf(sema', mutex.sem) = QueueOf(sema, mutex.sem)
      <4>1. mutex.sem # NULL => mutex.sem \in Sem /\ mutex.sem # cond.sem
        BY <1>0 DEF PoolInv, TypeOK
      <4> QED
        BY <2>2, <4>1
    <3> QED
      BY <1>0, <1>1, <2>2, <3>1, <3>2, TokenStays
  <2>4. QueueOf(sema', cond.sem) = QueueOf(sema, cond.sem) \cup {t}
    <3>1. PICK c : c = cond.sem
      OBVIOUS
    <3>2. c \in Sem /\ c \notin {mutex.sem, mutex.order}
      BY <1>0, <2>2, <3>1, SemAssumption DEF PoolInv
    <3>3. sema[c].count = 0
      BY <1>0, <3>2 DEF QueueInv
    <3>4. t \notin QueueOf(sema, c)
      <4>1. pc[t] \notin Sleepers
        BY <1>3 DEF Sleepers
      <4> QED
        BY <1>0, <3>2, <4>1, Awake
    <3>5. QueueOf(Waited(sema, c, t), c) = QueueOf(sema, c) \cup {t}
      BY <1>0, <3>2, <3>3, <3>4, WaitedQueue
    <3> QED
      BY <1>3, <3>1, <3>5
  <2> QED
    BY <2>2, <2>3, <2>4 DEF SyncInv
<1> QED
  BY <1>2, <1>3 DEF CondSleep

\* Some of the sleepers wake up, and nothing else happens.
LEMMA SleepersWake ==
  ASSUME SyncInv, NEW t \in Thread, NEW l, Moved(t, l),
         \/ pc[t] = "c_leave" /\ l = "c_leave"
         \/ pc[t] \in {"s_one", "s_thread", "s_all"} /\ l = "s_done",
         NEW Q, Q \subseteq QueueOf(sema, cond.sem),
         cond.sem \in Sem, NowQueued(sema', sema, cond.sem, Q),
         sem_pool' = sem_pool, mutex' = mutex, mlock' = mlock, loc' = loc,
         holds' = holds, cond' = cond, clock' = clock
  PROVE  SyncInv'
<1>0. /\ TypeOK /\ LockInv /\ HoldInv /\ CountInv /\ MutexUse /\ CondUse
      /\ PoolInv /\ QueueInv
  BY DEF SyncInv
<1>1. /\ pc[t] \in CondOnly /\ l \in CondOnly /\ l \notin Owners
      /\ l \notin {"c_add", "c_remove"} /\ pc[t] \notin {"c_add", "c_remove"}
      /\ l \in Busies <=> pc[t] \in Busies
      /\ l \in Signallers \cup {"c_leave"} /\ pc[t] \in Signallers \cup {"c_leave"}
      /\ In(l, CondUsers) = In(pc[t], CondUsers)
      /\ In(l, Signallers) = In(pc[t], Signallers)
      /\ In(l, CondUsers) \in Nat /\ In(l, Signallers) \in Nat
  BY DEF CondOnly, Owners, Busies, CondUsers, Signallers, In
<1>2. /\ Sane(sema') /\ QueueOf(sema', cond.sem) = Q
      /\ \A x \in Sem : sema'[x].count = sema[x].count
      /\ \A x \in Sem : x # cond.sem => QueueOf(sema', x) = QueueOf(sema, x)
  BY DEF NowQueued
<1>3. /\ mutex.sem # NULL => mutex.sem \in Sem /\ mutex.sem # cond.sem
      /\ mutex.order # NULL => mutex.order \in Sem /\ mutex.order # cond.sem
  BY <1>0 DEF TypeOK, PoolInv
<1>4. /\ mutex.sem # NULL => /\ sema'[mutex.sem].count = sema[mutex.sem].count
                             /\ QueueOf(sema', mutex.sem) = QueueOf(sema, mutex.sem)
      /\ mutex.order # NULL => /\ sema'[mutex.order].count = sema[mutex.order].count
                               /\ QueueOf(sema', mutex.order) = QueueOf(sema, mutex.order)
  BY <1>2, <1>3
<1>5. /\ LockInv' /\ HoldInv' /\ CountInv' /\ MutexUse' /\ TokenInv' /\ TurnInv'
  <2>1. cond.waiters \in Nat /\ cond.sigspending \in Nat
    BY <1>0, CountFacts
  <2>2. /\ cond'.waiters = cond.waiters + In(l, CondUsers) - In(pc[t], CondUsers)
        /\ cond'.sigspending =
             cond.sigspending + In(l, Signallers) - In(pc[t], Signallers)
    BY <1>1, <2>1
  <2>3. clock' = (IF l \in {"c_add", "c_remove"} THEN t
                  ELSE IF pc[t] \in {"c_add", "c_remove"} THEN NULL ELSE clock)
    BY <1>1
  <2>4. mutex.sig # "ready" => ~mutex'.busy
    BY <1>0 DEF MutexUse
  <2> QED
    BY <1>1, <1>4, <2>2, <2>3, <2>4, CondSide
<1>6. TypeOK'
  <2>1. sema' \in [Sem -> SemRec] /\ pc' \in [Thread -> Places]
    BY <1>2 DEF Sane, Moved
  <2> QED
    BY <1>0, <2>1, TypeFacts, TypesNext
<1>7. CondUse'
  <2>1. loc'[t].sem = cond.sem
    BY <1>0, <1>1 DEF CondUse
  <2> QED
    BY <1>0, <1>1, <2>1, CondStays
<1>8. PoolInv'
  BY <1>0, PoolStays
<1>9. QueueInv'
  <2>1. \A x \in Sem : x \notin {mutex.sem, mutex.order} => sema'[x].count = 0
    BY <1>0, <1>2 DEF QueueInv
  <2>2. \A x \in Sem : QueueOf(sema', x) \subseteq QueueOf(sema, x)
    BY <1>2
  <2>3. ASSUME NEW x \in Sem, NEW u \in QueueOf(sema', x)
        PROVE  \/ u # t /\ u \in QueueOf(sema, x)
               \/ u = t /\ x = cond.sem /\ l = "c_leave"
    <3>1. u \in QueueOf(sema, x)
      BY <2>2, <2>3
    <3>2. CASE pc[t] = "c_leave"
      BY <1>0, <3>1, <3>2 DEF QueueInv
    <3>3. CASE pc[t] # "c_leave"
      <4>1. pc[t] \notin Sleepers
        BY <3>3 DEF Sleepers
      <4>2. t \notin QueueOf(sema, x)
        BY <1>0, <4>1, Awake
      <4> QED
        BY <3>1, <4>2
    <3> QED
      BY <3>2, <3>3
  <2> QED
    BY <1>0, <1>2, <2>1, <2>3, QueueChanges
<1> QED
  BY <1>5, <1>6, <1>7, <1>8, <1>9 DEF SyncInv

LEMMA TimeOutStep ==
  ASSUME SyncInv, NEW t \in Thread, TimeOut(t)
  PROVE  SyncInv' /\ cond.sem \in Sem /\ t \in QueueOf(sema, cond.sem)
         /\ QueueOf(sema', cond.sem) = QueueOf(sema, cond.sem) \ {t}
<1>0. /\ TypeOK /\ CondUse /\ Sane(sema)
  BY DEF SyncInv, QueueInv
<1>1. /\ pc[t] = "c_leave" /\ InQueue(t, loc[t].sem)
      /\ sema' = Left(sema, loc[t].sem, t)
      /\ sem_pool' = sem_pool /\ mutex' = mutex /\ mlock' = mlock /\ loc' = loc
      /\ holds' = holds /\ pc' = pc /\ cond' = cond /\ clock' = clock
  BY DEF TimeOut, mutexVars, condVars
<1>2. Moved(t, "c_leave")
  BY <1>0, <1>1, Stays
<1>3. loc[t].sem = cond.sem /\ cond.sem \in Sem
  <2>1. loc[t].sem = cond.sem /\ cond.sem # NULL
    BY <1>0, <1>1 DEF CondUse, Busies
  <2> QED
    BY <1>0, <2>1 DEF TypeOK
<1>4. NowQueued(sema', sema, cond.sem, QueueOf(sema, cond.sem) \ {t})
  BY <1>0, <1>1, <1>3, LeftQueue
<1>5. QueueOf(sema, cond.sem) \ {t} \subseteq QueueOf(sema, cond.sem)
  OBVIOUS
<1>6. SyncInv'
  BY <1>1, <1>2, <1>3, <1>4, <1>5, SleepersWake
<1>7. t \in QueueOf(sema, cond.sem)
  BY <1>1, <1>3, Queued
<1> QED
  BY <1>3, <1>4, <1>6, <1>7 DEF NowQueued

\* The threads a signaller wakes up: one, one given, or all.
Woken(t, Q) ==
  \/ /\ pc[t] = "s_one"
     /\ \/ QueueOf(sema, cond.sem) = {} /\ Q = {}
        \/ \E h \in QueueOf(sema, cond.sem) : Q = QueueOf(sema, cond.sem) \ {h}
  \/ pc[t] = "s_thread" /\ \E u \in Thread : Q = QueueOf(sema, cond.sem) \ {u}
  \/ pc[t] = "s_all" /\ Q = {}

LEMMA SignalSleepersStep ==
  ASSUME SyncInv, NEW t \in Thread, SignalSleepers(t)
  PROVE  SyncInv' /\ cond.sem \in Sem /\ Woken(t, QueueOf(sema', cond.sem))
<1>0. /\ TypeOK /\ CountInv /\ CondUse /\ Sane(sema)
  BY DEF SyncInv, QueueInv
<1>1. /\ pc[t] \in {"s_one", "s_thread", "s_all"} /\ Goto(t, "s_done")
      /\ sem_pool' = sem_pool /\ mutex' = mutex /\ mlock' = mlock /\ loc' = loc
      /\ holds' = holds /\ cond' = cond /\ clock' = clock
  BY DEF SignalSleepers, condVars
<1>2. Moved(t, "s_done")
  BY <1>0, <1>1, Goes DEF Places
<1>3. loc[t].sem = cond.sem /\ cond.sem \in Sem
  <2>1. pc[t] \in Signallers
    BY <1>1 DEF Signallers
  <2>2. loc[t].sem = cond.sem /\ cond.sigspending # 0
    BY <1>0, <2>1, CountFacts DEF CondUse
  <2>3. cond.sem # NULL
    BY <1>0, <2>2 DEF CondUse
  <2> QED
    BY <1>0, <2>2, <2>3 DEF TypeOK
<1>4. PICK c : c = cond.sem
  OBVIOUS
<1>5. PICK Q : /\ NowQueued(sema', sema, c, Q) /\ Q \subseteq QueueOf(sema, c)
               /\ Woken(t, Q)
  <2>1. CASE pc[t] = "s_one" /\ sema' = SignalledOne(sema, c)
    <3>1. CASE QueueOf(sema, c) = {}
      <4>1. NowQueued(sema', sema, c, {})
        BY <1>0, <1>3, <1>4, <2>1, <3>1, SignalledOneQueue
      <4>2. Woken(t, {})
        BY <1>4, <2>1, <3>1 DEF Woken
      <4> QED
        BY <4>1, <4>2
    <3>2. CASE QueueOf(sema, c) # {}
      <4>1. \E h \in QueueOf(sema, c) :
              NowQueued(SignalledOne(sema, c), sema, c, QueueOf(sema, c) \ {h})
        BY <1>0, <1>3, <1>4, <3>2, SignalledOneQueue
      <4>2. PICK h \in QueueOf(sema, c) :
              NowQueued(sema', sema, c, QueueOf(sema, c) \ {h})
        BY <2>1, <4>1
      <4>3. Woken(t, QueueOf(sema, c) \ {h})
        BY <1>4, <2>1, <4>2 DEF Woken
      <4> QED
        BY <4>2, <4>3
    <3> QED
      BY <3>1, <3>2
  <2>2. CASE /\ pc[t] = "s_thread"
             /\ \E u \in CondThread : sema' = Left(sema, c, u)
    <3>1. PICK u \in CondThread : sema' = Left(sema, c, u)
      BY <2>2
    <3>2. u \in Thread
      BY CondAssumption
    <3>3. NowQueued(sema', sema, c, QueueOf(sema, c) \ {u})
      BY <1>0, <1>3, <1>4, <3>1, <3>2, LeftQueue
    <3>4. Woken(t, QueueOf(sema, c) \ {u})
      BY <1>4, <2>2, <3>2 DEF Woken
    <3> QED
      BY <3>3, <3>4
  <2>3. CASE pc[t] = "s_all" /\ sema' = SignalledAll(sema, c)
    <3>1. NowQueued(sema', sema, c, {})
      BY <1>0, <1>3, <1>4, <2>3, SignalledAllQueue
    <3>2. Woken(t, {})
      BY <2>3 DEF Woken
    <3> QED
      BY <3>1, <3>2
  <2> QED
    BY <1>3, <1>4, <2>1, <2>2, <2>3 DEF SignalSleepers
<1>6. SyncInv'
  BY <1>1, <1>2, <1>3, <1>4, <1>5, SleepersWake
<1> QED
  BY <1>3, <1>4, <1>5, <1>6 DEF NowQueued

LEMMA CondLeaveStep ==
  ASSUME SyncInv, NEW t \in Thread, CondLeave(t)
  PROVE  SyncInv'
<1>0. /\ TypeOK /\ LockInv /\ HoldInv /\ CountInv /\ MutexUse /\ CondUse
      /\ PoolInv /\ QueueInv
  BY DEF SyncInv
<1>1. /\ pc[t] = "c_leave" /\ ~Blocked(t) /\ clock = NULL
      /\ cond' = [cond EXCEPT !.waiters = @ - 1]
      /\ sema' = sema /\ sem_pool' = sem_pool /\ mutex' = mutex /\ mlock' = mlock
      /\ loc' = loc /\ holds' = holds
  BY DEF CondLeave, CLOCK, semVars
<1>2. PICK l : /\ l \in {"c_remove", "c_relock"} /\ Goto(t, l)
               /\ l = "c_remove" => cond.waiters = 1 /\ clock' = t
               /\ l = "c_relock" => cond.waiters # 1 /\ clock' = NULL
  <2>1. CASE cond.waiters = 1
    BY <2>1 DEF CondLeave
  <2>2. CASE cond.waiters # 1
    BY <2>2 DEF CondLeave
  <2> QED
    BY <2>1, <2>2
<1>3. cond.waiters \in Nat /\ cond.sigspending \in Nat /\ cond.waiters # 0
      /\ pc[t] \in CondUsers
  <2>1. pc[t] \in CondUsers
    BY <1>1 DEF CondUsers
  <2> QED
    BY <1>0, <2>1, CountFacts
<1>4. /\ cond' \in CondRec /\ cond'.waiters = cond.waiters - 1 /\ cond'.sem = cond.sem
      /\ cond'.sigspending = cond.sigspending /\ cond'.busy = cond.busy
      /\ cond'.sig = cond.sig
  <2>1. cond \in CondRec /\ cond.waiters - 1 \in Nat
    BY <1>0, <1>3, TypeFacts
  <2> QED
    BY <1>1, <2>1 DEF CondRec
<1>5. Moved(t, l)
  BY <1>0, <1>2, Goes DEF Places
<1>6. /\ pc[t] \in CondOnly /\ l \in CondOnly /\ l \notin Owners
      /\ l \in {"c_add", "c_remove"} <=> l = "c_remove"
      /\ pc[t] \notin {"c_add", "c_remove"}
      /\ l \notin Signallers \cup {"c_leave"} /\ pc[t] \notin Signallers
      /\ pc[t] \in Busies /\ l \notin CondUsers /\ l # "c_add"
      /\ l \in Busies <=> l = "c_remove"
  BY <1>1, <1>2 DEF CondOnly, CondUsers, Busies, Signallers, Owners
<1>7. /\ LockInv' /\ HoldInv' /\ CountInv' /\ MutexUse' /\ TokenInv' /\ TurnInv'
      /\ clock' \in Thread \cup {NULL}
  <2>1. /\ In(l, CondUsers) = 0 /\ In(pc[t], CondUsers) = 1
        /\ In(l, Signallers) = 0 /\ In(pc[t], Signallers) = 0
    BY <1>3, <1>6 DEF In
  <2>2. /\ cond'.waiters = cond.waiters + In(l, CondUsers) - In(pc[t], CondUsers)
        /\ cond'.sigspending =
             cond.sigspending + In(l, Signallers) - In(pc[t], Signallers)
    BY <1>3, <1>4, <2>1
  <2>3. clock' = (IF l \in {"c_add", "c_remove"} THEN t
                  ELSE IF pc[t] \in {"c_add", "c_remove"} THEN NULL ELSE clock)
    BY <1>1, <1>2, <1>6
  <2>4. mutex.sig # "ready" => ~mutex'.busy
    BY <1>0, <1>1 DEF MutexUse
  <2> QED
    BY <1>1, <1>5, <1>6, <2>2, <2>3, <2>4, CondSide
<1>8. TypeOK'
  <2>1. pc' \in [Thread -> Places]
    BY <1>5 DEF Moved
  <2>2. /\ sema' = sema /\ sem_pool' = sem_pool /\ mutex' = mutex /\ mlock' = mlock
        /\ loc' = loc /\ holds' = holds
    BY <1>1
  <2> QED
    BY <1>0, <1>4, <1>7, <2>1, <2>2, TypeFacts, TypesNext
<1>9. \A u \in Thread : pc[u] \notin {"c_add", "c_remove"}
  BY <1>1, NoClock
<1>10. CondUse'
  <2>1. \E u \in Thread : pc'[u] \in Busies
    <3>1. CASE l = "c_remove"
      BY <1>5, <1>6, <3>1 DEF Moved
    <3>2. CASE l = "c_relock"
      <4>1. cond.waiters # 1
        BY <1>2, <3>2
      <4>2. \E u \in Thread : u # t /\ pc[u] \in CondUsers
        <5>1. SUFFICES ASSUME \A u \in Thread : u # t => pc[u] \notin CondUsers
                       PROVE  FALSE
          OBVIOUS
        <5>2. At(CondUsers) = {t}
          BY <1>3, <5>1 DEF At
        <5>3. Cardinality(At(CondUsers)) = 1
          BY <5>2, FS_Singleton
        <5> QED
          BY <1>0, <4>1, <5>3 DEF CountInv, Counted
      <4>3. PICK u \in Thread : u # t /\ pc[u] \in CondUsers
        BY <4>2
      <4>4. pc[u] \in Busies
        BY <1>9, <4>3 DEF CondUsers, Busies
      <4> QED
        BY <1>5, <4>3, <4>4 DEF Moved
    <3> QED
      BY <1>2, <3>1, <3>2
  <2>2. cond.sem # NULL /\ mutex.busy /\ cond.sig = "ready"
    <3>1. cond.sig \in {"init", "ready", "none"}
      BY <1>0 DEF TypeOK
    <3> QED
      BY <1>0, <1>3, <1>6, <3>1 DEF CondUse
  <2>3. ASSUME NEW u \in Thread
        PROVE  /\ pc'[u] \in Signallers \cup {"c_leave"} => loc'[u].sem = cond.sem
               /\ pc'[u] # "c_add"
               /\ pc'[u] = "c_remove" => cond'.waiters = 0
    <3>1. CASE u = t
      <4>1. pc'[u] = l
        BY <1>5, <3>1 DEF Moved
      <4> QED
        BY <1>2, <1>4, <1>6, <4>1
    <3>2. CASE u # t
      BY <1>0, <1>1, <1>5, <1>9, <3>2 DEF Moved, CondUse
    <3> QED
      BY <3>1, <3>2
  <2> QED
    BY <1>0, <1>1, <1>4, <2>1, <2>2, <2>3 DEF CondUse
<1>11. PoolInv'
  BY <1>0, <1>1, <1>4, PoolStays
<1>12. QueueInv'
  <2>1. \A s \in Sem : t \notin QueueOf(sema, s)
    BY <1>0, <1>1, Awake
  <2> QED
    BY <1>0, <1>1, <1>4, <1>5, <2>1, QueueStays
<1> QED
  BY <1>7, <1>8, <1>10, <1>11, <1>12 DEF SyncInv

\* The condition variable keeps its semaphore, or puts it back into the pool.
LEMMA SemReturned ==
  ASSUME SyncInv, cond.sem \in Sem, NEW c, cond'.sem = c,
         mutex'.sem = mutex.sem, mutex'.order = mutex.order,
         \/ c = cond.sem /\ sem_pool' = sem_pool
         \/ c = NULL /\ sem_pool' = Restored(cond.sem)
  PROVE  PoolInv' /\ sem_pool' \in Seq(Sem)
<1>0. TypeOK /\ PoolInv
  BY DEF SyncInv
<1>1. sem_pool \in Seq(Sem) /\ Distinct(sem_pool)
  BY <1>0 DEF TypeOK, PoolInv
<1>2. CASE c = cond.sem /\ sem_pool' = sem_pool
  <2>1. PoolInv'
    BY <1>0, <1>2, PoolStays
  <2>2. sem_pool' = sem_pool
    BY <1>2
  <2> QED
    BY <1>1, <2>1, <2>2
<1>3. CASE c = NULL /\ sem_pool' = Restored(cond.sem)
  <2>1. cond.sem \notin Pooled
    BY <1>0 DEF PoolInv
  <2>2. PICK p : p = <<cond.sem>> \o sem_pool
    OBVIOUS
  <2>3. p \in Seq(Sem) /\ Distinct(p) /\ PoolOf(p) = Pooled \cup {cond.sem}
    BY <1>1, <2>1, <2>2, Restores DEF Pooled
  <2>4. sem_pool' = p
    BY <1>3, <2>2 DEF Restored
  <2>5. PICK s, o : s = mutex.sem /\ o = mutex.order
    OBVIOUS
  <2>6. /\ PoolOf(p) = Sem \ {s, o, c}
        /\ s # NULL => s # o /\ s # c
        /\ o # NULL => o # c
    BY <1>0, <1>3, <2>3, <2>5, SemAssumption DEF PoolInv, Pooled, PoolOf
  <2>7. PoolInv'
    BY <2>3, <2>4, <2>5, <2>6, PoolChanges
  <2> QED
    BY <2>3, <2>4, <2>7
<1> QED
  BY <1>2, <1>3

\* The last waiter takes the semaphore away, unless a signaller has it.
LEMMA CondRemoveStep ==
  ASSUME SyncInv, NEW t \in Thread, CondRemove(t)
  PROVE  SyncInv'
<1>0. /\ TypeOK /\ LockInv /\ HoldInv /\ CountInv /\ MutexUse /\ CondUse
      /\ PoolInv /\ QueueInv
  BY DEF SyncInv
<1>1. /\ pc[t] = "c_remove" /\ mlock = NULL /\ mutex' = [mutex EXCEPT !.busy = FALSE]
      /\ clock' = NULL /\ Goto(t, "c_relock") /\ sema' = sema /\ mlock' = mlock
      /\ loc' = loc /\ holds' = holds
  BY DEF CondRemove, LOCK
<1>2. cond \in CondRec /\ mutex \in MutexRec
  BY <1>0, TypeFacts
<1>3. PICK c : /\ cond' = [cond EXCEPT !.busy = FALSE, !.sem = c]
               /\ \/ /\ c = cond.sem /\ cond.sigspending # 0
                     /\ sem_pool' = sem_pool
                  \/ /\ c = NULL /\ cond.sigspending = 0
                     /\ sem_pool' = Restored(cond.sem)
  <2>1. CASE cond.sigspending = 0
    BY <2>1 DEF CondRemove
  <2>2. CASE cond.sigspending # 0
    <3>1. cond' = [cond EXCEPT !.busy = FALSE] /\ sem_pool' = sem_pool
      BY <2>2 DEF CondRemove
    <3>2. PICK r, q : /\ r = [cond EXCEPT !.busy = FALSE]
                      /\ q = [cond EXCEPT !.busy = FALSE, !.sem = cond.sem]
      OBVIOUS
    <3>3. r = q
      BY <1>2, <3>2 DEF CondRec
    <3> QED
      BY <2>2, <3>1, <3>2, <3>3
  <2> QED
    BY <2>1, <2>2
<1>4. Moved(t, "c_relock")
  BY <1>0, <1>1, Goes DEF Places
<1>5. /\ pc[t] \in CondOnly /\ "c_relock" \in CondOnly /\ "c_relock" \notin Owners
      /\ pc[t] \in Busies /\ "c_relock" \notin Busies
      /\ In("c_relock", CondUsers) = 0 /\ In(pc[t], CondUsers) = 0
      /\ In("c_relock", Signallers) = 0 /\ In(pc[t], Signallers) = 0
      /\ pc[t] \notin Sleepers /\ "c_relock" \notin {"c_add", "c_remove"}
      /\ "c_relock" \notin Signallers \cup {"c_leave"} /\ pc[t] \in {"c_add", "c_remove"}
  BY <1>1 DEF CondOnly, CondUsers, Busies, Signallers, Sleepers, In, Owners
<1>6. cond.sem \in Sem /\ cond.waiters = 0
  <2>1. cond.sem # NULL /\ cond.waiters = 0
    BY <1>0, <1>1, <1>5 DEF CondUse
  <2> QED
    BY <1>2, <2>1 DEF CondRec
<1>7. /\ cond' \in CondRec /\ cond'.waiters = 0 /\ cond'.sem = c
      /\ cond'.sigspending = cond.sigspending /\ cond'.busy = FALSE
      /\ cond'.sig = cond.sig
  <2>1. PICK r : r = [cond EXCEPT !.busy = FALSE, !.sem = c]
    OBVIOUS
  <2>2. c \in Sem \cup {NULL}
    BY <1>3, <1>6
  <2>3. /\ r \in CondRec /\ r.waiters = cond.waiters /\ r.sem = c
        /\ r.sigspending = cond.sigspending /\ r.busy = FALSE /\ r.sig = cond.sig
    BY <1>2, <2>1, <2>2 DEF CondRec
  <2> QED
    BY <1>3, <1>6, <2>1, <2>3
<1>8. /\ mutex' \in MutexRec /\ mutex'.lock_count = mutex.lock_count
      /\ mutex'.sig = mutex.sig /\ mutex'.type = mutex.type
      /\ mutex'.owner = mutex.owner /\ mutex'.waiters = mutex.waiters
      /\ mutex'.sem = mutex.sem /\ mutex'.order = mutex.order /\ mutex'.busy = FALSE
  BY <1>1, <1>2 DEF MutexRec
<1>9. /\ LockInv' /\ HoldInv' /\ CountInv' /\ MutexUse' /\ TokenInv' /\ TurnInv'
      /\ clock' \in Thread \cup {NULL}
  <2>1. cond.sigspending \in Nat
    BY <1>0, CountFacts
  <2>2. /\ cond'.waiters = cond.waiters + In("c_relock", CondUsers) - In(pc[t], CondUsers)
        /\ cond'.sigspending =
             cond.sigspending + In("c_relock", Signallers) - In(pc[t], Signallers)
    BY <1>5, <1>6, <1>7, <2>1
  <2> QED
    BY <1>1, <1>4, <1>5, <1>8, <2>2, CondSide
<1>10. PoolInv' /\ sem_pool' \in Seq(Sem)
  BY <1>3, <1>6, <1>7, <1>8, SemReturned
<1>11. TypeOK'
  <2>1. pc' \in [Thread -> Places]
    BY <1>4 DEF Moved
  <2>2. sema' = sema /\ mlock' = mlock /\ loc' = loc /\ holds' = holds
    BY <1>1
  <2> QED
    BY <1>0, <1>7, <1>8, <1>9, <1>10, <2>1, <2>2, TypeFacts, TypesNext
<1>12. \A u \in Thread : u # t => pc[u] \notin Busies /\ pc[u] # "c_add"
  <2>1. clock = t
    BY <1>0, <1>5 DEF LockInv
  <2>2. \A u \in Thread : u # t => pc[u] \notin {"c_add", "c_remove"}
    BY <1>0, <2>1 DEF LockInv
  <2>3. \A u \in Thread : pc[u] \notin CondUsers
    BY <1>0, <1>6, CountFacts
  <2> QED
    BY <2>2, <2>3 DEF CondUsers, Busies
<1>13. CondUse'
  <2>1. \A u \in Thread : pc'[u] \notin Busies /\ pc'[u] # "c_add"
    BY <1>4, <1>5, <1>12 DEF Moved
  <2>2. c = NULL <=> cond.sigspending = 0
    BY <1>3, <1>6, SemAssumption
  <2>3. ASSUME NEW u \in Thread, pc'[u] \in Signallers \cup {"c_leave"}
        PROVE  loc'[u].sem = c
    <3>1. u # t /\ pc'[u] = pc[u] /\ pc[u] \in Signallers
      BY <1>4, <1>5, <2>1, <2>3 DEF Moved, Busies
    <3>2. cond.sigspending # 0
      BY <1>0, <3>1, CountFacts
    <3> QED
      BY <1>0, <1>1, <1>3, <3>1, <3>2 DEF CondUse
  <2> QED
    BY <1>0, <1>6, <1>7, <1>8, <2>1, <2>2, <2>3 DEF CondUse
<1>14. QueueInv'
  <2>1. \A s \in Sem : t \notin QueueOf(sema, s)
    BY <1>0, <1>5, Awake
  <2>2. \A u \in Thread : pc[u] # "c_leave"
    BY <1>1, <1>12 DEF Busies
  <2> QED
    BY <1>0, <1>1, <1>4, <1>8, <2>1, <2>2, QueueMoves
<1> QED
  BY <1>9, <1>10, <1>11, <1>13, <1>14 DEF SyncInv

\* A step of the condition variable that changes no semaphore and no place.
LEMMA CondQuiet ==
  ASSUME SyncInv, NEW t \in Thread, pc[t] = "idle", clock = NULL,
         sema' = sema, sem_pool' = sem_pool, mutex' = mutex, mlock' = mlock,
         pc' = pc, loc' = loc, holds' = holds, clock' = clock,
         cond' \in CondRec, cond'.waiters = cond.waiters, cond'.sem = cond.sem,
         cond'.sigspending = cond.sigspending, cond'.busy = cond.busy,
         cond'.sig = "ready" \/ (cond'.sig = "none" /\ ~cond.busy)
  PROVE  SyncInv'
<1>0. /\ TypeOK /\ LockInv /\ HoldInv /\ CountInv /\ MutexUse /\ CondUse
      /\ PoolInv /\ QueueInv
  BY DEF SyncInv
<1>1. Moved(t, "idle")
  BY <1>0, Stays
<1>2. /\ "idle" \in CondOnly /\ "idle" \notin Owners /\ "idle" \notin {"c_add", "c_remove"}
      /\ In("idle", CondUsers) = 0 /\ In("idle", Signallers) = 0
      /\ pc[t] \notin Sleepers
  BY DEF CondOnly, Owners, In, CondUsers, Signallers, Sleepers
<1>3. /\ LockInv' /\ HoldInv' /\ CountInv' /\ MutexUse' /\ TokenInv' /\ TurnInv'
  <2>1. cond.waiters \in Nat /\ cond.sigspending \in Nat
    BY <1>0, CountFacts
  <2>2. /\ cond'.waiters = cond.waiters + In("idle", CondUsers) - In(pc[t], CondUsers)
        /\ cond'.sigspending =
             cond.sigspending + In("idle", Signallers) - In(pc[t], Signallers)
    BY <1>2, <2>1
  <2>3. mutex.sig # "ready" => ~mutex'.busy
    BY <1>0 DEF MutexUse
  <2> QED
    BY <1>1, <1>2, <2>2, <2>3, CondSide
<1>4. TypeOK'
  BY <1>0, TypeFacts, TypesNext
<1>5. CondUse'
  <2>1. ~cond.busy => cond.waiters = 0
    BY <1>0, NoClock DEF CondUse
  <2> QED
    BY <1>0, <2>1 DEF CondUse
<1>6. PoolInv'
  BY <1>0, PoolStays
<1>7. QueueInv'
  BY <1>0, <1>1, QueueStays
<1> QED
  BY <1>3, <1>4, <1>5, <1>6, <1>7 DEF SyncInv

LEMMA SignalCalledStep ==
  ASSUME SyncInv, NEW t \in Thread, SignalCalled(t)
  PROVE  SyncInv'
<1>0. /\ TypeOK /\ LockInv /\ HoldInv /\ CountInv /\ MutexUse /\ CondUse
      /\ PoolInv /\ QueueInv
  BY DEF SyncInv
<1>1. /\ pc[t] = "idle" /\ clock = NULL /\ cond.sig # "none" /\ clock' = clock
      /\ sema' = sema /\ sem_pool' = sem_pool /\ mutex' = mutex /\ mlock' = mlock
      /\ holds' = holds
  BY DEF SignalCalled, CondCalled, CLOCK, semVars
<1>2. CASE cond.sig = "ready" /\ cond.sem # NULL
  <2>1. /\ cond' = [cond EXCEPT !.sigspending = @ + 1]
        /\ loc' = [loc EXCEPT ![t] = Locals(cond.sem, NULL)]
        /\ \E l \in {"s_one", "s_thread", "s_all"} : Goto(t, l)
    BY <1>2 DEF SignalCalled
  <2>2. PICK l \in {"s_one", "s_thread", "s_all"} : Goto(t, l)
    BY <2>1
  <2>3. /\ cond.waiters \in Nat /\ cond.sigspending \in Nat /\ cond \in CondRec
        /\ loc \in [Thread -> LocRec]
    BY <1>0, CountFacts, TypeFacts
  <2>4. /\ cond' \in CondRec /\ cond'.waiters = cond.waiters /\ cond'.sem = cond.sem
        /\ cond'.sigspending = cond.sigspending + 1 /\ cond'.busy = cond.busy
        /\ cond'.sig = cond.sig
    BY <2>1, <2>3 DEF CondRec
  <2>5. Moved(t, l)
    BY <1>0, <2>2, Goes DEF Places
  <2>6. /\ pc[t] \in CondOnly /\ l \in CondOnly /\ l \notin Owners
        /\ l \notin {"c_add", "c_remove"} /\ pc[t] \notin {"c_add", "c_remove"}
        /\ l \notin Busies /\ pc[t] \notin Busies
        /\ In(l, CondUsers) = 0 /\ In(pc[t], CondUsers) = 0
        /\ In(l, Signallers) = 1 /\ In(pc[t], Signallers) = 0 /\ pc[t] \notin Sleepers
    BY <1>1 DEF CondOnly, CondUsers, Busies, Signallers, Sleepers, In, Owners
  <2>7. /\ loc' \in [Thread -> LocRec] /\ loc'[t].sem = cond.sem
        /\ \A u \in Thread : u # t => loc'[u] = loc[u]
    <3>1. cond.sem \in Sem \cup {NULL}
      BY <2>3 DEF CondRec
    <3> QED
      BY <2>1, <2>3, <3>1, LocalsType
  <2>8. /\ LockInv' /\ HoldInv' /\ CountInv' /\ MutexUse' /\ TokenInv' /\ TurnInv'
    <3>1. /\ cond'.waiters = cond.waiters + In(l, CondUsers) - In(pc[t], CondUsers)
          /\ cond'.sigspending =
               cond.sigspending + In(l, Signallers) - In(pc[t], Signallers)
      BY <2>3, <2>4, <2>6
    <3>2. clock' = (IF l \in {"c_add", "c_remove"} THEN t
                    ELSE IF pc[t] \in {"c_add", "c_remove"} THEN NULL ELSE clock)
      BY <1>1, <2>6
    <3>3. mutex.sig # "ready" => ~mutex'.busy
      BY <1>0, <1>1 DEF MutexUse
    <3> QED
      BY <1>1, <2>5, <2>6, <2>7, <3>1, <3>2, <3>3, CondSide
  <2>9. TypeOK'
    <3>1. pc' \in [Thread -> Places]
      BY <2>5 DEF Moved
    <3>2. /\ sema' = sema /\ sem_pool' = sem_pool /\ mutex' = mutex /\ mlock' = mlock
          /\ holds' = holds /\ clock' = clock
      BY <1>1
    <3> QED
      BY <1>0, <2>4, <2>7, <3>1, <3>2, TypeFacts, TypesNext
  <2>10. CondUse'
    <3>1. \A u \in Thread : pc'[u] \in Busies <=> pc[u] \in Busies
      BY <2>5, <2>6 DEF Moved
    <3>2. ASSUME NEW u \in Thread
          PROVE  /\ pc'[u] \in Signallers \cup {"c_leave"} => loc'[u].sem = cond.sem
                 /\ pc'[u] = "c_add" => cond.waiters = 1
                 /\ pc'[u] = "c_remove" => cond.waiters = 0
      <4>1. CASE u = t
        BY <2>5, <2>6, <2>7, <4>1 DEF Moved
      <4>2. CASE u # t
        BY <1>0, <2>5, <2>7, <4>2 DEF Moved, CondUse
      <4> QED
        BY <4>1, <4>2
    <3>3. cond.sigspending + 1 # 0
      BY <2>3
    <3> QED
      BY <1>0, <1>1, <1>2, <2>4, <3>1, <3>2, <3>3 DEF CondUse
  <2>11. PoolInv'
    BY <1>0, <1>1, <2>4, PoolStays
  <2>12. QueueInv'
    <3>1. \A s \in Sem : t \notin QueueOf(sema, s)
      BY <1>0, <2>6, Awake
    <3> QED
      BY <1>0, <1>1, <2>4, <2>5, <3>1, QueueStays
  <2> QED
    BY <2>8, <2>9, <2>10, <2>11, <2>12 DEF SyncInv
<1>3. CASE ~(cond.sig = "ready" /\ cond.sem # NULL)
  <2>1. cond' = FoundCond /\ loc' = loc /\ pc' = pc
    BY <1>3 DEF SignalCalled
  <2>2. /\ cond' \in CondRec /\ cond'.sig = "ready"
        /\ cond'.waiters = cond.waiters /\ cond'.sem = cond.sem
        /\ cond'.sigspending = cond.sigspending /\ cond'.busy = cond.busy
    BY <1>1, <2>1, FoundCondFacts
  <2> QED
    BY <1>1, <2>1, <2>2, CondQuiet
<1> QED
  BY <1>2, <1>3

LEMMA DestroyCondStep ==
  ASSUME SyncInv, NEW t \in Thread, DestroyCond(t)
  PROVE  SyncInv'
<1>1. /\ pc[t] = "idle" /\ clock = NULL /\ ~cond.busy
      /\ cond' = [cond EXCEPT !.sig = "none"] /\ clock' = clock
      /\ sema' = sema /\ sem_pool' = sem_pool /\ mutex' = mutex /\ mlock' = mlock
      /\ holds' = holds /\ loc' = loc /\ pc' = pc
  BY DEF DestroyCond, CondCalled, CLOCK, semVars, mutexVars
<1>2. /\ cond' \in CondRec /\ cond'.sig = "none"
      /\ cond'.waiters = cond.waiters /\ cond'.sem = cond.sem
      /\ cond'.sigspending = cond.sigspending /\ cond'.busy = cond.busy
  <2>1. cond \in CondRec
    BY TypeFacts DEF SyncInv
  <2> QED
    BY <1>1, <2>1 DEF CondRec
<1> QED
  BY <1>1, <1>2, CondQuiet

LEMMA InitCondStep ==
  ASSUME SyncInv, InitCond
  PROVE  SyncInv'
<1>0. /\ TypeOK /\ LockInv /\ HoldInv /\ CountInv /\ MutexUse /\ CondUse
      /\ PoolInv /\ QueueInv /\ TokenInv /\ TurnInv
  BY DEF SyncInv
<1>1. /\ cond' = CondInitialized /\ clock' = clock /\ \A t \in Thread : pc[t] = "idle"
      /\ sema' = sema /\ sem_pool' = sem_pool /\ mutex' = mutex /\ mlock' = mlock
      /\ holds' = holds /\ loc' = loc /\ pc' = pc
  BY DEF InitCond, semVars, mutexVars
<1>2. /\ cond' \in CondRec /\ cond'.sig = "ready" /\ cond'.waiters = 0
      /\ cond'.sigspending = 0 /\ cond'.sem = NULL /\ cond'.busy = FALSE
  BY <1>1 DEF CondInitialized, CondRec
<1>3. \A t \in Thread : pc[t] \notin CondPlaces \cup {"c_add", "c_remove"}
  BY <1>1 DEF CondPlaces, Busies, CondUsers, Signallers
<1>4. /\ cond.waiters = 0 /\ cond.sigspending = 0 /\ cond.sem = NULL /\ ~cond.busy
      /\ ~mutex.busy
  BY <1>0, <1>3, CountFacts DEF CondUse, CondPlaces
<1>5. TypeOK'
  BY <1>0, <1>1, <1>2, TypeFacts, TypesNext
<1>6. LockInv' /\ HoldInv' /\ MutexUse'
  BY <1>0, <1>1 DEF LockInv, HoldInv, MutexUse
<1>7. CountInv'
  BY <1>0, <1>1, <1>2, <1>4 DEF CountInv, Counted, At
<1>8. CondUse'
  <2>1. \A t \in Thread : /\ pc'[t] \notin Busies /\ pc'[t] # "c_add"
                          /\ pc'[t] \notin Signallers \cup {"c_leave"}
    BY <1>1, <1>3 DEF CondPlaces, Busies
  <2>2. ~mutex'.busy /\ cond'.busy = mutex'.busy
    <3>1. mutex.busy \in BOOLEAN
      BY <1>0 DEF TypeOK
    <3> QED
      BY <1>1, <1>2, <1>4, <3>1
  <2> QED
    BY <1>2, <2>1, <2>2 DEF CondUse
<1>9. PoolInv'
  <2>1. cond'.sem = cond.sem
    BY <1>2, <1>4
  <2> QED
    BY <1>0, <1>1, <2>1, PoolStays
<1>10. QueueInv'
  BY <1>0, <1>1, <1>2, <1>4 DEF QueueInv, QueueOf
<1>11. TokenInv' /\ TurnInv'
  BY <1>0, <1>1 DEF TokenInv, TurnInv, Carries, HasTurn, QueueOf
<1> QED
  BY <1>5, <1>6, <1>7, <1>8, <1>9, <1>10, <1>11 DEF SyncInv

\* The last signaller puts the semaphore back when no waiter is left.
LEMMA SignalDoneStep ==
  ASSUME SyncInv, NEW t \in Thread, SignalDone(t)
  PROVE  SyncInv'
<1>0. /\ TypeOK /\ LockInv /\ HoldInv /\ CountInv /\ MutexUse /\ CondUse
      /\ PoolInv /\ QueueInv
  BY DEF SyncInv
<1>1. /\ pc[t] = "s_done" /\ clock = NULL /\ Return(t) /\ clock' = clock
      /\ sema' = sema /\ mutex' = mutex /\ mlock' = mlock /\ holds' = holds
  BY DEF SignalDone, CLOCK
<1>2. /\ Moved(t, "idle") /\ loc' \in [Thread -> LocRec]
      /\ \A u \in Thread : u # t => loc'[u] = loc[u]
  BY <1>0, <1>1, Returns
<1>3. /\ pc[t] \in CondOnly /\ "idle" \in CondOnly /\ "idle" \notin Owners
      /\ "idle" \notin {"c_add", "c_remove"} /\ pc[t] \notin {"c_add", "c_remove"}
      /\ "idle" \notin Busies /\ pc[t] \notin Busies
      /\ "idle" \notin Signallers \cup {"c_leave"} /\ pc[t] \in Signallers
      /\ In("idle", CondUsers) = 0 /\ In(pc[t], CondUsers) = 0
      /\ In("idle", Signallers) = 0 /\ In(pc[t], Signallers) = 1
      /\ pc[t] \notin Sleepers
  BY <1>1 DEF CondOnly, CondUsers, Busies, Signallers, Sleepers, In, Owners
<1>4. /\ cond.waiters \in Nat /\ cond.sigspending \in Nat /\ cond.sigspending # 0
      /\ cond \in CondRec /\ loc[t].sem = cond.sem /\ cond.sem \in Sem
  <2>1. /\ cond.waiters \in Nat /\ cond.sigspending \in Nat /\ cond.sigspending # 0
    BY <1>0, <1>3, CountFacts
  <2>2. cond \in CondRec /\ loc[t].sem = cond.sem /\ cond.sem # NULL
    BY <1>0, <1>3, <2>1, TypeFacts DEF CondUse
  <2> QED
    BY <2>1, <2>2 DEF CondRec
<1>5. PICK c, n : /\ cond' = [cond EXCEPT !.sigspending = n, !.sem = c]
                  /\ n = cond.sigspending - 1
                  /\ \/ /\ c = cond.sem /\ sem_pool' = sem_pool
                        /\ ~(cond.waiters = 0 /\ n = 0)
                     \/ /\ c = NULL /\ sem_pool' = Restored(cond.sem)
                        /\ cond.waiters = 0 /\ n = 0
  <2>1. CASE cond.waiters = 0 /\ cond.sigspending = 1
    <3>1. cond.sigspending - 1 = 0
      BY <2>1
    <3> QED
      BY <1>4, <2>1, <3>1 DEF SignalDone
  <2>2. CASE ~(cond.waiters = 0 /\ cond.sigspending = 1)
    <3>1. cond' = [cond EXCEPT !.sigspending = @ - 1] /\ sem_pool' = sem_pool
      BY <2>2 DEF SignalDone
    <3>2. PICK n : n = cond.sigspending - 1
      OBVIOUS
    <3>3. n = 0 <=> cond.sigspending = 1
      BY <1>4, <3>2
    <3>4. PICK r, q : /\ r = [cond EXCEPT !.sigspending = @ - 1]
                      /\ q = [cond EXCEPT !.sigspending = n, !.sem = cond.sem]
      OBVIOUS
    <3>5. r = q
      BY <1>4, <3>2, <3>4 DEF CondRec
    <3>6. cond' = [cond EXCEPT !.sigspending = n, !.sem = cond.sem]
      BY <3>1, <3>4, <3>5
    <3>7. ~(cond.waiters = 0 /\ n = 0)
      BY <2>2, <3>3
    <3> QED
      BY <3>1, <3>2, <3>6, <3>7
  <2> QED
    BY <2>1, <2>2
<1>6. /\ cond' \in CondRec /\ cond'.waiters = cond.waiters /\ cond'.sem = c
      /\ cond'.sigspending = n /\ cond'.busy = cond.busy
      /\ cond'.sig = cond.sig /\ n \in Nat
  <2>1. PICK r : r = [cond EXCEPT !.sigspending = n, !.sem = c]
    OBVIOUS
  <2>2. c \in Sem \cup {NULL} /\ n \in Nat
    BY <1>4, <1>5
  <2>3. /\ r \in CondRec /\ r.waiters = cond.waiters /\ r.sem = c
        /\ r.sigspending = n /\ r.busy = cond.busy /\ r.sig = cond.sig
    BY <1>4, <2>1, <2>2 DEF CondRec
  <2> QED
    BY <1>5, <2>1, <2>2, <2>3
<1>7. /\ LockInv' /\ HoldInv' /\ CountInv' /\ MutexUse' /\ TokenInv' /\ TurnInv'
  <2>1. /\ cond'.waiters = cond.waiters + In("idle", CondUsers) - In(pc[t], CondUsers)
        /\ cond'.sigspending =
             cond.sigspending + In("idle", Signallers) - In(pc[t], Signallers)
    BY <1>3, <1>4, <1>5, <1>6
  <2>2. clock' = (IF "idle" \in {"c_add", "c_remove"} THEN t
                  ELSE IF pc[t] \in {"c_add", "c_remove"} THEN NULL ELSE clock)
    BY <1>1, <1>3
  <2>3. mutex.sig # "ready" => ~mutex'.busy
    BY <1>0, <1>1 DEF MutexUse
  <2> QED
    BY <1>1, <1>2, <1>3, <2>1, <2>2, <2>3, CondSide
<1>8. PoolInv' /\ sem_pool' \in Seq(Sem)
  <2>1. \/ c = cond.sem /\ sem_pool' = sem_pool
        \/ c = NULL /\ sem_pool' = Restored(cond.sem)
    BY <1>5
  <2> QED
    BY <1>1, <1>4, <1>6, <2>1, SemReturned
<1>9. TypeOK'
  <2>1. pc' \in [Thread -> Places]
    BY <1>2 DEF Moved
  <2>2. /\ sema' = sema /\ mutex' = mutex /\ mlock' = mlock /\ holds' = holds
        /\ clock' = clock
    BY <1>1
  <2> QED
    BY <1>0, <1>2, <1>6, <1>8, <2>1, <2>2, TypeFacts, TypesNext
<1>10. /\ \A u \in Thread : pc[u] \notin {"c_add", "c_remove"}
       /\ cond.waiters = 0 <=> \A u \in Thread : pc[u] \notin Busies
  BY <1>1, NoClock
<1>11. CondUse'
  <2>1. \A u \in Thread : pc'[u] \in Busies <=> pc[u] \in Busies
    BY <1>2, <1>3 DEF Moved
  <2>2. c = NULL <=> n = 0 /\ \A u \in Thread : pc'[u] \notin Busies
    <3>1. c = NULL <=> n = 0 /\ cond.waiters = 0
      BY <1>4, <1>5, SemAssumption
    <3> QED
      BY <1>10, <2>1, <3>1
  <2>3. ASSUME NEW u \in Thread
        PROVE  /\ pc'[u] \in Signallers \cup {"c_leave"} => loc'[u].sem = c
               /\ pc'[u] \notin {"c_add", "c_remove"}
    <3>1. CASE u = t
      BY <1>2, <1>3, <3>1 DEF Moved
    <3>2. CASE u # t
      <4>1. pc'[u] = pc[u] /\ loc'[u] = loc[u]
        BY <1>2, <3>2 DEF Moved
      <4>2. pc[u] \in Signallers \cup {"c_leave"} => loc[u].sem = cond.sem
        BY <1>0 DEF CondUse
      <4>3. pc[u] \in Signallers \cup {"c_leave"} => c = cond.sem
        <5>1. CASE pc[u] \in Signallers
          <6>1. cond.sigspending # 1
            BY <1>0, <1>3, <3>2, <5>1, CountFacts
          <6>2. n # 0
            BY <1>4, <1>5, <6>1
          <6> QED
            BY <1>5, <6>2
        <5>2. CASE pc[u] = "c_leave"
          <6>1. cond.waiters # 0
            BY <1>10, <5>2 DEF Busies
          <6> QED
            BY <1>5, <6>1
        <5> QED
          BY <5>1, <5>2
      <4> QED
        BY <1>10, <4>1, <4>2, <4>3
    <3> QED
      BY <3>1, <3>2
  <2>4. cond.sig = "init" => n = 0
    BY <1>0, <1>4 DEF CondUse
  <2> QED
    BY <1>0, <1>1, <1>6, <2>1, <2>2, <2>3, <2>4 DEF CondUse
<1>12. QueueInv'
  <2>1. \A s \in Sem : t \notin QueueOf(sema, s)
    BY <1>0, <1>3, Awake
  <2>2. cond'.sem = cond.sem \/ \A u \in Thread : pc[u] # "c_leave"
    BY <1>5, <1>6, <1>10 DEF Busies
  <2> QED
    BY <1>0, <1>1, <1>2, <2>1, <2>2, QueueMoves
<1> QED
  BY <1>7, <1>8, <1>9, <1>11, <1>12 DEF SyncInv

---------------------------------------------------------------------------
(* The invariant *)

LEMMA InitPool ==
  ASSUME SyncInit
  PROVE  sem_pool \in Seq(Sem) /\ Distinct(sem_pool) /\ Pooled = Sem
<1>1. PICK n : n = Cardinality(Sem)
  OBVIOUS
<1>2. n \in Nat /\ \E p \in Bijection(1..n, Sem) : TRUE
  BY <1>1, CondAssumption, FS_CardinalityType DEF ExistsBijection
<1>3. \E p \in [1..n -> Sem] : {p[i] : i \in 1..n} = Sem
  <2>1. PICK p \in Bijection(1..n, Sem) : TRUE
    BY <1>2
  <2>2. p \in [1..n -> Sem] /\ \A s \in Sem : \E i \in 1..n : p[i] = s
    BY DEF Bijection, Surjection
  <2>3. {p[i] : i \in 1..n} = Sem
    BY <2>2
  <2> QED
    BY <2>2, <2>3
<1>4. sem_pool = CHOOSE p \in [1..n -> Sem] : {p[i] : i \in 1..n} = Sem
  BY <1>1 DEF SyncInit
<1>5. sem_pool \in [1..n -> Sem] /\ {sem_pool[i] : i \in 1..n} = Sem
  BY <1>3, <1>4
<1>6. sem_pool \in Surjection(1..n, Sem)
  BY <1>5 DEF Surjection
<1>7. IsFiniteSet(1..n) /\ Cardinality(1..n) = n
  BY <1>2, FS_Interval
<1>8. sem_pool \in Injection(1..n, Sem)
  BY <1>1, <1>6, <1>7, FS_SurjSameCardinalityImpliesInj
<1>9. sem_pool \in Seq(Sem) /\ Len(sem_pool) = n
  BY <1>2, <1>5
<1>10. Distinct(sem_pool)
  BY <1>5, <1>8, <1>9 DEF Distinct, Injection, IsInjective
<1>11. Pooled = Sem
  BY <1>5, <1>9 DEF Pooled, PoolOf
<1> QED
  BY <1>9, <1>10, <1>11

LEMMA SyncInitInv ==
  ASSUME SyncInit
  PROVE  SyncInv
<1>1. sem_pool \in Seq(Sem) /\ Distinct(sem_pool) /\ Pooled = Sem
  BY InitPool
<1>2. /\ sema = [s \in Sem |-> Created] /\ MutexInit /\ CondInit
      /\ mlock = NULL /\ clock = NULL
      /\ pc = [t \in Thread |-> "idle"]
      /\ loc = [t \in Thread |-> Locals(NULL, NULL)]
      /\ holds = [t \in Thread |-> 0]
  BY DEF SyncInit, MutexInit, CondInit
<1>3. /\ mutex \in MutexRec /\ mutex.sig \in {"ready", "init"} /\ mutex.owner = NULL
      /\ mutex.waiters = 0 /\ mutex.lock_count = 0 /\ mutex.sem = NULL
      /\ mutex.order = NULL /\ mutex.busy = FALSE
      /\ mutex.sig = "init" => mutex.type = "NORMAL"
  <2>1. PICK ty, g :
          /\ ty \in {"NORMAL", "ERRORCHECK", "RECURSIVE"} /\ g \in {"ready", "init"}
          /\ g = "init" => ty = "NORMAL"
          /\ mutex = [sig |-> g, type |-> ty, owner |-> NULL, waiters |-> 0,
                      lock_count |-> 0, sem |-> NULL, order |-> NULL, busy |-> FALSE]
    <3>1. CASE \E ty \in Types : mutex = Initialized(ty)
      BY <3>1, MutexAssumption DEF Initialized
    <3>2. CASE mutex = [Initialized("NORMAL") EXCEPT !.sig = "init"]
      BY <3>2 DEF Initialized
    <3> QED
      BY <1>2, <3>1, <3>2 DEF MutexInit
  <2>2. 0 \in 0..MaxCount
    BY MutexAssumption
  <2> QED
    BY <2>1, <2>2 DEF MutexRec
<1>4. /\ cond \in CondRec /\ cond.sig \in {"ready", "init"} /\ cond.waiters = 0
      /\ cond.sigspending = 0 /\ cond.sem = NULL /\ cond.busy = FALSE
  <2>1. PICK g : /\ g \in {"ready", "init"}
                 /\ cond = [sig |-> g, waiters |-> 0, sigspending |-> 0,
                            sem |-> NULL, busy |-> FALSE]
    BY <1>2 DEF CondInit, CondInitialized
  <2> QED
    BY <2>1 DEF CondRec
<1>5. /\ sema \in [Sem -> SemRec]
      /\ \A s \in Sem : sema[s].count = 0 /\ sema[s].queue = <<>>
  <2>1. Created \in SemRec /\ Created.count = 0 /\ Created.queue = <<>>
    BY DEF Created, SemRec
  <2> QED
    BY <1>2, <2>1
<1>6. Sane(sema) /\ \A s \in Sem : QueueOf(sema, s) = {}
  <2>1. Distinct(<<>>) /\ Members(<<>>) = {}
    BY DEF Distinct, Members
  <2> QED
    BY <1>5, <2>1 DEF Sane, QueueOf
<1>7. TypeOK
  <2>1. /\ Locals(NULL, NULL) \in LocRec /\ "idle" \in Places
    BY LocalsType DEF Places
  <2>2. /\ pc \in [Thread -> Places] /\ loc \in [Thread -> LocRec]
        /\ holds \in [Thread -> Nat]
    BY <1>2, <2>1
  <2> QED
    BY <1>1, <1>2, <1>3, <1>4, <1>5, <2>2
       DEF TypeOK, SemRec, MutexRec, CondRec, LocRec
<1>8. \A t \in Thread : /\ pc[t] = "idle" /\ holds[t] = 0
                        /\ ~Carries(t) /\ ~HasTurn(t)
                        /\ pc[t] \notin Lockers /\ pc[t] \notin Queuers
                        /\ pc[t] \notin CondPlaces /\ pc[t] \notin Owners
                        /\ pc[t] \notin Switchers
  BY <1>2 DEF Carries, HasTurn, Lockers, Queuers, CondPlaces, Busies, CondUsers,
     Signallers, Owners, Switchers
<1>9. LockInv
  BY <1>2, <1>8, SemAssumption DEF LockInv
<1>10. HoldInv
  BY <1>3, <1>8, SemAssumption DEF HoldInv
<1>11. CountInv
  <2>1. At(Queuers) = {} /\ At(CondUsers) = {} /\ At(Signallers) = {}
    BY <1>8 DEF At, CondPlaces
  <2> QED
    BY <1>3, <1>4, <2>1, FS_EmptySet DEF CountInv, Counted
<1>12. MutexUse
  <2>1. NULL # SWITCHING
    BY MutexAssumption
  <2> QED
    BY <1>3, <1>8, <2>1 DEF MutexUse, Switchers
<1>13. CondUse
  BY <1>3, <1>4, <1>8 DEF CondUse, CondPlaces, Busies, CondUsers
<1>14. PoolInv
  BY <1>1, <1>3, <1>4, SemAssumption DEF PoolInv
<1>15. QueueInv
  BY <1>5, <1>6 DEF QueueInv
<1>16. TokenInv /\ TurnInv
  BY <1>3, <1>8 DEF TokenInv, TurnInv, Switchers
<1> QED
  BY <1>7, <1>9, <1>10, <1>11, <1>12, <1>13, <1>14, <1>15, <1>16 DEF SyncInv

LEMMA SyncNextInv ==
  ASSUME SyncInv, SyncNext
  PROVE  SyncInv'
<1>1. ASSUME NEW t \in Thread, TryLock(t) \/ Wait(t) \/ Aborted(t), UNCHANGED condVars
      PROVE  SyncInv'
  <2>1. CASE LockFree(t)
    BY <1>1, <2>1, LockFreeStep
  <2>2. CASE LockAgain(t)
    BY <1>1, <2>2, LockAgainStep
  <2>3. CASE LockSwitching(t)
    BY <1>1, <2>3, LockSwitchingStep
  <2>4. CASE QueueFirst(t)
    BY <1>1, <2>4, QueueFirstStep
  <2>5. CASE QueueNext(t)
    BY <1>1, <2>5, QueueNextStep
  <2>6. CASE Ordered(t)
    BY <1>1, <2>6, OrderedStep
  <2>7. CASE Sleep(t)
    BY <1>1, <2>7, SleepStep
  <2>8. CASE WakeUp(t)
    BY <1>1, <2>8, WakeUpStep
  <2>9. CASE WakeUpLast(t)
    BY <1>1, <2>9, WakeUpLastStep
  <2>10. CASE Drained(t)
    BY <1>1, <2>10, DrainedStep
  <2>11. CASE Switched(t)
    BY <1>1, <2>11, SwitchedStep
  <2>12. CASE LockFails(t)
    BY <1>1, <2>12, LockFailsStep
  <2>13. CASE Aborted(t)
    BY <1>1, <2>13, AbortedStep
  <2> QED
    BY <1>1, <2>1, <2>2, <2>3, <2>4, <2>5, <2>6, <2>7, <2>8, <2>9, <2>10, <2>11,
       <2>12, <2>13 DEF TryLock, Wait
<1>2. ASSUME NEW t \in Thread, Unlock(t) \/ SignalWaiter(t), UNCHANGED condVars
      PROVE  SyncInv'
  <2>1. CASE UnlockOnce(t)
    BY <1>2, <2>1, UnlockOnceStep
  <2>2. CASE UnlockSwitching(t)
    BY <1>2, <2>2, UnlockSwitchingStep
  <2>3. CASE UnlockFree(t)
    BY <1>2, <2>3, UnlockFreeStep
  <2>4. CASE SignalWaiter(t)
    BY <1>2, <2>4, SignalWaiterStep
  <2> QED
    BY <1>2, <2>1, <2>2, <2>3, <2>4 DEF Unlock
<1>3. ASSUME NEW t \in Thread, Destroy(t) \/ Refused(t), UNCHANGED condVars
      PROVE  SyncInv'
  <2>1. CASE Destroy(t)
    BY <1>3, <2>1, DestroyStep
  <2>2. CASE Refused(t)
    <3>1. UNCHANGED syncVars
      BY <1>3, <2>2 DEF Refused, condVars, syncVars
    <3> QED
      BY <3>1, RefusedStep
  <2> QED
    BY <1>3, <2>1, <2>2
<1>4. ASSUME NEW t \in Thread,
             \/ CondWait(t) \/ CondAdd(t) \/ CondRelease(t) \/ CondSleep(t)
             \/ TimeOut(t) \/ CondLeave(t) \/ CondRemove(t)
             \/ SignalCalled(t) \/ SignalSleepers(t) \/ SignalDone(t)
             \/ DestroyCond(t)
      PROVE  SyncInv'
  <2>1. CASE CondWait(t)
    BY <2>1, CondWaitStep
  <2>2. CASE CondAdd(t)
    BY <2>2, CondAddStep
  <2>3. CASE CondRelease(t)
    <3>1. CASE GiveUp(t)
      BY <2>3, <3>1, GiveUpStep
    <3>2. CASE GiveUpOne(t)
      BY <2>3, <3>2, GiveUpOneStep
    <3> QED
      BY <2>3, <3>1, <3>2 DEF CondRelease
  <2>4. CASE CondSleep(t)
    BY <2>4, CondSleepStep
  <2>5. CASE TimeOut(t)
    BY <2>5, TimeOutStep
  <2>6. CASE CondLeave(t)
    BY <2>6, CondLeaveStep
  <2>7. CASE CondRemove(t)
    BY <2>7, CondRemoveStep
  <2>8. CASE SignalCalled(t)
    BY <2>8, SignalCalledStep
  <2>9. CASE SignalSleepers(t)
    BY <2>9, SignalSleepersStep
  <2>10. CASE SignalDone(t)
    BY <2>10, SignalDoneStep
  <2>11. CASE DestroyCond(t)
    BY <2>11, DestroyCondStep
  <2> QED
    BY <1>4, <2>1, <2>2, <2>3, <2>4, <2>5, <2>6, <2>7, <2>8, <2>9, <2>10, <2>11
<1>5. CASE InitMutex /\ UNCHANGED condVars
  BY <1>5, InitMutexStep
<1>6. CASE InitCond
  BY <1>6, InitCondStep
<1> QED
  BY <1>1, <1>2, <1>3, <1>4, <1>5, <1>6 DEF SyncNext

---------------------------------------------------------------------------
(* What the invariant says *)

LEMMA SyncInvAlways == SyncSpec => []SyncInv
<1>1. SyncInit => SyncInv
  BY SyncInitInv
<1>2. SyncInv /\ [SyncNext]_syncVars => SyncInv'
  <2> SUFFICES ASSUME SyncInv, [SyncNext]_syncVars PROVE SyncInv'
    OBVIOUS
  <2>1. CASE SyncNext
    BY <2>1, SyncNextInv
  <2>2. CASE UNCHANGED syncVars
    BY <2>2, RefusedStep
  <2> QED
    BY <2>1, <2>2
<1> QED
  BY <1>1, <1>2, PTL DEF SyncSpec

\* The mutex, the condition variable, the semaphores and the threads' local
\* variables keep their types: lock_count stays within 16 bits, and no counter
\* of waiters or pending signals becomes negative (core/pthread_mutex.c,
\* core/pthread_cond.c).
THEOREM SyncTypes == SyncSpec => []TypeOK
<1>1. SyncInv => TypeOK
  BY DEF SyncInv
<1> QED
  BY <1>1, SyncInvAlways, PTL

\* Two threads never have the mutex at once, whichever of the ways
\* pthread_mutex_lock gets it: a free mutex, one passed on by
\* pthread_mutex_unlock, or one passed on by pthread_cond_wait.
THEOREM MutexExcludes == SyncSpec => []Exclusion
<1>1. SyncInv => Exclusion
  BY DEF SyncInv, HoldInv, Exclusion
<1> QED
  BY <1>1, SyncInvAlways, PTL

\* The semaphores pthread_mutex_unlock and pthread_cond_wait read after they
\* have let the locks go are the ones their sleepers wait on.
THEOREM SignalsReachSleepers == SyncSpec => []SignalsTheSleepers
<1>1. SyncInv => SignalsTheSleepers
  <2> SUFFICES ASSUME SyncInv, NEW t \in Thread
               PROVE  /\ pc[t] \in {"u_signal", "c_wait"} =>
                           /\ mutex.sem \in Sem
                           /\ \A u \in Thread : pc[u] \in {"l_wait", "l_woken"} =>
                                loc[u].sem = mutex.sem
                      /\ pc[t] \in {"c_wait", "c_wait_only"} => cond.sem \in Sem
    BY DEF SignalsTheSleepers
  <2>0. TypeOK /\ HoldInv /\ CountInv /\ MutexUse /\ CondUse
    BY DEF SyncInv
  <2>1. pc[t] \in {"u_signal", "c_wait"} => mutex.sem \in Sem
    BY <2>0, HasSem DEF Carrying
  <2>2. \A u \in Thread : pc[u] \in {"l_wait", "l_woken"} => loc[u].sem = mutex.sem
    BY <2>0 DEF MutexUse, Queuers
  <2>3. pc[t] \in {"c_wait", "c_wait_only"} => cond.sem \in Sem
    BY <2>0 DEF CondUse, Busies, TypeOK
  <2> QED
    BY <2>1, <2>2, <2>3
<1> QED
  BY <1>1, SyncInvAlways, PTL

LEMMA PoolIsSound == SyncInv => PoolSound
<1> SUFFICES ASSUME SyncInv PROVE PoolSound
  OBVIOUS
<1>0. /\ TypeOK /\ PoolInv /\ QueueInv /\ Sane(sema) /\ sem_pool \in Seq(Sem)
      /\ Distinct(sem_pool)
  BY DEF SyncInv, TypeOK, QueueInv, PoolInv
<1>1. PICK pool : pool = {sem_pool[i] : i \in 1..Len(sem_pool)}
  OBVIOUS
<1>2. PICK n : n = Len(sem_pool)
  OBVIOUS
<1>3. n \in Nat /\ \A i \in 1..n : sem_pool[i] \in Sem
  BY <1>0, <1>2
<1>4. pool = Pooled
  BY <1>1, <1>2, <1>3 DEF Pooled, PoolOf
<1>5. Cardinality(pool) = n
  <2>1. PICK f : f = [i \in 1..n |-> sem_pool[i]]
    OBVIOUS
  <2>2. f \in Surjection(1..n, pool)
    BY <1>1, <1>2, <2>1 DEF Surjection
  <2>3. f \in Injection(1..n, pool)
    BY <1>0, <1>1, <1>2, <2>1 DEF Injection, IsInjective, Distinct
  <2>4. IsFiniteSet(1..n) /\ Cardinality(1..n) = n
    BY <1>3, FS_Interval
  <2> QED
    BY <2>2, <2>3, <2>4, FS_Surjection
<1>6. PICK users : users = <<mutex.sem, mutex.order, cond.sem>>
  OBVIOUS
<1>7. /\ users[1] = mutex.sem /\ users[2] = mutex.order /\ users[3] = cond.sem
      /\ \A i \in 1..3 : i = 1 \/ i = 2 \/ i = 3
      /\ 1 \in 1..3 /\ 2 \in 1..3 /\ 3 \in 1..3
  BY <1>6
<1>8. PICK used : used = {users[i] : i \in 1..3} \ {NULL}
  OBVIOUS
<1>9. used = {mutex.sem, mutex.order, cond.sem} \ {NULL}
  BY <1>7, <1>8
<1>10. /\ mutex.sem \in Sem \cup {NULL} /\ mutex.order \in Sem \cup {NULL}
       /\ cond.sem \in Sem \cup {NULL}
  BY <1>0 DEF TypeOK
<1>11. pool \cap used = {} /\ pool \cup used = Sem
  BY <1>0, <1>4, <1>9, <1>10, SemAssumption DEF PoolInv, Pooled, PoolOf
<1>12. \A i, j \in 1..3 : users[i] = users[j] => i = j \/ users[i] = NULL
  <2>1. /\ mutex.sem = mutex.order => mutex.sem = NULL
        /\ mutex.sem = cond.sem => mutex.sem = NULL
        /\ mutex.order = cond.sem => mutex.order = NULL
    BY <1>0 DEF PoolInv
  <2> QED
    BY <1>7, <2>1
<1>13. PoolClean
  <2> SUFFICES ASSUME NEW i \in 1..Len(sem_pool) PROVE sema[sem_pool[i]] = Created
    BY DEF PoolClean
  <2>1. PICK s : s = sem_pool[i]
    OBVIOUS
  <2>2. s \in Sem /\ s \in Pooled
    BY <1>2, <1>3, <2>1 DEF Pooled, PoolOf
  <2>3. s \notin {mutex.sem, mutex.order, cond.sem}
    BY <1>0, <2>2 DEF PoolInv
  <2>4. sema[s].count = 0 /\ QueueOf(sema, s) = {}
    BY <1>0, <2>2, <2>3 DEF QueueInv
  <2>5. sema[s].queue = <<>> /\ sema[s] = [count |-> sema[s].count, queue |-> sema[s].queue]
    BY <1>0, <2>2, <2>4, SaneSem
  <2> QED
    BY <2>1, <2>4, <2>5 DEF Created
<1>14. DrainNeverBlocks
  BY <1>0, Queued DEF DrainNeverBlocks, Blocked, QueueInv
<1> QED
  BY <1>1, <1>2, <1>5, <1>6, <1>8, <1>11, <1>12, <1>13, <1>14 DEF PoolSound

\* Every semaphore is in the pool or has one user; what comes back to the pool
\* (restore_sem_to_pool) has no signal left in it and nobody sleeping on it, and
\* the wait that takes the last signal back never sleeps.
THEOREM PoolAlwaysSound == SyncSpec => []PoolSound
BY PoolIsSound, SyncInvAlways, PTL

\* pthread_mutex_destroy, which looks at owner and busy only, never takes the
\* mutex away from threads that queue up for it or sleep on the condition
\* variable with it.
THEOREM NeverDestroyedAsleep == SyncSpec => []NotDestroyedAsleep
<1>1. SyncInv => NotDestroyedAsleep
  <2> SUFFICES ASSUME SyncInv, mutex.sig = "none", NEW t \in Thread
               PROVE  pc[t] \in {"idle", "c_relock", "s_one", "s_thread", "s_all", "s_done"}
    BY DEF NotDestroyedAsleep
  <2>0. TypeOK /\ LockInv /\ HoldInv /\ CountInv /\ MutexUse /\ CondUse
    BY DEF SyncInv
  <2>1. mutex.owner = NULL /\ ~mutex.busy
    BY <2>0 DEF MutexUse
  <2>2. mutex.waiters = 0
    BY <2>0, <2>1 DEF MutexUse, TypeOK
  <2>3. pc[t] \notin Queuers
    BY <2>0, <2>2, CountFacts
  <2>4. pc[t] \notin Owners /\ pc[t] \notin Switchers
    BY <2>0, <2>1, NotHeld
  <2>5. pc[t] \notin Busies
    BY <2>0, <2>1 DEF CondUse
  <2>6. pc[t] \in Places
    BY <2>0 DEF TypeOK
  <2> QED
    BY <2>3, <2>4, <2>5, <2>6 DEF Places, Queuers, Owners, Switchers, Busies
<1> QED
  BY <1>1, SyncInvAlways, PTL
---------------------------------------------------------------------------
(***************************************************************************)
(* The monitor that the mutex and the condition variable implement         *)

Held == [t \in Thread |-> IF pc[t] \in {"c_wait", "c_wait_only"}
                              THEN holds[t] + 1 ELSE holds[t]]
Waiters == {t \in Thread : pc[t] = "c_leave" /\ Blocked(t)}
Sending == [t \in Thread |-> CASE pc[t] = "s_one" -> "one"
                                 [] pc[t] = "s_thread" -> "thread"
                                 [] pc[t] = "s_all" -> "all"
                                 [] OTHER -> "none"]

Sleepy == {"c_wait", "c_wait_only"}
Sends == {"s_one", "s_thread", "s_all"}
Holding(p, n) == IF p \in Sleepy THEN n + 1 ELSE n
Kind(p) == IF p = "s_one" THEN "one" ELSE IF p = "s_thread" THEN "thread"
           ELSE IF p = "s_all" THEN "all" ELSE "none"

\* The monitor's step that a step of the two is.
MonitorStep == Monitor!Next \/ UNCHANGED Monitor!monitor

LEMMA AcquireMaps ==
  ASSUME NEW t \in Thread, t \notin Waiters, \A u \in Thread \ {t} : Held[u] = 0,
         Held' = [Held EXCEPT ![t] = @ + 1], Waiters' = Waiters, Sending' = Sending
  PROVE  MonitorStep
<1>1. Monitor!Acquire(t)
  BY DEF Monitor!Acquire, Held, Waiters, Sending
<1> QED
  BY <1>1 DEF MonitorStep, Monitor!Next

LEMMA ReleaseMaps ==
  ASSUME NEW t \in Thread, Held[t] > 0,
         Held' = [Held EXCEPT ![t] = @ - 1], Waiters' = Waiters, Sending' = Sending
  PROVE  MonitorStep
<1>1. Monitor!Release(t)
  BY DEF Monitor!Release, Held, Waiters, Sending
<1> QED
  BY <1>1 DEF MonitorStep, Monitor!Next

LEMMA WaitMaps ==
  ASSUME NEW t \in Thread, Held[t] > 0, Held' = [Held EXCEPT ![t] = @ - 1],
         Waiters' = Waiters \cup {t}, Sending' = Sending
  PROVE  MonitorStep
<1>1. Monitor!Wait(t)
  BY DEF Monitor!Wait, Held, Waiters, Sending
<1> QED
  BY <1>1 DEF MonitorStep, Monitor!Next

LEMMA GiveUpMaps ==
  ASSUME NEW t \in Waiters, Held' = Held, Waiters' = Waiters \ {t}, Sending' = Sending
  PROVE  MonitorStep
<1>0. t \in Thread
  BY DEF Waiters
<1>1. Monitor!GiveUp(t)
  BY DEF Monitor!GiveUp, Held, Waiters, Sending
<1> QED
  BY <1>0, <1>1 DEF MonitorStep, Monitor!Next

LEMMA CallMaps ==
  ASSUME NEW t \in Thread, Sending[t] = "none", t \notin Waiters,
         NEW k \in {"one", "all", "thread"}, Held' = Held, Waiters' = Waiters,
         Sending' = [Sending EXCEPT ![t] = k]
  PROVE  MonitorStep
<1>1. Monitor!Call(t)
  BY DEF Monitor!Call, Held, Waiters, Sending
<1> QED
  BY <1>1 DEF MonitorStep, Monitor!Next

LEMMA SignalOneMaps ==
  ASSUME NEW t \in Thread, Sending[t] = "one", Held' = Held,
         \/ Waiters = {} /\ Waiters' = Waiters
         \/ Waiters # {} /\ \E u \in Waiters : Waiters' = Waiters \ {u},
         Sending' = [Sending EXCEPT ![t] = "none"]
  PROVE  MonitorStep
<1>1. Monitor!SignalOne(t)
  BY DEF Monitor!SignalOne, Monitor!Sent, Held, Waiters, Sending
<1> QED
  BY <1>1 DEF MonitorStep, Monitor!Next

LEMMA SignalAllMaps ==
  ASSUME NEW t \in Thread, Sending[t] = "all", Held' = Held, Waiters' = {},
         Sending' = [Sending EXCEPT ![t] = "none"]
  PROVE  MonitorStep
<1>1. Monitor!SignalAll(t)
  BY DEF Monitor!SignalAll, Monitor!Sent, Held, Waiters, Sending
<1> QED
  BY <1>1 DEF MonitorStep, Monitor!Next

LEMMA SignalThreadMaps ==
  ASSUME NEW t \in Thread, Sending[t] = "thread", Held' = Held,
         \E u \in Thread : Waiters' = Waiters \ {u},
         Sending' = [Sending EXCEPT ![t] = "none"]
  PROVE  MonitorStep
<1>1. Monitor!SignalThread(t)
  BY DEF Monitor!SignalThread, Monitor!Sent, Held, Waiters, Sending
<1> QED
  BY <1>1 DEF MonitorStep, Monitor!Next

LEMMA StutterMaps ==
  ASSUME Held' = Held, Waiters' = Waiters, Sending' = Sending
  PROVE  MonitorStep
<1>1. UNCHANGED Monitor!monitor
  BY DEF Monitor!monitor, Held, Waiters, Sending
<1> QED
  BY <1>1 DEF MonitorStep

LEMMA HeldMoves ==
  ASSUME TypeOK, TypeOK', NEW t \in Thread, NEW l, Moved(t, l),
         \A u \in Thread : u # t => holds'[u] = holds[u]
  PROVE  /\ Held' = [Held EXCEPT ![t] = Holding(l, holds'[t])]
         /\ Held[t] = Holding(pc[t], holds[t]) /\ Held[t] \in Nat
<1>1. ASSUME NEW u \in Thread
      PROVE  Held'[u] = [Held EXCEPT ![t] = Holding(l, holds'[t])][u]
  BY DEF Held, Holding, Sleepy, Moved
<1>2. Held' = [u \in Thread |-> Held'[u]]
  BY DEF Held
<1>3. holds[t] \in Nat
  BY TypeFacts
<1>4. Held[t] = Holding(pc[t], holds[t])
  BY DEF Held, Holding, Sleepy
<1>5. Held[t] \in Nat
  BY <1>3, <1>4 DEF Holding
<1>6. Held = [u \in Thread |-> Held[u]]
  BY DEF Held
<1> HIDE DEF Held
<1> QED
  BY <1>1, <1>2, <1>4, <1>5, <1>6

LEMMA SendingKind ==
  ASSUME NEW t \in Thread
  PROVE  Sending[t] = Kind(pc[t])
BY DEF Sending, Kind

LEMMA SendingMoves ==
  ASSUME TypeOK, NEW t \in Thread, NEW l, Moved(t, l)
  PROVE  Sending' = [Sending EXCEPT ![t] = Kind(l)] /\ Sending[t] = Kind(pc[t])
<1>1. PICK S : S = Sending'
  OBVIOUS
<1>2. S = [u \in Thread |-> Kind(pc'[u])]
  BY <1>1 DEF Sending, Kind
<1>3. Sending = [u \in Thread |-> Kind(pc[u])]
  BY DEF Sending, Kind
<1> HIDE DEF Kind
<1> QED
  BY <1>1, <1>2, <1>3 DEF Moved

\* The sleepers of the condition variable are in the queue of its semaphore.
Asleep == {t \in Thread : cond.sem \in Sem /\ t \in QueueOf(sema, cond.sem)}

LEMMA WaitersSleep == SyncInv => Waiters = Asleep
<1> SUFFICES ASSUME SyncInv, NEW t \in Thread PROVE t \in Waiters <=> t \in Asleep
  BY DEF Waiters, Asleep
<1>0. TypeOK /\ PoolInv /\ QueueInv
  BY DEF SyncInv
<1>1. ASSUME t \in Waiters PROVE t \in Asleep
  <2>1. pc[t] = "c_leave" /\ Blocked(t)
    BY <1>1 DEF Waiters
  <2>2. PICK s \in Sem : t \in QueueOf(sema, s)
    BY <2>1, Queued DEF Blocked
  <2>3. s = cond.sem
    BY <1>0, <2>1, <2>2 DEF QueueInv
  <2> QED
    BY <2>2, <2>3 DEF Asleep
<1>2. ASSUME t \in Asleep PROVE t \in Waiters
  <2>1. cond.sem \in Sem /\ t \in QueueOf(sema, cond.sem)
    BY <1>2 DEF Asleep
  <2>2. cond.sem # mutex.sem /\ cond.sem # mutex.order
    BY <1>0, <2>1, SemAssumption DEF PoolInv
  <2>3. pc[t] = "c_leave"
    BY <1>0, <2>1, <2>2 DEF QueueInv
  <2>4. Blocked(t)
    BY <2>1, Queued DEF Blocked
  <2> QED
    BY <2>3, <2>4 DEF Waiters
<1> QED
  BY <1>1, <1>2

LEMMA WaitersSleepNext == SyncInv' => Waiters' = Asleep'
<1>1. SyncInv' => (Waiters = Asleep)'
  BY WaitersSleep, PTL
<1> QED
  BY <1>1

\* A step of a thread that neither joins nor leaves the sleepers.
LEMMA WaitersStay ==
  ASSUME sema' = sema, NEW t \in Thread, NEW l, Moved(t, l),
         pc[t] = "c_leave" => ~Blocked(t), l # "c_leave"
  PROVE  Waiters' = Waiters /\ t \notin Waiters
<1>1. ASSUME NEW u \in Thread PROVE Blocked(u)' <=> Blocked(u)
  BY DEF Blocked, InQueue
<1>2. ASSUME NEW u \in Thread PROVE u \in Waiters' <=> u \in Waiters
  BY <1>1 DEF Waiters, Moved
<1> QED
  BY <1>2 DEF Waiters

\* A step that is about the mutex's semaphores.
LEMMA WaitersApart ==
  ASSUME SyncInv, SyncInv', cond' = cond,
         \A x \in Sem : x # mutex.sem /\ x # mutex.order => sema'[x] = sema[x]
  PROVE  Waiters' = Waiters
<1>1. Waiters = Asleep /\ Waiters' = Asleep'
  BY WaitersSleep, WaitersSleepNext
<1>2. PoolInv
  BY DEF SyncInv
<1>3. CASE cond.sem \in Sem
  <2>1. cond.sem # mutex.sem /\ cond.sem # mutex.order
    BY <1>2, <1>3, SemAssumption DEF PoolInv
  <2>2. QueueOf(sema', cond.sem) = QueueOf(sema, cond.sem)
    BY <1>3, <2>1 DEF QueueOf
  <2>3. Asleep' = {t \in Thread : cond.sem \in Sem /\ t \in QueueOf(sema', cond.sem)}
    BY DEF Asleep, QueueOf
  <2> QED
    BY <1>1, <2>2, <2>3 DEF Asleep
<1>4. CASE cond.sem \notin Sem
  BY <1>1, <1>4 DEF Asleep
<1> QED
  BY <1>3, <1>4

LEMMA Untouched ==
  ASSUME NEW S, DOMAIN S = Sem, NEW s, NEW t, NEW x \in Sem, x # s
  PROVE  Signalled(S, s)[x] = S[x] /\ Waited(S, s, t)[x] = S[x]
         /\ Left(S, s, t)[x] = S[x]
BY DEF Signalled, Waited, Left

LEMMA SemKept ==
  ASSUME NEW S, DOMAIN S = Sem, NEW s, NEW t
  PROVE  DOMAIN Signalled(S, s) = Sem /\ DOMAIN Left(S, s, t) = Sem
BY DEF Signalled, Left

\* A step that keeps to what the monitor does not see.
LEMMA QuietMaps ==
  ASSUME TypeOK, TypeOK', NEW t \in Thread, NEW l, Moved(t, l), Waiters' = Waiters,
         holds' = holds,
         l = pc[t] \/ (pc[t] \notin Sleepy \cup Sends /\ l \notin Sleepy \cup Sends)
  PROVE  MonitorStep
<1>1. holds'[t] = holds[t]
  OBVIOUS
<1>2. /\ Held' = [Held EXCEPT ![t] = Holding(l, holds'[t])]
      /\ Held[t] = Holding(pc[t], holds[t])
      /\ Sending' = [Sending EXCEPT ![t] = Kind(l)] /\ Sending[t] = Kind(pc[t])
  BY HeldMoves, SendingMoves
<1>3. Holding(l, holds'[t]) = Held[t] /\ Kind(l) = Sending[t]
  BY <1>1, <1>2 DEF Holding, Kind, Sleepy, Sends
<1>4. PICK h, s, h1, s1 : h = Held /\ s = Sending /\ h1 = Held' /\ s1 = Sending'
  OBVIOUS
<1>5. h = [u \in Thread |-> h[u]] /\ s = [u \in Thread |-> s[u]]
  BY <1>4 DEF Held, Sending
<1>6. h1 = [h EXCEPT ![t] = h[t]] /\ s1 = [s EXCEPT ![t] = s[t]]
  BY <1>2, <1>3, <1>4
<1>7. h1 = h /\ s1 = s
  BY <1>5, <1>6
<1> QED
  BY <1>4, <1>7, StutterMaps

---------------------------------------------------------------------------
(* pthread_mutex_lock returns with the mutex *)

LEMMA AcquireMoves ==
  ASSUME TypeOK, TypeOK', NEW t \in Thread, Return(t), sema' = sema,
         holds' = [holds EXCEPT ![t] = @ + 1],
         pc[t] \in {"idle", "c_relock", "l_woken", "l_drain", "l_switch"},
         \A u \in Thread : u # t => holds[u] = 0 /\ pc[u] \notin Sleepy
  PROVE  MonitorStep
<1>1. Moved(t, "idle")
  BY Returns
<1>2. /\ holds \in [Thread -> Nat] /\ holds[t] \in Nat /\ holds'[t] = holds[t] + 1
      /\ \A u \in Thread : u # t => holds'[u] = holds[u]
  BY TypeFacts
<1>3. /\ Held' = [Held EXCEPT ![t] = Holding("idle", holds'[t])]
      /\ Held[t] = Holding(pc[t], holds[t])
      /\ Sending' = [Sending EXCEPT ![t] = Kind("idle")] /\ Sending[t] = Kind(pc[t])
  BY <1>1, <1>2, HeldMoves, SendingMoves
<1>4. Waiters' = Waiters /\ t \notin Waiters
  BY <1>1, WaitersStay
<1>5. /\ Holding("idle", holds'[t]) = Held[t] + 1 /\ Kind("idle") = Sending[t]
  BY <1>2, <1>3 DEF Holding, Kind, Sleepy
<1>6. \A u \in Thread \ {t} : Held[u] = 0
  BY DEF Held, Sleepy
<1>7. PICK h, s : h = Held /\ s = Sending
  OBVIOUS
<1>8. s = [u \in Thread |-> s[u]]
  BY <1>7 DEF Sending
<1>9. Held' = [h EXCEPT ![t] = h[t] + 1] /\ Sending' = s
  BY <1>3, <1>5, <1>7, <1>8
<1> QED
  BY <1>4, <1>6, <1>7, <1>9, AcquireMaps

\* Nobody else has a free mutex, one's own, or one on its way to oneself.
LEMMA Alone ==
  ASSUME SyncInv, NEW t \in Thread,
         mutex.owner = NULL \/ mutex.owner = t \/ Carries(t)
  PROVE  \A u \in Thread : u # t => holds[u] = 0 /\ pc[u] \notin Sleepy
<1>0. TypeOK /\ HoldInv /\ TokenInv
  BY DEF SyncInv
<1> SUFFICES ASSUME NEW u \in Thread, u # t PROVE holds[u] = 0 /\ pc[u] \notin Sleepy
  OBVIOUS
<1>1. CASE mutex.owner = NULL
  BY <1>0, <1>1, NotHeld DEF Sleepy, Owners, Switchers
<1>2. CASE mutex.owner = t
  <2>1. holds[t] > 0 /\ t # SWITCHING /\ holds[u] \in Nat
    BY <1>0, <1>2, TypeFacts, MutexAssumption DEF HoldInv
  <2>2. ~(holds[u] > 0)
    BY <1>0, <2>1 DEF HoldInv
  <2>3. pc[u] # "c_wait" /\ pc[u] # "c_wait_only"
    BY <1>0, <1>2, <2>1, <2>2 DEF HoldInv, Owners, Switchers
  <2> QED
    BY <2>1, <2>2, <2>3 DEF Sleepy
<1>3. CASE Carries(t)
  <2>1. mutex.owner = SWITCHING
    BY <1>0, <1>3 DEF TokenInv
  <2>2. holds[u] = 0 /\ pc[u] # "c_wait_only"
    BY <1>0, <2>1, NotHeld DEF Owners
  <2>3. ~Carries(u)
    BY <1>0, <1>3 DEF TokenInv
  <2> QED
    BY <2>2, <2>3 DEF Carries, Sleepy
<1> QED
  BY <1>1, <1>2, <1>3

LEMMA LockFreeMaps ==
  ASSUME SyncInv, SyncInv', NEW t \in Thread, LockFree(t)
  PROVE  MonitorStep
<1>1. mutex.owner = NULL /\ pc[t] \in {"idle", "c_relock"}
  BY FoundFacts DEF LockFree, LockCalled
<1>2. Return(t) /\ sema' = sema /\ holds' = [holds EXCEPT ![t] = @ + 1]
  BY DEF LockFree, Take, semVars
<1> QED
  BY <1>1, <1>2, Alone, AcquireMoves DEF SyncInv

LEMMA LockAgainMaps ==
  ASSUME SyncInv, SyncInv', NEW t \in Thread, LockAgain(t)
  PROVE  MonitorStep
<1>1. mutex.owner = t /\ pc[t] \in {"idle", "c_relock"}
  BY FoundFacts DEF LockAgain, LockCalled
<1>2. Return(t) /\ sema' = sema /\ holds' = [holds EXCEPT ![t] = @ + 1]
  BY DEF LockAgain, semVars
<1> QED
  BY <1>1, <1>2, Alone, AcquireMoves DEF SyncInv

LEMMA WokenMaps ==
  ASSUME SyncInv, SyncInv', NEW t \in Thread, WakeUp(t) \/ Drained(t) \/ Switched(t)
  PROVE  MonitorStep
<1>1. pc[t] \in {"l_woken", "l_drain", "l_switch"} /\ ~Blocked(t) /\ sema' = sema
  BY DEF WakeUp, Drained, Switched, semVars
<1>2. Return(t) /\ holds' = [holds EXCEPT ![t] = @ + 1]
  BY DEF WakeUp, Drained, Switched, Take
<1>3. Carries(t)
  BY <1>1, WokenCarries
<1> QED
  BY <1>1, <1>2, <1>3, Alone, AcquireMoves DEF SyncInv

---------------------------------------------------------------------------
(* pthread_mutex_unlock and the wait on the condition variable *)

LEMMA UnlockMaps ==
  ASSUME SyncInv, SyncInv', NEW t \in Thread, Unlock(t)
  PROVE  MonitorStep
<1>0. TypeOK /\ TypeOK' /\ UnlockCalled(t)
  BY DEF SyncInv, Unlock, UnlockOnce, UnlockSwitching, UnlockFree, LastUnlock
<1>1. pc[t] = "idle" /\ holds[t] > 0 /\ holds[t] \in Nat /\ holds \in [Thread -> Nat]
  BY <1>0, UnlockFacts, TypeFacts
<1>2. holds' = [holds EXCEPT ![t] = @ - 1] /\ sema' = sema
  BY DEF Unlock, UnlockOnce, UnlockSwitching, UnlockFree, Release, semVars
<1>3. PICK l \in {"idle", "u_signal"} : Moved(t, l)
  <2>1. CASE UnlockSwitching(t)
    <3>1. Goto(t, "u_signal") /\ "u_signal" \in Places
      BY <2>1 DEF UnlockSwitching, Places
    <3> QED
      BY <1>0, <3>1, Goes
  <2>2. CASE UnlockOnce(t) \/ UnlockFree(t)
    <3>1. pc' = pc
      BY <2>2 DEF UnlockOnce, UnlockFree
    <3> QED
      BY <1>0, <1>1, <3>1, Stays
  <2> QED
    BY <2>1, <2>2 DEF Unlock
<1>4. holds'[t] = holds[t] - 1 /\ \A u \in Thread : u # t => holds'[u] = holds[u]
  BY <1>1, <1>2
<1>5. /\ Held' = [Held EXCEPT ![t] = Holding(l, holds'[t])]
      /\ Held[t] = Holding(pc[t], holds[t])
      /\ Sending' = [Sending EXCEPT ![t] = Kind(l)] /\ Sending[t] = Kind(pc[t])
  BY <1>0, <1>3, <1>4, HeldMoves, SendingMoves
<1>6. Waiters' = Waiters
  BY <1>1, <1>2, <1>3, WaitersStay
<1>7. Holding(l, holds'[t]) = Held[t] - 1 /\ Kind(l) = Sending[t] /\ Held[t] > 0
  BY <1>1, <1>4, <1>5 DEF Holding, Kind, Sleepy
<1>8. PICK h, s : h = Held /\ s = Sending
  OBVIOUS
<1>9. s = [u \in Thread |-> s[u]]
  BY <1>8 DEF Sending
<1>10. Held' = [h EXCEPT ![t] = h[t] - 1] /\ Sending' = s
  BY <1>5, <1>7, <1>8, <1>9
<1> QED
  BY <1>6, <1>7, <1>8, <1>10, ReleaseMaps

\* The mutex is given up, but not yet seen to be.
LEMMA CondReleaseMaps ==
  ASSUME SyncInv, SyncInv', NEW t \in Thread, CondRelease(t)
  PROVE  MonitorStep
<1>0. TypeOK /\ TypeOK' /\ HoldInv /\ pc[t] = "c_release"
  BY DEF SyncInv, CondRelease
<1>1. holds[t] > 0 /\ holds[t] \in Nat /\ holds \in [Thread -> Nat]
  BY <1>0, TypeFacts DEF HoldInv, Owners
<1>2. holds' = [holds EXCEPT ![t] = @ - 1] /\ sema' = sema
  BY DEF CondRelease, Release
<1>3. PICK l \in Sleepy : Moved(t, l)
  <2>1. PICK l \in Sleepy : Goto(t, l)
    BY DEF CondRelease, GiveUp, GiveUpOne, Sleepy
  <2> QED
    BY <1>0, <2>1, Goes DEF Sleepy, Places
<1>4. holds'[t] = holds[t] - 1 /\ \A u \in Thread : u # t => holds'[u] = holds[u]
  BY <1>1, <1>2
<1>5. /\ Held' = [Held EXCEPT ![t] = Holding(l, holds'[t])]
      /\ Held[t] = Holding(pc[t], holds[t])
      /\ Sending' = [Sending EXCEPT ![t] = Kind(l)] /\ Sending[t] = Kind(pc[t])
  BY <1>0, <1>3, <1>4, HeldMoves, SendingMoves
<1>6. Waiters' = Waiters
  BY <1>0, <1>2, <1>3, WaitersStay DEF Sleepy
<1>7. Holding(l, holds'[t]) = Held[t] /\ Kind(l) = Sending[t]
  BY <1>0, <1>1, <1>3, <1>4, <1>5 DEF Holding, Kind, Sleepy
<1>8. PICK h, s : h = Held /\ s = Sending
  OBVIOUS
<1>9. h = [u \in Thread |-> h[u]] /\ s = [u \in Thread |-> s[u]]
  BY <1>8 DEF Held, Sending
<1>10. Held' = h /\ Sending' = s
  BY <1>5, <1>7, <1>8, <1>9
<1> QED
  BY <1>6, <1>8, <1>10, StutterMaps

LEMMA CondSleepMaps ==
  ASSUME SyncInv, SyncInv', NEW t \in Thread, CondSleep(t)
  PROVE  MonitorStep
<1>0. TypeOK /\ TypeOK' /\ pc[t] \in Sleepy
  BY DEF SyncInv, CondSleep, Sleepy
<1>1. holds[t] \in Nat /\ holds' = holds /\ cond' = cond /\ Moved(t, "c_leave")
  <2>1. Goto(t, "c_leave") /\ "c_leave" \in Places
    BY DEF CondSleep, Places
  <2> QED
    BY <1>0, <2>1, Goes, TypeFacts DEF CondSleep, condVars
<1>2. /\ Held' = [Held EXCEPT ![t] = Holding("c_leave", holds'[t])]
      /\ Held[t] = Holding(pc[t], holds[t])
      /\ Sending' = [Sending EXCEPT ![t] = Kind("c_leave")] /\ Sending[t] = Kind(pc[t])
  BY <1>0, <1>1, HeldMoves, SendingMoves
<1>3. /\ Holding("c_leave", holds'[t]) = Held[t] - 1
      /\ Kind("c_leave") = Sending[t] /\ Held[t] > 0
  BY <1>0, <1>1, <1>2 DEF Holding, Kind, Sleepy
<1>4. PICK h, s : h = Held /\ s = Sending
  OBVIOUS
<1>5. s = [u \in Thread |-> s[u]]
  BY <1>4 DEF Sending
<1>6. Held' = [h EXCEPT ![t] = h[t] - 1] /\ Sending' = s
  BY <1>2, <1>3, <1>4, <1>5
<1>7. /\ cond.sem \in Sem
      /\ QueueOf(sema', cond.sem) = QueueOf(sema, cond.sem) \cup {t}
  BY CondSleepStep
<1>8. Asleep' = {u \in Thread : cond.sem \in Sem /\ u \in QueueOf(sema', cond.sem)}
  BY <1>1 DEF Asleep, QueueOf
<1>9. Waiters = Asleep /\ Waiters' = Asleep'
  BY WaitersSleep, WaitersSleepNext
<1>10. Waiters' = Waiters \cup {t}
  BY <1>7, <1>8, <1>9 DEF Asleep
<1> QED
  BY <1>3, <1>4, <1>6, <1>10, WaitMaps

LEMMA TimeOutMaps ==
  ASSUME SyncInv, SyncInv', NEW t \in Thread, TimeOut(t)
  PROVE  MonitorStep
<1>1. pc' = pc /\ holds' = holds /\ cond' = cond
  BY DEF TimeOut, mutexVars, condVars
<1>2. Held' = Held /\ Sending' = Sending
  BY <1>1 DEF Held, Sending
<1>3. /\ cond.sem \in Sem /\ t \in QueueOf(sema, cond.sem)
      /\ QueueOf(sema', cond.sem) = QueueOf(sema, cond.sem) \ {t}
  BY TimeOutStep
<1>4. Asleep' = {u \in Thread : cond.sem \in Sem /\ u \in QueueOf(sema', cond.sem)}
  BY <1>1 DEF Asleep, QueueOf
<1>5. Waiters = Asleep /\ Waiters' = Asleep'
  BY WaitersSleep, WaitersSleepNext
<1>6. Waiters' = Waiters \ {t} /\ t \in Waiters
  BY <1>3, <1>4, <1>5 DEF Asleep
<1> QED
  BY <1>2, <1>6, GiveUpMaps

---------------------------------------------------------------------------
(* Signals and broadcasts *)

LEMMA SignalCalledMaps ==
  ASSUME SyncInv, SyncInv', NEW t \in Thread, SignalCalled(t)
  PROVE  MonitorStep
<1>0. TypeOK /\ TypeOK' /\ pc[t] = "idle" /\ sema' = sema /\ holds' = holds
  BY DEF SyncInv, SignalCalled, CondCalled, semVars
<1>1. CASE cond.sig = "ready" /\ cond.sem # NULL
  <2>1. PICK l \in Sends : Goto(t, l)
    BY <1>1 DEF SignalCalled, Sends
  <2>2. Moved(t, l)
    BY <1>0, <2>1, Goes DEF Sends, Places
  <2>3. /\ Held' = [Held EXCEPT ![t] = Holding(l, holds'[t])]
        /\ Held[t] = Holding(pc[t], holds[t])
        /\ Sending' = [Sending EXCEPT ![t] = Kind(l)] /\ Sending[t] = Kind(pc[t])
    BY <1>0, <2>2, HeldMoves, SendingMoves
  <2>4. Waiters' = Waiters /\ t \notin Waiters
    BY <1>0, <2>1, <2>2, WaitersStay DEF Sends
  <2>5. /\ Holding(l, holds'[t]) = Held[t] /\ Sending[t] = "none"
        /\ Kind(l) \in {"one", "all", "thread"}
    BY <1>0, <2>1, <2>3 DEF Holding, Kind, Sleepy, Sends
  <2>6. PICK h, s, k : h = Held /\ s = Sending /\ k = Kind(l)
    OBVIOUS
  <2>7. h = [u \in Thread |-> h[u]]
    BY <2>6 DEF Held
  <2>8. Held' = h /\ Sending' = [s EXCEPT ![t] = k] /\ k \in {"one", "all", "thread"}
    BY <2>3, <2>5, <2>6, <2>7
  <2> QED
    BY <2>4, <2>5, <2>6, <2>8, CallMaps
<1>2. CASE ~(cond.sig = "ready" /\ cond.sem # NULL)
  <2>1. pc' = pc
    BY <1>2 DEF SignalCalled
  <2>2. Moved(t, pc[t])
    BY <1>0, <2>1, Stays
  <2>3. Waiters' = Waiters
    BY <1>0, <2>2, WaitersStay
  <2> QED
    BY <1>0, <2>2, <2>3, QuietMaps
<1> QED
  BY <1>1, <1>2

LEMMA SignalSleepersMaps ==
  ASSUME SyncInv, SyncInv', NEW t \in Thread, SignalSleepers(t)
  PROVE  MonitorStep
<1>0. TypeOK /\ TypeOK' /\ pc[t] \in Sends /\ holds' = holds /\ cond' = cond
  BY DEF SyncInv, SignalSleepers, Sends, condVars
<1>1. Moved(t, "s_done")
  <2>1. Goto(t, "s_done") /\ "s_done" \in Places
    BY DEF SignalSleepers, Places
  <2> QED
    BY <1>0, <2>1, Goes
<1>2. /\ Held' = [Held EXCEPT ![t] = Holding("s_done", holds'[t])]
      /\ Held[t] = Holding(pc[t], holds[t])
      /\ Sending' = [Sending EXCEPT ![t] = Kind("s_done")] /\ Sending[t] = Kind(pc[t])
  BY <1>0, <1>1, HeldMoves, SendingMoves
<1>3. Holding("s_done", holds'[t]) = Held[t] /\ Kind("s_done") = "none"
  BY <1>0, <1>2 DEF Holding, Kind, Sleepy, Sends
<1>4. PICK h : h = Held
  OBVIOUS
<1>5. h = [u \in Thread |-> h[u]]
  BY <1>4 DEF Held
<1>6. Held' = Held /\ Sending' = [Sending EXCEPT ![t] = "none"]
  BY <1>2, <1>3, <1>4, <1>5
<1>7. cond.sem \in Sem /\ Woken(t, QueueOf(sema', cond.sem))
  BY SignalSleepersStep
<1>8. Asleep' = {u \in Thread : cond.sem \in Sem /\ u \in QueueOf(sema', cond.sem)}
  BY <1>0 DEF Asleep, QueueOf
<1>9. Waiters = Asleep /\ Waiters' = Asleep'
  BY WaitersSleep, WaitersSleepNext
<1>10. Waiters = QueueOf(sema, cond.sem) /\ Waiters' = QueueOf(sema', cond.sem)
  BY <1>7, <1>8, <1>9 DEF Asleep, QueueOf, Members
<1>11. Woken(t, Waiters') /\ Waiters = QueueOf(sema, cond.sem)
  BY <1>7, <1>10
<1>12. CASE pc[t] = "s_one"
  <2>1. Sending[t] = "one"
    BY <1>2, <1>12 DEF Kind
  <2>2. \/ Waiters = {} /\ Waiters' = Waiters
        \/ Waiters # {} /\ \E u \in Waiters : Waiters' = Waiters \ {u}
    BY <1>11, <1>12 DEF Woken
  <2> QED
    BY <1>6, <2>1, <2>2, SignalOneMaps
<1>13. CASE pc[t] = "s_thread"
  <2>1. Sending[t] = "thread"
    BY <1>2, <1>13 DEF Kind
  <2>2. \E u \in Thread : Waiters' = Waiters \ {u}
    BY <1>11, <1>13 DEF Woken
  <2> QED
    BY <1>6, <2>1, <2>2, SignalThreadMaps
<1>14. CASE pc[t] = "s_all"
  <2>1. Sending[t] = "all" /\ Waiters' = {}
    BY <1>2, <1>11, <1>14 DEF Kind, Woken
  <2> QED
    BY <1>6, <2>1, SignalAllMaps
<1> QED
  BY <1>0, <1>12, <1>13, <1>14 DEF Sends

---------------------------------------------------------------------------
(* Steps the monitor does not see *)

LEMMA AwakeMaps ==
  ASSUME SyncInv, SyncInv', NEW t \in Thread, NEW l \in Places, Goto(t, l),
         sema' = sema, holds' = holds, pc[t] = "c_leave" => ~Blocked(t), l # "c_leave",
         pc[t] \notin Sleepy \cup Sends, l \notin Sleepy \cup Sends
  PROVE  MonitorStep
<1>1. TypeOK /\ TypeOK'
  BY DEF SyncInv
<1>2. Moved(t, l)
  BY <1>1, Goes
<1>3. Waiters' = Waiters
  BY <1>2, WaitersStay
<1> QED
  BY <1>1, <1>2, <1>3, QuietMaps

LEMMA StillMaps ==
  ASSUME pc' = pc, sema' = sema, holds' = holds
  PROVE  MonitorStep
<1>1. Held' = Held /\ Sending' = Sending
  BY DEF Held, Sending
<1>2. Waiters' = Waiters
  BY DEF Waiters, Blocked, InQueue
<1> QED
  BY <1>1, <1>2, StutterMaps

LEMMA ApartMaps ==
  ASSUME SyncInv, SyncInv', NEW t \in Thread, NEW l, Moved(t, l), holds' = holds,
         cond' = cond, pc[t] \notin Sleepy \cup Sends, l \notin Sleepy \cup Sends,
         \A x \in Sem : x # mutex.sem /\ x # mutex.order => sema'[x] = sema[x]
  PROVE  MonitorStep
<1>1. TypeOK /\ TypeOK'
  BY DEF SyncInv
<1>2. Waiters' = Waiters
  BY WaitersApart
<1> QED
  BY <1>1, <1>2, QuietMaps

LEMMA AwakeSteps ==
  ASSUME SyncInv, SyncInv', NEW t \in Thread,
         \/ QueueFirst(t) \/ Ordered(t) \/ LockFails(t)
         \/ CondWait(t) \/ CondAdd(t) \/ CondLeave(t) \/ CondRemove(t) \/ SignalDone(t)
  PROVE  MonitorStep
<1>1. sema' = sema /\ holds' = holds
  BY DEF QueueFirst, Ordered, LockFails, CondWait, CondAdd, CondLeave, CondRemove,
         SignalDone, semVars
<1>2. /\ pc[t] \in {"idle", "c_relock", "l_order", "c_add", "c_leave", "c_remove", "s_done"}
      /\ pc[t] = "c_leave" => ~Blocked(t)
  BY DEF QueueFirst, MustQueue, LockCalled, Ordered, LockFails, CondWait, CondCalled,
         CondAdd, CondLeave, CondRemove, SignalDone
<1>3. PICK l \in {"idle", "l_wait", "c_add", "c_release", "c_remove", "c_relock"} : Goto(t, l)
  BY DEF QueueFirst, Ordered, LockFails, CondWait, CondAdd, CondLeave, CondRemove,
         SignalDone, Return
<1>4. /\ l \in Places /\ l # "c_leave" /\ l \notin Sleepy \cup Sends
      /\ pc[t] \notin Sleepy \cup Sends
  BY <1>2, <1>3 DEF Places, Sleepy, Sends
<1> QED
  BY <1>1, <1>2, <1>3, <1>4, AwakeMaps

LEMMA StillSteps ==
  ASSUME \/ InitMutex \/ InitCond
         \/ \E t \in Thread : Destroy(t) \/ Refused(t) \/ DestroyCond(t)
  PROVE  MonitorStep
<1>1. pc' = pc /\ sema' = sema /\ holds' = holds
  BY DEF InitMutex, InitCond, Destroy, Refused, DestroyCond, semVars, mutexVars
<1> QED
  BY <1>1, StillMaps

\* The waits and signals of the mutex use its own semaphores.
LEMMA QueueNextMaps ==
  ASSUME SyncInv, SyncInv', NEW t \in Thread, QueueNext(t), cond' = cond
  PROVE  MonitorStep
<1>0. TypeOK /\ LockCalled(t)
  BY DEF SyncInv, QueueNext, MustQueue
<1>1. pc[t] \in {"idle", "c_relock"} /\ Found.order = mutex.order
  BY <1>0, LockCalledFacts
<1>2. /\ Goto(t, "l_order") /\ "l_order" \in Places /\ holds' = holds
      /\ sema' = Waited(sema, mutex.order, t) /\ DOMAIN sema = Sem
  BY <1>0, <1>1, TypeFacts DEF QueueNext, Places
<1>3. Moved(t, "l_order")
  BY <1>0, <1>2, Goes
<1>4. \A x \in Sem : x # mutex.order => sema'[x] = sema[x]
  BY <1>2, Untouched
<1> QED
  BY <1>1, <1>2, <1>3, <1>4, ApartMaps DEF Sleepy, Sends

LEMMA LockSwitchingMaps ==
  ASSUME SyncInv, SyncInv', NEW t \in Thread, LockSwitching(t), cond' = cond
  PROVE  MonitorStep
<1>0. TypeOK /\ LockCalled(t)
  BY DEF SyncInv, LockSwitching
<1>1. pc[t] \in {"idle", "c_relock"} /\ Found.sem = mutex.sem
  BY <1>0, LockCalledFacts
<1>2. /\ Goto(t, "l_switch") /\ "l_switch" \in Places /\ holds' = holds
      /\ sema' = Waited(sema, mutex.sem, t) /\ DOMAIN sema = Sem
  BY <1>0, <1>1, TypeFacts DEF LockSwitching, Places
<1>3. Moved(t, "l_switch")
  BY <1>0, <1>2, Goes
<1>4. \A x \in Sem : x # mutex.sem => sema'[x] = sema[x]
  BY <1>2, Untouched
<1> QED
  BY <1>1, <1>2, <1>3, <1>4, ApartMaps DEF Sleepy, Sends

LEMMA SleepMaps ==
  ASSUME SyncInv, SyncInv', NEW t \in Thread,
         Sleep(t) \/ WakeUpLast(t) \/ Aborted(t), cond' = cond
  PROVE  MonitorStep
<1>0. TypeOK /\ pc[t] \in {"l_wait", "l_woken"}
  BY DEF SyncInv, Sleep, WakeUpLast, Aborted
<1>1. loc[t].sem = mutex.sem /\ loc[t].order = mutex.order
  BY <1>0 DEF SyncInv, MutexUse, Queuers
<1>2. DOMAIN sema = Sem /\ holds' = holds
  BY <1>0, TypeFacts DEF Sleep, WakeUpLast, Aborted, mutexVars
<1>3. PICK l \in {"l_woken", "l_drain"} : Moved(t, l)
  <2>1. CASE Sleep(t) \/ WakeUpLast(t)
    <3>1. PICK l \in {"l_woken", "l_drain"} : Goto(t, l)
      BY <2>1 DEF Sleep, WakeUpLast
    <3> QED
      BY <1>0, <3>1, Goes DEF Places
  <2>2. CASE Aborted(t)
    <3>1. pc' = pc /\ pc[t] = "l_woken"
      BY <2>2 DEF Aborted, mutexVars
    <3> QED
      BY <1>0, <3>1, Stays
  <2> QED
    BY <2>1, <2>2
<1>4. ASSUME NEW x \in Sem, x # mutex.sem, x # mutex.order PROVE sema'[x] = sema[x]
  <2>1. CASE Sleep(t)
    <3>1. PICK S : S = Signalled(sema, mutex.order)
      OBVIOUS
    <3>2. S[x] = sema[x] /\ DOMAIN S = Sem
      BY <1>2, <1>4, <3>1, Untouched, SemKept
    <3>3. sema' = Waited(S, mutex.sem, t)
      BY <1>1, <2>1, <3>1 DEF Sleep, WaitSignalled
    <3> QED
      BY <1>4, <3>2, <3>3, Untouched
  <2>2. CASE WakeUpLast(t)
    BY <1>1, <1>2, <1>4, <2>2, Untouched DEF WakeUpLast
  <2>3. CASE Aborted(t)
    <3>1. PICK S : S = Left(sema, mutex.sem, t)
      OBVIOUS
    <3>2. S[x] = sema[x] /\ DOMAIN S = Sem
      BY <1>2, <1>4, <3>1, Untouched, SemKept
    <3>3. sema' = Waited(S, mutex.sem, t)
      BY <1>1, <2>3, <3>1 DEF Aborted
    <3> QED
      BY <1>4, <3>2, <3>3, Untouched
  <2> QED
    BY <2>1, <2>2, <2>3
<1>5. l \notin Sleepy \cup Sends /\ pc[t] \notin Sleepy \cup Sends
  BY <1>0, <1>3 DEF Sleepy, Sends
<1> QED
  BY <1>2, <1>3, <1>4, <1>5, ApartMaps

LEMMA SignalWaiterMaps ==
  ASSUME SyncInv, SyncInv', NEW t \in Thread, SignalWaiter(t), cond' = cond
  PROVE  MonitorStep
<1>0. TypeOK /\ pc[t] = "u_signal"
  BY DEF SyncInv, SignalWaiter
<1>1. /\ Goto(t, "idle") /\ "idle" \in Places /\ holds' = holds
      /\ sema' = Signalled(sema, mutex.sem) /\ DOMAIN sema = Sem
  BY <1>0, TypeFacts DEF SignalWaiter, Places
<1>2. Moved(t, "idle")
  BY <1>0, <1>1, Goes
<1>3. \A x \in Sem : x # mutex.sem => sema'[x] = sema[x]
  BY <1>1, Untouched
<1> QED
  BY <1>0, <1>1, <1>2, <1>3, ApartMaps DEF Sleepy, Sends

---------------------------------------------------------------------------
(* The refinement *)

LEMMA InitMaps == SyncInit => Monitor!Init
<1> SUFFICES ASSUME SyncInit PROVE Monitor!Init
  OBVIOUS
<1>1. /\ pc = [t \in Thread |-> "idle"] /\ holds = [t \in Thread |-> 0]
      /\ Held = [t \in Thread |-> 0] /\ Waiters = {}
      /\ Sending = [t \in Thread |-> "none"]
  BY DEF SyncInit, MutexInit, Held, Waiters, Sending
<1> QED
  BY <1>1 DEF Monitor!Init, Held, Waiters, Sending

LEMMA NextMaps ==
  ASSUME SyncInv, SyncInv', SyncNext
  PROVE  MonitorStep
<1>1. ASSUME NEW t \in Thread, TryLock(t) \/ Wait(t) \/ Aborted(t), UNCHANGED condVars
      PROVE  MonitorStep
  <2>0. cond' = cond
    BY <1>1 DEF condVars
  <2>1. CASE LockFree(t)
    BY <2>1, LockFreeMaps
  <2>2. CASE LockAgain(t)
    BY <2>2, LockAgainMaps
  <2>3. CASE LockSwitching(t)
    BY <2>0, <2>3, LockSwitchingMaps
  <2>4. CASE QueueNext(t)
    BY <2>0, <2>4, QueueNextMaps
  <2>5. CASE QueueFirst(t) \/ Ordered(t) \/ LockFails(t)
    BY <2>5, AwakeSteps
  <2>6. CASE Sleep(t) \/ WakeUpLast(t) \/ Aborted(t)
    BY <2>0, <2>6, SleepMaps
  <2>7. CASE WakeUp(t) \/ Drained(t) \/ Switched(t)
    BY <2>7, WokenMaps
  <2> QED
    BY <1>1, <2>1, <2>2, <2>3, <2>4, <2>5, <2>6, <2>7 DEF TryLock, Wait
<1>2. ASSUME NEW t \in Thread, Unlock(t) \/ SignalWaiter(t), UNCHANGED condVars
      PROVE  MonitorStep
  <2>1. cond' = cond
    BY <1>2 DEF condVars
  <2> QED
    BY <1>2, <2>1, UnlockMaps, SignalWaiterMaps
<1>3. ASSUME NEW t \in Thread,
             \/ CondWait(t) \/ CondAdd(t) \/ CondRelease(t) \/ CondSleep(t)
             \/ TimeOut(t) \/ CondLeave(t) \/ CondRemove(t)
             \/ SignalCalled(t) \/ SignalSleepers(t) \/ SignalDone(t)
      PROVE  MonitorStep
  BY <1>3, AwakeSteps, CondReleaseMaps, CondSleepMaps, TimeOutMaps,
     SignalCalledMaps, SignalSleepersMaps
<1>4. ASSUME \/ InitMutex \/ InitCond
             \/ \E t \in Thread : Destroy(t) \/ Refused(t) \/ DestroyCond(t)
      PROVE  MonitorStep
  BY <1>4, StillSteps
<1> QED
  BY <1>1, <1>2, <1>3, <1>4 DEF SyncNext

\* The mutex and the condition variable of core/pthread_mutex.c and
\* core/pthread_cond.c implement AbstractMonitor: a wait gives the mutex up and
\* joins the sleepers in one step, a signal wakes up a sleeper if there is one and
\* a broadcast all of them, and no thread takes the mutex while another has it or
\* while it is asleep itself.
THEOREM MonitorImplemented == SyncSpec => ImplementsMonitor
<1>1. SyncInit => Monitor!Init
  BY InitMaps
<1>2. SyncInv /\ SyncInv' /\ [SyncNext]_syncVars => [Monitor!Next]_(Monitor!monitor)
  <2> SUFFICES ASSUME SyncInv, SyncInv', [SyncNext]_syncVars PROVE MonitorStep
    BY DEF MonitorStep
  <2>1. CASE SyncNext
    BY <2>1, NextMaps
  <2>2. CASE UNCHANGED syncVars
    <3>1. pc' = pc /\ sema' = sema /\ holds' = holds
      BY <2>2 DEF syncVars, semVars, mutexVars
    <3> QED
      BY <3>1, StillMaps
  <2> QED
    BY <2>1, <2>2
<1> QED
  BY <1>1, <1>2, SyncInvAlways, PTL DEF SyncSpec, ImplementsMonitor, Monitor!Spec
=============================================================================
