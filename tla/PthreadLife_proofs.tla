------------------------- MODULE PthreadLife_proofs -------------------------
(***************************************************************************)
(* Proofs about the life of threads, for any number of threads: structures *)
(* are freed in time and not used afterwards, the process ends with its    *)
(* last thread, and joiners are woken up.                                  *)
(***************************************************************************)
EXTENDS PthreadLife, FiniteSetTheorems, TLAPS

ThreadRec ==
  [kind : Allocations \cup {"none"}, mem : {"none", "live", "freed"},
   joinable : BOOLEAN, exited : BOOLEAN, parentcheck : BOOLEAN,
   childrun : BOOLEAN, childexit : BOOLEAN, notify : Sem \cup {NULL},
   joiner : Thread \cup {NULL}, kport : BOOLEAN, enabled : BOOLEAN,
   pending : BOOLEAN]
ArgRec == [who : Thread \cup {NULL}, sem : Sem \cup {NULL}, flag : BOOLEAN]
SemRec == [count : Nat, queue : Seq(Thread)]
Points == {"none", "start", "run", "create", "exit", "free", "term", "oldfree",
           "dead"} \cup CallPoints

LifeTypeOK ==
  /\ thr \in [Thread -> ThreadRec] /\ at \in [Thread -> Points]
  /\ arg \in [Thread -> ArgRec]
  /\ plist \in SUBSET Thread /\ pcount \in Int /\ recycle \in Seq(Thread)
  /\ finished \in BOOLEAN /\ wild \in SUBSET Thread /\ spoiled \in BOOLEAN
  /\ sema \in [Sem -> SemRec] /\ sem_pool \in Seq(Sem)

Parents(t) == {p \in Thread : at[p] = "create" /\ arg[p].who = t}

\* What the flags of a thread say about where it is.
FlagsAt(t) ==
  /\ thr[t].kind = "none" <=> at[t] = "none"
  /\ thr[t].mem = "none" <=> thr[t].kind = "none"
  /\ thr[t].kind = "none" => thr[t] = NoThread
  /\ thr[t].kind \notin {"none", "old"} =>
       /\ thr[t].childrun <=> at[t] # "start"
       /\ thr[t].childexit <=> at[t] \in {"term", "dead"}
       /\ at[t] # "oldfree"
  /\ thr[t].kind = "old" => at[t] \notin {"free", "term"}
  /\ thr[t].kport <=> thr[t].kind = "old" \/ thr[t].childrun
  /\ thr[t].exited <=> at[t] \in {"free", "term", "oldfree", "dead"}
  /\ at[t] \in {"free", "oldfree"} => arg[t].flag = ~thr[t].joinable
  /\ at[t] = "term" /\ arg[t].flag =>
       ~thr[t].joinable /\ thr[t].kind # "user" /\ thr[t].parentcheck

\* A thread whose creation has not returned has a parent.
ParentAt(t) ==
  thr[t].kind \notin {"none", "old"} => (~thr[t].parentcheck <=> Parents(t) # {})

\* What a thread has in its hands in a call, in create or on its way out.
HandsAt(t) ==
  /\ at[t] = "create" => /\ arg[t].who \in Thread
                         /\ thr[arg[t].who].kind \notin {"none", "old"}
                         /\ \A p \in Parents(arg[t].who) : p = t
  /\ at[t] \in CallPoints => arg[t].who \in Thread /\ thr[arg[t].who].kport
  /\ at[t] = "join" /\ thr[arg[t].who].notify = NULL => arg[t].sem # NULL
  /\ at[t] \in {"wait", "reap"} => arg[t].sem # NULL
  /\ at[t] = "reap" => ~NewStyle(arg[t].who)
  /\ at[t] = "exit" /\ NewStyle(t) /\ LeavesSem(t) => arg[t].sem # NULL
  /\ at[t] = "exit" /\ ~NewStyle(t) => arg[t].sem = NULL

\* A detached thread that is gone has been freed, or its parent will do it.
DetachedAt(t) ==
  thr[t].kind \notin {"none", "old"} /\ ~thr[t].joinable
    /\ at[t] \in {"term", "dead"} /\ thr[t].mem # "freed" =>
      /\ thr[t].kind # "user"
      /\ ~thr[t].parentcheck \/ (at[t] = "term" /\ arg[t].flag)

\* The threads on the recycle port.
Recycled == {t \in Thread : \E i \in 1..Len(recycle) : recycle[i] = t}
RecycledAt(t) == t \in Recycled => at[t] = "dead" /\ ~NewStyle(t)

StageInv ==
  \A t \in Thread : /\ FlagsAt(t) /\ ParentAt(t) /\ HandsAt(t)
                    /\ DetachedAt(t) /\ RecycledAt(t)

\* _pthread_count counts these.
Counts(t) ==
  /\ thr[t].kind # "none"
  /\ IF NewStyle(t) THEN (thr[t].childrun \/ thr[t].parentcheck) /\ ~thr[t].childexit
     ELSE at[t] # "dead"
Counted == {t \in Thread : Counts(t)}

CountInv ==
  /\ IsFiniteSet(Counted) /\ pcount = Cardinality(Counted)
  /\ finished <=> Counted = {}

---------------------------------------------------------------------------
(* Until two calls on one thread meet *)

Touching(u) == \/ at[u] \in {"join", "wait", "detach", "rejoin", "cancel"}
               \/ at[u] = "reap" /\ ~arg[u].flag

\* A call on a thread is the only one, and the thread waits for it.
CallAt(u) ==
  at[u] \in CallPoints =>
    /\ CallsOn(arg[u].who) = {u}
    /\ Touching(u) => arg[u].who \in plist /\ thr[arg[u].who].joinable
    /\ u # arg[u].who /\ NewStyle(arg[u].who) => thr[arg[u].who].parentcheck
    /\ at[u] \in {"wait", "reap"} =>
         u # arg[u].who /\ thr[arg[u].who].notify = arg[u].sem
    /\ at[u] = "reap" => thr[arg[u].who].exited
    /\ at[u] = "reap" /\ arg[u].flag =>
         /\ arg[u].who \notin plist /\ thr[arg[u].who].mem = "live"
         /\ thr[arg[u].who].joinable
    /\ at[u] = "signal" => ~thr[arg[u].who].joinable
                           /\ arg[u].sem = thr[arg[u].who].notify
    /\ at[u] = "join" /\ ~NewStyle(arg[u].who) =>
         thr[arg[u].who].notify = NULL
    /\ at[u] \in {"join", "detach", "rejoin"} => ~arg[u].flag

\* When a structure is there, and when it is on the list.
MemAt(t) ==
  /\ t \in plist => thr[t].mem = "live"
  /\ thr[t].mem = "freed" => at[t] \in {"dead", "term"}
  /\ thr[t].mem = "freed" /\ at[t] = "term" => ~thr[t].joinable
  /\ thr[t].mem = "freed" /\ NewStyle(t) /\ ~thr[t].parentcheck =>
       thr[t].kind = "user" /\ ~thr[t].joinable
  /\ NewStyle(t) /\ at[t] \in {"term", "dead"} /\ ~thr[t].joinable => t \notin plist
  /\ thr[t].kind = "old" /\ at[t] # "dead" /\ ~thr[t].joinable => t \in plist
  /\ thr[t].kind = "old" /\ ~thr[t].exited => t \in plist

\* A semaphore is in the pool, in the hands of a thread, or of use to the
\* joiners of a thread.
Pooled == {s \in Sem : \E i \in 1..Len(sem_pool) : sem_pool[i] = s}
Private(t) == at[t] \in {"exit", "join"} /\ arg[t].sem # NULL
Owns(t) == thr[t].notify # NULL /\ (thr[t].mem = "live" \/ ~thr[t].joinable)

\* In one place only.
PlaceInv ==
  \A t \in Thread :
    /\ Owns(t) =>
         /\ \A u \in Thread : Owns(u) /\ thr[u].notify = thr[t].notify => u = t
         /\ \A u \in Thread : Private(u) => arg[u].sem # thr[t].notify
         /\ thr[t].notify \notin Pooled
    /\ Private(t) =>
         /\ \A u \in Thread : Private(u) /\ arg[u].sem = arg[t].sem => u = t
         /\ arg[t].sem \notin Pooled

PrivAt(t) == Private(t) => sema[arg[t].sem] = Created

\* What is in the semaphore of a thread tells whether the thread has ended
\* and whether somebody waits for that.
Waiters(t) == {j \in Thread : at[j] = "wait" /\ arg[j].who = t}
Ended(t) == IF NewStyle(t) THEN at[t] = "dead" ELSE thr[t].exited
AwaitedAt(t) ==
  thr[t].joinable /\ thr[t].mem = "live" /\ thr[t].notify # NULL =>
    \/ /\ Waiters(t) = {}
       /\ sema[thr[t].notify] = [count |-> IF Ended(t) /\ NewStyle(t) THEN 1 ELSE 0,
                                 queue |-> <<>>]
    \/ \E j \in Thread :
         /\ Waiters(t) = {j}
         /\ sema[thr[t].notify] = [count |-> 0,
                                   queue |-> IF Ended(t) THEN <<>> ELSE <<j>>]

NotifyAt(t) ==
  /\ at[t] = "term" => arg[t].sem = thr[t].notify
  /\ thr[t].exited /\ thr[t].joinable /\ NewStyle(t) => thr[t].notify # NULL
  /\ ~thr[t].kport => thr[t].notify = NULL
  /\ thr[t].kind = "old" /\ thr[t].joinable /\ t \in plist /\ thr[t].notify # NULL =>
       \E j \in Thread : at[j] \in {"wait", "reap"} /\ arg[j].who = t

PoolDistinct == \A i, j \in 1..Len(sem_pool) : sem_pool[i] = sem_pool[j] => i = j
PoolInv == PoolDistinct /\ \A s \in Pooled : sema[s] = Created

RecycleInv ==
  \A t \in Recycled : t \notin plist /\ ~thr[t].joinable

GoodInv ==
  /\ \A t \in Thread : CallAt(t) /\ MemAt(t) /\ PrivAt(t) /\ AwaitedAt(t) /\ NotifyAt(t)
  /\ PlaceInv /\ PoolInv /\ RecycleInv

LifeInv == /\ LifeTypeOK /\ StageInv /\ CountInv
           /\ ~spoiled => GoodInv /\ NoWildAccess
---------------------------------------------------------------------------
(* What a step changes *)

\* The parts of LifeInv that do not depend on how calls meet.
BaseInv == LifeTypeOK /\ StageInv

\* A thread goes to another point.
LEMMA GoesTo ==
  ASSUME LifeTypeOK, NEW t \in Thread, NEW l \in Points, NEW a \in ArgRec,
         Goes(t, l, a)
  PROVE  /\ at' \in [Thread -> Points] /\ arg' \in [Thread -> ArgRec]
         /\ at'[t] = l /\ arg'[t] = a
         /\ \A u \in Thread : u # t => at'[u] = at[u] /\ arg'[u] = arg[u]
BY DEF Goes, LifeTypeOK

LEMMA ChangesThread ==
  ASSUME LifeTypeOK, NEW t \in Thread, NEW r \in ThreadRec,
         thr' = [thr EXCEPT ![t] = r]
  PROVE  /\ thr' \in [Thread -> ThreadRec] /\ thr'[t] = r
         /\ \A u \in Thread : u # t => thr'[u] = thr[u]
BY DEF LifeTypeOK

\* What no step takes back ...
Lasts(w) ==
  /\ thr'[w].kind = thr[w].kind /\ thr'[w].parentcheck = thr[w].parentcheck
  /\ thr[w].kport => thr'[w].kport
  /\ thr[w].notify # NULL => thr'[w].notify # NULL

\* ... and what a step of another thread leaves of a structure.
Keeps(u) ==
  /\ thr'[u].childrun = thr[u].childrun /\ thr'[u].childexit = thr[u].childexit
  /\ thr'[u].exited = thr[u].exited /\ thr'[u].kport = thr[u].kport
  /\ thr[u].kind = "none" => thr'[u] = thr[u]
  /\ thr'[u].mem = thr[u].mem \/ thr'[u].mem = "freed"
  /\ thr'[u].joinable = thr[u].joinable \/ (~thr'[u].joinable /\ ~thr[u].exited)

LEMMA OthersStage ==
  ASSUME BaseInv, LifeTypeOK', NEW a \in Thread,
         at[a] \notin {"create", "dead"}, at'[a] # "create",
         \A u \in Thread : Lasts(u),
         \A u \in Thread : u # a =>
           Keeps(u) /\ at'[u] = at[u] /\ arg'[u] = arg[u],
         FlagsAt(a)', HandsAt(a)', DetachedAt(a)',
         Recycled' \subseteq Recycled \cup {a},
         a \in Recycled' => at'[a] = "dead" /\ ~NewStyle(a)
  PROVE  BaseInv'
<1>1. \A u \in Thread : Parents(u)' = Parents(u)
  BY DEF Parents
<1>2. ASSUME NEW u \in Thread PROVE ParentAt(u)'
  BY <1>1 DEF BaseInv, StageInv, ParentAt, Lasts
<1>3. ASSUME NEW u \in Thread, u # a PROVE FlagsAt(u)'
  <2>1. FlagsAt(u) /\ Keeps(u) /\ Lasts(u) /\ at'[u] = at[u] /\ arg'[u] = arg[u]
    BY <1>3 DEF BaseInv, StageInv
  <2>2. thr[u] \in ThreadRec /\ thr'[u] \in ThreadRec
    BY DEF BaseInv, LifeTypeOK
  <2>3. CASE thr[u].kind = "none"
    BY <2>1, <2>3 DEF FlagsAt, Keeps
  <2>4. CASE thr[u].kind # "none"
    BY <2>1, <2>2, <2>4 DEF FlagsAt, Keeps, Lasts, ThreadRec
  <2> QED
    BY <2>3, <2>4
<1>4. ASSUME NEW u \in Thread, u # a PROVE HandsAt(u)'
  <2>1. /\ HandsAt(u) /\ Keeps(u) /\ Lasts(u)
        /\ at'[u] = at[u] /\ arg'[u] = arg[u]
    BY <1>4 DEF BaseInv, StageInv
  <2>2. /\ LeavesSem(u)' => LeavesSem(u)
        /\ NewStyle(u)' = NewStyle(u)
    BY <2>1 DEF LeavesSem, NewStyle, Keeps, Lasts
  <2>3. arg[u].who \in Thread => Lasts(arg[u].who)
    OBVIOUS
  <2> QED
    BY <1>1, <2>1, <2>2, <2>3 DEF HandsAt, NewStyle, Lasts, CallPoints
<1>5. ASSUME NEW u \in Thread, u # a PROVE DetachedAt(u)'
  <2>1. /\ DetachedAt(u) /\ FlagsAt(u) /\ Keeps(u) /\ Lasts(u)
        /\ at'[u] = at[u] /\ arg'[u] = arg[u]
    BY <1>5 DEF BaseInv, StageInv
  <2> QED
    BY <2>1 DEF DetachedAt, FlagsAt, Keeps, Lasts
<1>6. ASSUME NEW u \in Thread PROVE RecycledAt(u)'
  <2>1. CASE u = a
    BY <2>1 DEF BaseInv, StageInv, RecycledAt, NewStyle, Lasts
  <2>2. CASE u # a
    BY <2>2 DEF BaseInv, StageInv, RecycledAt, NewStyle, Lasts
  <2> QED
    BY <2>1, <2>2
<1> QED
  BY <1>2, <1>3, <1>4, <1>5, <1>6 DEF BaseInv, StageInv

\* A step that leaves the structures alone.
LEMMA OwnStage ==
  ASSUME BaseInv, LifeTypeOK', NEW a \in Thread,
         at[a] \in {"start", "run"} \cup CallPoints, at[a] = "start" => ~NewStyle(a),
         at'[a] \in {"run"} \cup CallPoints,
         UNCHANGED <<thr, recycle>>,
         \A u \in Thread : u # a => at'[u] = at[u] /\ arg'[u] = arg[u],
         HandsAt(a)'
  PROVE  BaseInv'
<1>1. \A u \in Thread : Lasts(u) /\ Keeps(u)
  BY DEF Lasts, Keeps
<1>2. FlagsAt(a)
  BY DEF BaseInv, StageInv
<1>3. FlagsAt(a)' /\ DetachedAt(a)'
  BY <1>2 DEF FlagsAt, DetachedAt, CallPoints, NewStyle
<1>4. at[a] \notin {"create", "dead"} /\ at'[a] # "create"
  BY DEF CallPoints
<1>5. Recycled' = Recycled /\ a \notin Recycled
  BY <1>4 DEF Recycled, BaseInv, StageInv, RecycledAt
<1> QED
  BY <1>1, <1>3, <1>4, <1>5, OthersStage

---------------------------------------------------------------------------
(* The pool and the semaphores *)

LEMMA TakesOne ==
  ASSUME LifeTypeOK, InPool(1)
  PROVE  /\ new_sem_from_pool(1) \in Pooled /\ Taken(1) \in Seq(Sem)
         /\ sem_pool' = Taken(1) => Pooled' \subseteq Pooled
         /\ sem_pool' = Taken(1) /\ PoolDistinct =>
              PoolDistinct' /\ Pooled' = Pooled \ {new_sem_from_pool(1)}
<1>1. Len(sem_pool) \in Nat /\ Len(sem_pool) >= 1 /\ sem_pool \in Seq(Sem)
  BY DEF LifeTypeOK, InPool
<1>2. new_sem_from_pool(1) = sem_pool[1] /\ sem_pool[1] \in Sem
  BY <1>1 DEF new_sem_from_pool
<1>3. Taken(1) = SubSeq(sem_pool, 2, Len(sem_pool))
  BY <1>1 DEF Taken
<1>4. /\ Taken(1) \in Seq(Sem) /\ Len(Taken(1)) = Len(sem_pool) - 1
      /\ \A i \in 1..Len(sem_pool) - 1 : Taken(1)[i] = sem_pool[i + 1]
  <2>1. Taken(1) = Tail(sem_pool)
    BY <1>1, <1>3
  <2> QED
    BY <1>1, <2>1
<1>5. ASSUME sem_pool' = Taken(1) PROVE Pooled' \subseteq Pooled
  <2>1. ASSUME NEW i \in 1..Len(Taken(1))
        PROVE  i + 1 \in 1..Len(sem_pool) /\ Taken(1)[i] = sem_pool[i + 1]
    BY <1>1, <1>4
  <2> QED
    BY <1>5, <2>1 DEF Pooled
<1>6. ASSUME sem_pool' = Taken(1), PoolDistinct
      PROVE  PoolDistinct' /\ Pooled' = Pooled \ {new_sem_from_pool(1)}
  <2>1. PoolDistinct'
    <3> SUFFICES ASSUME NEW i \in 1..Len(Taken(1)), NEW j \in 1..Len(Taken(1)),
                        Taken(1)[i] = Taken(1)[j]
                 PROVE  i = j
      BY <1>6 DEF PoolDistinct
    <3>1. /\ i + 1 \in 1..Len(sem_pool) /\ j + 1 \in 1..Len(sem_pool)
          /\ sem_pool[i + 1] = sem_pool[j + 1]
      BY <1>1, <1>4
    <3>2. i + 1 = j + 1
      BY <1>6, <3>1 DEF PoolDistinct
    <3> QED
      BY <3>2, <1>4, <1>1
  <2>2. ASSUME NEW s \in Pooled' PROVE s \in Pooled /\ s # sem_pool[1]
    <3>1. PICK i \in 1..Len(Taken(1)) : Taken(1)[i] = s
      BY <1>6, <2>2 DEF Pooled
    <3>2. i + 1 \in 1..Len(sem_pool) /\ sem_pool[i + 1] = s /\ i + 1 # 1
          /\ 1 \in 1..Len(sem_pool)
      BY <1>1, <1>4, <3>1
    <3> QED
      BY <1>6, <2>2, <3>2 DEF Pooled, PoolDistinct
  <2>3. ASSUME NEW s \in Pooled, s # sem_pool[1] PROVE s \in Pooled'
    <3>1. PICK i \in 1..Len(sem_pool) : sem_pool[i] = s
      BY DEF Pooled
    <3>2. i - 1 \in 1..Len(Taken(1)) /\ Taken(1)[i - 1] = s
      BY <1>1, <1>4, <2>3, <3>1
    <3> QED
      BY <1>6, <3>2 DEF Pooled
  <2> QED
    BY <1>2, <2>1, <2>2, <2>3
<1>7. new_sem_from_pool(1) \in Pooled
  BY <1>1, <1>2 DEF Pooled
<1> QED
  BY <1>4, <1>5, <1>6, <1>7

LEMMA RestoresOne ==
  ASSUME LifeTypeOK, NEW s \in Sem
  PROVE  /\ Restored(s) \in Seq(Sem)
         /\ sem_pool' = Restored(s) => Pooled' = Pooled \cup {s}
         /\ sem_pool' = Restored(s) /\ PoolDistinct /\ s \notin Pooled =>
              PoolDistinct'
<1>1. Len(sem_pool) \in Nat /\ sem_pool \in Seq(Sem)
  BY DEF LifeTypeOK
<1>2. /\ Restored(s) \in Seq(Sem) /\ Len(Restored(s)) = Len(sem_pool) + 1
      /\ Restored(s)[1] = s
      /\ \A i \in 1..Len(sem_pool) : Restored(s)[i + 1] = sem_pool[i]
  BY <1>1 DEF Restored
<1>3. ASSUME NEW i \in 1..Len(Restored(s)), i # 1
      PROVE  i - 1 \in 1..Len(sem_pool) /\ Restored(s)[i] = sem_pool[i - 1]
  <2>1. i - 1 \in 1..Len(sem_pool) /\ (i - 1) + 1 = i
    BY <1>1, <1>2, <1>3
  <2> QED
    BY <1>2, <2>1
<1>4. ASSUME sem_pool' = Restored(s) PROVE Pooled' = Pooled \cup {s}
  <2>1. ASSUME NEW x \in Pooled' PROVE x \in Pooled \cup {s}
    <3>1. x \in Sem /\ \E i \in 1..Len(Restored(s)) : Restored(s)[i] = x
      BY <1>4 DEF Pooled
    <3> QED
      BY <1>2, <1>3, <3>1 DEF Pooled
  <2>2. ASSUME NEW x \in Pooled PROVE x \in Pooled'
    <3>1. PICK i \in 1..Len(sem_pool) : sem_pool[i] = x
      BY DEF Pooled
    <3>2. i + 1 \in 1..Len(Restored(s)) /\ Restored(s)[i + 1] = x
      BY <1>1, <1>2, <3>1
    <3> QED
      BY <1>4, <3>2 DEF Pooled
  <2>3. s \in Pooled'
    BY <1>1, <1>2, <1>4 DEF Pooled
  <2> QED
    BY <2>1, <2>2, <2>3
<1>5. ASSUME sem_pool' = Restored(s), PoolDistinct, s \notin Pooled PROVE PoolDistinct'
  <2> SUFFICES ASSUME NEW i \in 1..Len(Restored(s)), NEW j \in 1..Len(Restored(s)),
                      Restored(s)[i] = Restored(s)[j]
               PROVE  i = j
    BY <1>5 DEF PoolDistinct
  <2>1. \A k \in 1..Len(sem_pool) : sem_pool[k] # s
    BY <1>5 DEF Pooled
  <2>2. CASE i = 1
    BY <1>2, <1>3, <2>1, <2>2
  <2>3. CASE j = 1
    BY <1>2, <1>3, <2>1, <2>3
  <2>4. CASE i # 1 /\ j # 1
    <3>1. i - 1 = j - 1
      BY <1>3, <1>5, <2>4 DEF PoolDistinct
    <3> QED
      BY <3>1, <1>1, <1>2
  <2> QED
    BY <2>2, <2>3, <2>4
<1> QED
  BY <1>2, <1>4, <1>5

LEMMA SignalledSem ==
  ASSUME NEW S \in [Sem -> SemRec], NEW s \in Sem
  PROVE  /\ Signalled(S, s) \in [Sem -> SemRec]
         /\ \A x \in Sem : x # s => Signalled(S, s)[x] = S[x]
         /\ S[s].queue = <<>> =>
              Signalled(S, s)[s] = [count |-> S[s].count + 1, queue |-> <<>>]
         /\ \A j \in Thread : S[s].queue = <<j>> =>
              Signalled(S, s)[s] = [count |-> S[s].count, queue |-> <<>>]
<1>1. S[s] \in SemRec /\ S[s].count \in Nat /\ S[s].queue \in Seq(Thread)
  BY DEF SemRec
<1>2. CASE S[s].queue = <<>>
  <2>1. PICK r : r = [S[s] EXCEPT !.count = @ + 1]
    OBVIOUS
  <2>2. r = [count |-> S[s].count + 1, queue |-> <<>>] /\ r \in SemRec
    BY <1>1, <1>2, <2>1 DEF SemRec
  <2>3. Signalled(S, s) = [S EXCEPT ![s] = r]
    BY <1>2, <2>1 DEF Signalled
  <2> QED
    BY <1>2, <2>2, <2>3
<1>3. CASE S[s].queue # <<>>
  <2>1. PICK r : r = [S[s] EXCEPT !.queue = Tail(@)]
    OBVIOUS
  <2>2. r = [count |-> S[s].count, queue |-> Tail(S[s].queue)]
    BY <1>1, <2>1 DEF SemRec
  <2>3. Tail(S[s].queue) \in Seq(Thread)
    BY <1>1, <1>3
  <2>4. r \in SemRec
    BY <1>1, <2>2, <2>3 DEF SemRec
  <2>5. Signalled(S, s) = [S EXCEPT ![s] = r]
    BY <1>3, <2>1 DEF Signalled
  <2>6. \A j \in Thread : Tail(<<j>>) = <<>>
    OBVIOUS
  <2> QED
    BY <1>3, <2>2, <2>4, <2>5, <2>6
<1> QED
  BY <1>2, <1>3

LEMMA WaitedSem ==
  ASSUME NEW S \in [Sem -> SemRec], NEW s \in Sem, NEW t \in Thread
  PROVE  /\ Waited(S, s, t) \in [Sem -> SemRec]
         /\ \A x \in Sem : x # s => Waited(S, s, t)[x] = S[x]
         /\ S[s] = Created => Waited(S, s, t)[s] = [count |-> 0, queue |-> <<t>>]
         /\ S[s] = [count |-> 1, queue |-> <<>>] => Waited(S, s, t)[s] = Created
<1>1. S[s] \in SemRec /\ S[s].count \in Nat /\ S[s].queue \in Seq(Thread)
  BY DEF SemRec
<1>2. CASE S[s].count > 0
  <2>1. PICK r : r = [S[s] EXCEPT !.count = @ - 1]
    OBVIOUS
  <2>2. r = [count |-> S[s].count - 1, queue |-> S[s].queue] /\ r \in SemRec
    BY <1>1, <1>2, <2>1 DEF SemRec
  <2>3. Waited(S, s, t) = [S EXCEPT ![s] = r]
    BY <1>2, <2>1 DEF Waited
  <2> QED
    BY <1>2, <2>2, <2>3 DEF Created
<1>3. CASE ~(S[s].count > 0)
  <2>1. PICK r : r = [S[s] EXCEPT !.queue = Append(@, t)]
    OBVIOUS
  <2>2. r = [count |-> S[s].count, queue |-> Append(S[s].queue, t)]
    BY <1>1, <2>1 DEF SemRec
  <2>3. Append(S[s].queue, t) \in Seq(Thread)
    BY <1>1
  <2>4. r \in SemRec
    BY <1>1, <2>2, <2>3 DEF SemRec
  <2>5. Waited(S, s, t) = [S EXCEPT ![s] = r]
    BY <1>3, <2>1 DEF Waited
  <2>6. Append(<<>>, t) = <<t>>
    OBVIOUS
  <2> QED
    BY <1>3, <2>2, <2>4, <2>5, <2>6 DEF Created
<1> QED
  BY <1>2, <1>3

LEMMA LeftSem ==
  ASSUME NEW S \in [Sem -> SemRec], NEW s \in Sem, NEW t \in Thread
  PROVE  /\ Left(S, s, t) \in [Sem -> SemRec]
         /\ \A x \in Sem : x # s => Left(S, s, t)[x] = S[x]
         /\ S[s] = [count |-> 0, queue |-> <<t>>] => Left(S, s, t)[s] = Created
<1>1. S[s] \in SemRec /\ S[s].count \in Nat /\ S[s].queue \in Seq(Thread)
  BY DEF SemRec
<1>2. PICK q : q = S[s].queue
  OBVIOUS
<1>3. Without(q, t) \in Seq(Thread)
  <2>1. CASE \E i \in 1..Len(q) : q[i] = t
    <3>1. PICK i : i = CHOOSE j \in 1..Len(q) : q[j] = t
      OBVIOUS
    <3>2. i \in 1..Len(q)
      BY <2>1, <3>1
    <3>3. SubSeq(q, 1, i - 1) \in Seq(Thread) /\ SubSeq(q, i + 1, Len(q)) \in Seq(Thread)
      BY <1>1, <1>2, <3>2
    <3>4. Without(q, t) = SubSeq(q, 1, i - 1) \o SubSeq(q, i + 1, Len(q))
      BY <2>1, <3>1 DEF Without
    <3> QED
      BY <3>3, <3>4
  <2>2. CASE ~\E i \in 1..Len(q) : q[i] = t
    BY <1>1, <1>2, <2>2 DEF Without
  <2> QED
    BY <2>1, <2>2
<1>4. Without(<<t>>, t) = <<>>
  <2>1. PICK p : p = <<t>>
    OBVIOUS
  <2>2. Len(p) = 1 /\ p[1] = t /\ p \in Seq(Thread)
    BY <2>1
  <2>3. PICK i : i = CHOOSE j \in 1..Len(p) : p[j] = t
    OBVIOUS
  <2>4. i = 1
    BY <2>2, <2>3
  <2>5. Without(p, t) = SubSeq(p, 1, i - 1) \o SubSeq(p, i + 1, Len(p))
    BY <2>2, <2>3 DEF Without
  <2>6. SubSeq(p, 1, 0) = <<>> /\ SubSeq(p, 2, 1) = <<>>
    BY <2>2
  <2> QED
    BY <2>1, <2>2, <2>4, <2>5, <2>6
<1>5. PICK r : r = [S[s] EXCEPT !.queue = Without(@, t)]
  OBVIOUS
<1>6. r = [count |-> S[s].count, queue |-> Without(q, t)] /\ r \in SemRec
  BY <1>1, <1>2, <1>3, <1>5 DEF SemRec
<1>7. Left(S, s, t) = [S EXCEPT ![s] = r]
  BY <1>5 DEF Left
<1> QED
  BY <1>2, <1>4, <1>6, <1>7 DEF Created

---------------------------------------------------------------------------
(* The stages, step by step *)

LEMMA Arguments ==
  /\ Nobody \in ArgRec /\ Nobody.who = NULL /\ Nobody.sem = NULL /\ Nobody.flag = FALSE
  /\ \A w \in Thread : LET x == [Nobody EXCEPT !.who = w] IN
       x \in ArgRec /\ x.who = w /\ x.sem = NULL /\ x.flag = FALSE
  /\ \A s \in Sem \cup {NULL} : LET x == [Nobody EXCEPT !.sem = s] IN
       x \in ArgRec /\ x.who = NULL /\ x.sem = s /\ x.flag = FALSE
  /\ \A f \in BOOLEAN : LET x == [Nobody EXCEPT !.flag = f] IN
       x \in ArgRec /\ x.who = NULL /\ x.sem = NULL /\ x.flag = f
BY DEF Nobody, ArgRec

\* A thread that comes back from a call, or starts, has nothing in its hands.
LEMMA ReturnsBase ==
  ASSUME BaseInv, NEW a \in Thread, at[a] \in {"start"} \cup CallPoints,
         at[a] = "start" => ~NewStyle(a), Goes(a, "run", Nobody),
         UNCHANGED <<thr, recycle, plist, pcount, finished>>, spoiled' \in BOOLEAN,
         wild' \in SUBSET Thread, sema' \in [Sem -> SemRec], sem_pool' \in Seq(Sem)
  PROVE  BaseInv'
<1>1. "run" \in Points /\ LifeTypeOK
  BY DEF Points, BaseInv
<1>2. /\ at' \in [Thread -> Points] /\ arg' \in [Thread -> ArgRec]
      /\ at'[a] = "run" /\ arg'[a] = Nobody
      /\ \A u \in Thread : u # a => at'[u] = at[u] /\ arg'[u] = arg[u]
  BY <1>1, Arguments, GoesTo
<1>3. LifeTypeOK'
  BY <1>1, <1>2 DEF LifeTypeOK
<1>4. HandsAt(a)'
  BY <1>2 DEF HandsAt, CallPoints
<1> QED
  BY <1>2, <1>3, <1>4, OwnStage

LEMMA BodyBase == ASSUME BaseInv, NEW t \in Thread, Body(t) PROVE BaseInv'
<1>1. /\ at[t] = "start" /\ ~NewStyle(t) /\ Goes(t, "run", Nobody)
      /\ UNCHANGED <<thr, recycle, plist, pcount, finished, spoiled, wild, sema, sem_pool>>
  BY DEF Body, semVars
<1>2. /\ wild' \in SUBSET Thread /\ sema' \in [Sem -> SemRec] /\ sem_pool' \in Seq(Sem)
      /\ spoiled' \in BOOLEAN
  BY <1>1 DEF BaseInv, LifeTypeOK
<1> QED
  BY <1>1, <1>2, ReturnsBase

LEMMA CallsWhom ==
  ASSUME BaseInv, NEW u \in Thread, at[u] \in CallPoints
  PROVE  /\ arg[u] \in ArgRec /\ arg[u].who \in Thread /\ thr[arg[u].who].kport
         /\ thr[arg[u].who] \in ThreadRec /\ thr[arg[u].who].kind # "none"
         /\ HandsAt(u) /\ FlagsAt(u) /\ FlagsAt(arg[u].who)
<1>1. /\ arg[u] \in ArgRec /\ arg[u].who \in Thread /\ thr[arg[u].who].kport
      /\ HandsAt(u) /\ FlagsAt(u)
  BY DEF BaseInv, StageInv, HandsAt, LifeTypeOK
<1>2. FlagsAt(arg[u].who) /\ thr[arg[u].who] \in ThreadRec
  BY <1>1 DEF BaseInv, StageInv, LifeTypeOK
<1> QED
  BY <1>1, <1>2 DEF FlagsAt, NoThread

LEMMA JoinRefusedBase ==
  ASSUME BaseInv, NEW j \in Thread, JoinRefused(j) PROVE BaseInv'
<1>1. /\ at[j] = "join" /\ Goes(j, "run", Nobody) /\ Touches({arg[j].who})
      /\ sem_pool' = IF arg[j].sem = NULL THEN sem_pool ELSE Restored(arg[j].sem)
      /\ UNCHANGED <<thr, recycle, plist, pcount, finished, spoiled, sema>>
  BY DEF JoinRefused
<1>2. at[j] \in CallPoints
  BY <1>1 DEF CallPoints
<1>3. arg[j].who \in Thread /\ arg[j].sem \in Sem \cup {NULL}
  BY <1>2, CallsWhom DEF ArgRec
<1>4. wild' \in SUBSET Thread /\ sema' \in [Sem -> SemRec] /\ spoiled' \in BOOLEAN
  BY <1>1, <1>3 DEF BaseInv, LifeTypeOK, Touches
<1>5. sem_pool' \in Seq(Sem)
  BY <1>1, <1>3, RestoresOne DEF BaseInv, LifeTypeOK
<1> QED
  BY <1>1, <1>2, <1>4, <1>5, ReturnsBase

LEMMA DetachSignalBase ==
  ASSUME BaseInv, NEW d \in Thread, DetachSignal(d) PROVE BaseInv'
<1>1. /\ at[d] = "signal" /\ Goes(d, "run", Nobody)
      /\ sema' = IF arg[d].sem # NULL THEN Signalled(sema, arg[d].sem) ELSE sema
      /\ UNCHANGED <<thr, recycle, plist, pcount, finished, spoiled, wild, sem_pool>>
  BY DEF DetachSignal
<1>2. at[d] \in CallPoints
  BY <1>1 DEF CallPoints
<1>3. arg[d].sem \in Sem \cup {NULL}
  BY <1>2, CallsWhom DEF ArgRec
<1>4. wild' \in SUBSET Thread /\ sem_pool' \in Seq(Sem) /\ spoiled' \in BOOLEAN
  BY <1>1, <1>3 DEF BaseInv, LifeTypeOK, Touches
<1>5. sema' \in [Sem -> SemRec]
  BY <1>1, <1>3, SignalledSem DEF BaseInv, LifeTypeOK
<1> QED
  BY <1>1, <1>2, <1>4, <1>5, ReturnsBase

\* A thread is in a call, and leaves the structures alone.
LEMMA CallsBase ==
  ASSUME BaseInv, NEW a \in Thread, at[a] \in {"run"} \cup CallPoints,
         NEW l \in CallPoints, NEW x \in ArgRec, Goes(a, l, x),
         UNCHANGED <<thr, recycle, pcount, finished>>,
         plist' \in SUBSET Thread, wild' \in SUBSET Thread, spoiled' \in BOOLEAN,
         UNCHANGED sema, sem_pool' \in Seq(Sem),
         x.who \in Thread, thr[x.who].kport,
         l = "join" /\ thr[x.who].notify = NULL => x.sem # NULL,
         l \in {"wait", "reap"} => x.sem # NULL,
         l = "reap" => ~NewStyle(x.who)
  PROVE  BaseInv'
<1>1. l \in Points /\ LifeTypeOK
  BY DEF Points, BaseInv
<1>2. /\ at' \in [Thread -> Points] /\ arg' \in [Thread -> ArgRec]
      /\ at'[a] = l /\ arg'[a] = x
      /\ \A u \in Thread : u # a => at'[u] = at[u] /\ arg'[u] = arg[u]
  BY <1>1, GoesTo
<1>3. LifeTypeOK'
  BY <1>1, <1>2 DEF LifeTypeOK
<1>4. HandsAt(a)'
  BY <1>2 DEF HandsAt, CallPoints, NewStyle
<1>5. at[a] # "start"
  BY DEF CallPoints
<1> QED
  BY <1>2, <1>3, <1>4, <1>5, OwnStage

LEMMA LooksAt ==
  ASSUME BaseInv, NEW u \in Thread, NEW t \in Thread, Looks(u, t)
  PROVE  /\ at[u] = "run" /\ thr[t].kport /\ wild' \in SUBSET Thread
         /\ spoiled' \in BOOLEAN /\ thr[t] \in ThreadRec /\ thr[t].kind # "none"
         /\ t \in plist
<1>1. at[u] = "run" /\ thr[t].kport /\ thr[t] \in ThreadRec /\ FlagsAt(t) /\ t \in plist
  BY DEF Looks, BaseInv, LifeTypeOK, StageInv
<1>2. wild' \in SUBSET Thread /\ spoiled' \in BOOLEAN
  BY DEF Looks, Touches, BaseInv, LifeTypeOK
<1> QED
  BY <1>1, <1>2 DEF FlagsAt, NoThread

LEMMA DetachCallBase ==
  ASSUME BaseInv, NEW d \in Thread, NEW t \in Thread, DetachCall(d, t) PROVE BaseInv'
<1>1. PICK x : x = [Nobody EXCEPT !.who = t]
  OBVIOUS
<1>2. /\ Looks(d, t) /\ Goes(d, "detach", x)
      /\ UNCHANGED <<thr, recycle, plist, pcount, finished, sema, sem_pool>>
  BY <1>1 DEF DetachCall, semVars
<1>3. x \in ArgRec /\ x.who = t
  BY <1>1, Arguments
<1>4. /\ at[d] = "run" /\ thr[t].kport /\ wild' \in SUBSET Thread
      /\ spoiled' \in BOOLEAN
  BY <1>2, LooksAt
<1>5. "detach" \in CallPoints /\ plist' \in SUBSET Thread /\ sem_pool' \in Seq(Sem)
  BY <1>2 DEF CallPoints, BaseInv, LifeTypeOK
<1> QED
  BY <1>2, <1>3, <1>4, <1>5, CallsBase

LEMMA CancelCallBase ==
  ASSUME BaseInv, NEW d \in Thread, NEW t \in Thread, CancelCall(d, t) PROVE BaseInv'
<1>1. PICK x : x = [Nobody EXCEPT !.who = t]
  OBVIOUS
<1>2. /\ Looks(d, t) /\ Goes(d, "cancel", x)
      /\ UNCHANGED <<thr, recycle, plist, pcount, finished, sema, sem_pool>>
  BY <1>1 DEF CancelCall, semVars
<1>3. x \in ArgRec /\ x.who = t
  BY <1>1, Arguments
<1>4. /\ at[d] = "run" /\ thr[t].kport /\ wild' \in SUBSET Thread
      /\ spoiled' \in BOOLEAN
  BY <1>2, LooksAt
<1>5. "cancel" \in CallPoints /\ plist' \in SUBSET Thread /\ sem_pool' \in Seq(Sem)
  BY <1>2 DEF CallPoints, BaseInv, LifeTypeOK
<1> QED
  BY <1>2, <1>3, <1>4, <1>5, CallsBase

\* A semaphore is taken from the pool if one is needed.
LEMMA TakesFresh ==
  ASSUME LifeTypeOK, NEW fresh \in BOOLEAN, fresh => InPool(1), NEW s,
         s = IF fresh THEN new_sem_from_pool(1) ELSE NULL,
         sem_pool' = IF fresh THEN Taken(1) ELSE sem_pool
  PROVE  /\ sem_pool' \in Seq(Sem) /\ s \in Sem \cup {NULL} /\ (s = NULL <=> ~fresh)
         /\ Pooled' \subseteq Pooled /\ (s # NULL => s \in Pooled)
         /\ PoolDistinct => PoolDistinct' /\ Pooled' = Pooled \ {s}
<1>1. Pooled \subseteq Sem /\ NULL \notin Sem
  BY SemAssumption DEF Pooled
<1>2. CASE fresh
  BY <1>1, <1>2, TakesOne
<1>3. CASE ~fresh
  BY <1>1, <1>3 DEF LifeTypeOK, PoolDistinct, Pooled
<1> QED
  BY <1>2, <1>3

LEMMA JoinCallBase ==
  ASSUME BaseInv, NEW j \in Thread, NEW t \in Thread, JoinCall(j, t) PROVE BaseInv'
<1>1. PICK fresh \in BOOLEAN : fresh = (~NewStyle(t) \/ thr[t].notify = NULL)
  OBVIOUS
<1>2. PICK s : s = IF fresh THEN new_sem_from_pool(1) ELSE NULL
  OBVIOUS
<1>3. PICK x : x = [who |-> t, flag |-> FALSE, sem |-> s]
  OBVIOUS
<1>4. /\ Looks(j, t) /\ (fresh => InPool(1)) /\ Goes(j, "join", x)
      /\ sem_pool' = IF fresh THEN Taken(1) ELSE sem_pool
      /\ UNCHANGED <<thr, plist, pcount, recycle, finished, sema>>
  BY <1>1, <1>2, <1>3 DEF JoinCall
<1>5. /\ sem_pool' \in Seq(Sem) /\ s \in Sem \cup {NULL} /\ (s = NULL <=> ~fresh)
  BY <1>2, <1>4, TakesFresh DEF BaseInv
<1>6. x \in ArgRec /\ x.who = t /\ x.sem = s
  BY <1>3, <1>5 DEF ArgRec
<1>7. /\ at[j] = "run" /\ thr[t].kport /\ wild' \in SUBSET Thread
      /\ spoiled' \in BOOLEAN
  BY <1>4, LooksAt
<1>8. "join" \in CallPoints /\ plist' \in SUBSET Thread
  BY <1>4 DEF CallPoints, BaseInv, LifeTypeOK
<1> QED
  BY <1>1, <1>4, <1>5, <1>6, <1>7, <1>8, CallsBase

LEMMA DetachJoinBase ==
  ASSUME BaseInv, NEW d \in Thread, DetachJoin(d) PROVE BaseInv'
<1>1. PICK t : t = arg[d].who
  OBVIOUS
<1>2. at[d] = "rejoin" /\ at[d] \in CallPoints
  BY DEF DetachJoin, CallPoints
<1>3. t \in Thread /\ thr[t].kport /\ arg[d] \in ArgRec
  BY <1>1, <1>2, CallsWhom
<1>4. spoiled' \in BOOLEAN /\ UNCHANGED <<thr, plist, pcount, recycle, finished, sema>>
  BY DEF DetachJoin, BaseInv, LifeTypeOK
<1>5. CASE t \in plist /\ thr[t].joinable
  <2>1. PICK fresh \in BOOLEAN : fresh = (~NewStyle(t) \/ thr[t].notify = NULL)
    OBVIOUS
  <2>2. PICK s : s = IF fresh THEN new_sem_from_pool(1) ELSE NULL
    OBVIOUS
  <2>3. PICK x : x = [arg[d] EXCEPT !.sem = s]
    OBVIOUS
  <2>4. /\ (fresh => InPool(1)) /\ Goes(d, "join", x) /\ Touches({t})
        /\ sem_pool' = IF fresh THEN Taken(1) ELSE sem_pool
    BY <1>1, <1>5, <2>1, <2>2, <2>3 DEF DetachJoin
  <2>5. /\ sem_pool' \in Seq(Sem) /\ s \in Sem \cup {NULL} /\ (s = NULL <=> ~fresh)
    BY <2>2, <2>4, TakesFresh DEF BaseInv
  <2>6. x \in ArgRec /\ x.who = t /\ x.sem = s
    BY <1>1, <1>3, <2>3, <2>5 DEF ArgRec
  <2>7. /\ wild' \in SUBSET Thread /\ "join" \in CallPoints /\ plist' \in SUBSET Thread
    BY <1>3, <1>4, <2>4 DEF BaseInv, LifeTypeOK, Touches, CallPoints
  <2> QED
    BY <1>2, <1>3, <1>4, <2>1, <2>4, <2>5, <2>6, <2>7, CallsBase
<1>6. CASE ~(t \in plist /\ thr[t].joinable)
  <2>1. Goes(d, "run", Nobody) /\ UNCHANGED <<sem_pool, wild>>
    BY <1>1, <1>6 DEF DetachJoin
  <2>2. wild' \in SUBSET Thread /\ sema' \in [Sem -> SemRec] /\ sem_pool' \in Seq(Sem)
    BY <1>4, <2>1 DEF BaseInv, LifeTypeOK
  <2> QED
    BY <1>2, <1>4, <2>1, <2>2, ReturnsBase
<1> QED
  BY <1>5, <1>6

LEMMA JoinUnlinkBase ==
  ASSUME BaseInv, NEW j \in Thread, JoinUnlink(j) PROVE BaseInv'
<1>1. PICK t, x : t = arg[j].who /\ x = [arg[j] EXCEPT !.flag = TRUE]
  OBVIOUS
<1>2. /\ at[j] \in {"wait", "reap"} /\ at[j] \in CallPoints /\ ~NewStyle(t)
      /\ Goes(j, "reap", x) /\ "reap" \in CallPoints
      /\ plist' = plist \ {t} /\ wild' \in {wild, wild \cup {t}}
      /\ UNCHANGED <<thr, pcount, recycle, finished, spoiled, sema, sem_pool>>
  BY <1>1 DEF JoinUnlink, CallPoints, semVars
<1>3. /\ t \in Thread /\ thr[t].kport /\ arg[j] \in ArgRec /\ HandsAt(j)
  BY <1>1, <1>2, CallsWhom
<1>4. x \in ArgRec /\ x.who = t /\ x.sem = arg[j].sem /\ x.sem # NULL
  BY <1>1, <1>2, <1>3 DEF ArgRec, HandsAt
<1>5. /\ plist' \in SUBSET Thread /\ wild' \in SUBSET Thread /\ spoiled' \in BOOLEAN
      /\ sem_pool' \in Seq(Sem)
  BY <1>2, <1>3 DEF BaseInv, LifeTypeOK
<1> QED
  BY <1>2, <1>3, <1>4, <1>5, CallsBase

\* What a call may do to the structure of the thread it is about.
Edited(t, r) ==
  /\ r \in ThreadRec /\ r.kind = thr[t].kind /\ r.parentcheck = thr[t].parentcheck
  /\ r.childrun = thr[t].childrun /\ r.childexit = thr[t].childexit
  /\ r.exited = thr[t].exited /\ r.kport = thr[t].kport
  /\ r.notify = thr[t].notify \/ thr[t].notify = NULL
  /\ r.mem = thr[t].mem \/ r.mem = "freed"
  /\ r.joinable = thr[t].joinable \/ (~r.joinable /\ ~thr[t].exited)

LEMMA EditsBase ==
  ASSUME BaseInv, NEW a \in Thread, at[a] \in CallPoints,
         NEW l \in {"run"} \cup CallPoints, NEW x \in ArgRec, Goes(a, l, x),
         NEW t \in Thread, t = arg[a].who, NEW r, Edited(t, r),
         thr' = [thr EXCEPT ![t] = r],
         UNCHANGED <<recycle, pcount, finished, spoiled>>,
         plist' \in SUBSET Thread, wild' \in SUBSET Thread,
         sema' \in [Sem -> SemRec], sem_pool' \in Seq(Sem),
         l # "run" => x.who = t, l \in {"wait", "reap"} => x.sem # NULL,
         l = "reap" => ~NewStyle(t), l # "join"
  PROVE  BaseInv'
<1>1. l \in Points /\ LifeTypeOK /\ r \in ThreadRec
  BY DEF Points, BaseInv, Edited
<1>2. /\ at' \in [Thread -> Points] /\ arg' \in [Thread -> ArgRec]
      /\ at'[a] = l /\ arg'[a] = x
      /\ \A u \in Thread : u # a => at'[u] = at[u] /\ arg'[u] = arg[u]
  BY <1>1, GoesTo
<1>3. /\ thr' \in [Thread -> ThreadRec] /\ thr'[t] = r
      /\ \A u \in Thread : u # t => thr'[u] = thr[u]
  BY <1>1, ChangesThread
<1>4. LifeTypeOK'
  BY <1>1, <1>2, <1>3 DEF LifeTypeOK
<1>5. thr[t].kport /\ thr[t].kind # "none" /\ FlagsAt(t) /\ FlagsAt(a)
  BY CallsWhom
<1>6. HandsAt(a)'
  BY <1>2, <1>3, <1>5 DEF HandsAt, CallPoints, NewStyle, Edited
<1>7. \A u \in Thread : Lasts(u)
  BY <1>3 DEF Lasts, Edited
<1>8. ASSUME NEW u \in Thread PROVE Keeps(u)
  <2>1. CASE u = t
    BY <1>3, <1>5, <2>1 DEF Keeps, Edited
  <2>2. CASE u # t
    BY <1>3, <2>2 DEF Keeps
  <2> QED
    BY <2>1, <2>2
<1>9. at[a] \notin {"create", "dead"} /\ at'[a] # "create"
  BY <1>2 DEF CallPoints
<1>10. FlagsAt(a)'
  <2>1. Keeps(a) /\ Lasts(a) /\ thr'[a] \in ThreadRec /\ thr[a] \in ThreadRec
    BY <1>1, <1>3, <1>7, <1>8 DEF LifeTypeOK
  <2>2. thr[a].kind # "none"
    BY <1>5 DEF FlagsAt, CallPoints
  <2> QED
    BY <1>2, <1>5, <2>1, <2>2 DEF FlagsAt, Keeps, Lasts, CallPoints, ThreadRec
<1>11. DetachedAt(a)'
  BY <1>2 DEF DetachedAt, CallPoints
<1>12. Recycled' = Recycled /\ a \notin Recycled
  BY <1>9 DEF Recycled, BaseInv, StageInv, RecycledAt
<1> QED
  BY <1>2, <1>4, <1>6, <1>7, <1>8, <1>9, <1>10, <1>11, <1>12, OthersStage

LEMMA EditsReturn ==
  ASSUME BaseInv, NEW a \in Thread, at[a] \in CallPoints, Goes(a, "run", Nobody),
         NEW t \in Thread, t = arg[a].who, NEW r, Edited(t, r),
         thr' = [thr EXCEPT ![t] = r],
         UNCHANGED <<recycle, pcount, finished, spoiled>>,
         plist' \in SUBSET Thread, wild' \in SUBSET Thread,
         sema' \in [Sem -> SemRec], sem_pool' \in Seq(Sem)
  PROVE  BaseInv'
<1>1. Nobody \in ArgRec
  BY Arguments
<1>2. "run" \in {"run"} \cup CallPoints
  OBVIOUS
<1>3. /\ ("run" # "run" => Nobody.who = t)
      /\ ("run" \in {"wait", "reap"} => Nobody.sem # NULL)
      /\ ("run" = "reap" => ~NewStyle(t)) /\ "run" # "join"
  OBVIOUS
<1> QED
  BY <1>1, <1>2, <1>3, EditsBase

LEMMA CancelLockedBase ==
  ASSUME BaseInv, NEW c \in Thread, CancelLocked(c) PROVE BaseInv'
<1>1. PICK t, r : t = arg[c].who /\ r = [thr[t] EXCEPT !.pending = TRUE]
  OBVIOUS
<1>2. /\ at[c] \in CallPoints /\ Goes(c, "run", Nobody) /\ Touches({t})
      /\ UNCHANGED <<plist, pcount, recycle, finished, spoiled, sema, sem_pool>>
  BY <1>1 DEF CancelLocked, CallPoints, semVars
<1>3. t \in Thread /\ thr[t] \in ThreadRec
  BY <1>1, <1>2, CallsWhom
<1>4. thr' = [thr EXCEPT ![t] = r]
  BY <1>1 DEF CancelLocked
<1>5. Edited(t, r)
  BY <1>1, <1>3 DEF Edited, ThreadRec
<1>6. /\ wild' \in SUBSET Thread /\ plist' \in SUBSET Thread
      /\ sema' \in [Sem -> SemRec] /\ sem_pool' \in Seq(Sem)
  BY <1>2, <1>3 DEF BaseInv, LifeTypeOK, Touches
<1>7. UNCHANGED <<recycle, pcount, finished, spoiled>>
  BY <1>2
<1> QED
  BY <1>1, <1>2, <1>3, <1>4, <1>5, <1>6, <1>7, EditsReturn

LEMMA DetachLockedBase ==
  ASSUME BaseInv, NEW d \in Thread, DetachLocked(d) PROVE BaseInv'
<1>1. PICK t : t = arg[d].who
  OBVIOUS
<1>2. /\ at[d] = "detach" /\ at[d] \in CallPoints /\ Touches({t})
      /\ UNCHANGED <<plist, pcount, recycle, finished, spoiled, sema, sem_pool>>
  BY <1>1 DEF DetachLocked, CallPoints, semVars
<1>3. t \in Thread /\ thr[t] \in ThreadRec /\ arg[d] \in ArgRec /\ thr[t].kport
  BY <1>1, <1>2, CallsWhom
<1>4. /\ wild' \in SUBSET Thread /\ plist' \in SUBSET Thread
      /\ sema' \in [Sem -> SemRec] /\ sem_pool' \in Seq(Sem) /\ spoiled' \in BOOLEAN
  BY <1>2, <1>3 DEF BaseInv, LifeTypeOK, Touches
<1>5. CASE thr[t].joinable /\ ~thr[t].exited
  <2>1. PICK r, x : r = [thr[t] EXCEPT !.joinable = FALSE]
                    /\ x = [arg[d] EXCEPT !.sem = thr[t].notify]
    OBVIOUS
  <2>2. thr' = [thr EXCEPT ![t] = r] /\ Goes(d, "signal", x)
    BY <1>1, <1>5, <2>1 DEF DetachLocked
  <2>3. Edited(t, r)
    BY <1>3, <1>5, <2>1 DEF Edited, ThreadRec
  <2>4. x \in ArgRec /\ x.who = t
    BY <1>1, <1>3, <2>1 DEF ArgRec, ThreadRec
  <2>5. "signal" \in {"run"} \cup CallPoints
    BY DEF CallPoints
  <2>6. UNCHANGED <<recycle, pcount, finished, spoiled>>
    BY <1>2
  <2> QED
    BY <1>1, <1>2, <1>3, <1>4, <2>2, <2>3, <2>4, <2>5, <2>6, EditsBase
<1>6. CASE thr[t].joinable /\ thr[t].exited
  <2>1. thr' = thr /\ Goes(d, "rejoin", arg[d]) /\ "rejoin" \in CallPoints
    BY <1>1, <1>6 DEF DetachLocked, CallPoints
  <2> QED
    BY <1>1, <1>2, <1>3, <1>4, <2>1, CallsBase
<1>7. CASE ~thr[t].joinable
  <2>1. thr' = thr /\ Goes(d, "run", Nobody)
    BY <1>1, <1>7 DEF DetachLocked
  <2> QED
    BY <1>2, <1>4, <2>1, ReturnsBase
<1> QED
  BY <1>5, <1>6, <1>7

LEMMA JoinReapOldBase ==
  ASSUME BaseInv, NEW j \in Thread, JoinReapOld(j) PROVE BaseInv'
<1>1. PICK t, r : t = arg[j].who /\ r = [thr[t] EXCEPT !.mem = "freed"]
  OBVIOUS
<1>2. /\ at[j] = "reap" /\ at[j] \in CallPoints /\ Goes(j, "run", Nobody) /\ Touches({t})
      /\ sem_pool' = Restored(arg[j].sem)
      /\ UNCHANGED <<plist, pcount, recycle, finished, spoiled, sema>>
  BY <1>1 DEF JoinReapOld, CallPoints
<1>3. t \in Thread /\ thr[t] \in ThreadRec /\ arg[j] \in ArgRec /\ arg[j].sem # NULL
  BY <1>1, <1>2, CallsWhom DEF HandsAt
<1>4. thr' = [thr EXCEPT ![t] = r]
  BY <1>1 DEF JoinReapOld, Freed
<1>5. Edited(t, r)
  BY <1>1, <1>3 DEF Edited, ThreadRec
<1>6. /\ wild' \in SUBSET Thread /\ plist' \in SUBSET Thread
      /\ sema' \in [Sem -> SemRec]
  BY <1>2, <1>3 DEF BaseInv, LifeTypeOK, Touches
<1>7. arg[j].sem \in Sem /\ LifeTypeOK
  BY <1>3 DEF ArgRec, BaseInv
<1>8. sem_pool' \in Seq(Sem)
  BY <1>2, <1>7, RestoresOne
<1>9. UNCHANGED <<recycle, pcount, finished, spoiled>>
  BY <1>2
<1> QED
  BY <1>1, <1>2, <1>3, <1>4, <1>5, <1>6, <1>8, <1>9, EditsReturn

LEMMA JoinReapBase ==
  ASSUME BaseInv, NEW j \in Thread, JoinReap(j) PROVE BaseInv'
<1>1. PICK t, r : t = arg[j].who /\ r = [thr[t] EXCEPT !.mem = "freed"]
  OBVIOUS
<1>2. /\ at[j] = "wait" /\ at[j] \in CallPoints /\ Goes(j, "run", Nobody)
      /\ Touches(IF t \in plist THEN {t} ELSE {})
      /\ sem_pool' = Restored(arg[j].sem)
      /\ UNCHANGED <<pcount, recycle, finished, spoiled, sema>>
      /\ plist' \in {plist, plist \ {t}}
  BY <1>1 DEF JoinReap, CallPoints
<1>3. t \in Thread /\ thr[t] \in ThreadRec /\ arg[j] \in ArgRec /\ arg[j].sem # NULL
  BY <1>1, <1>2, CallsWhom DEF HandsAt
<1>4. PICK q : q = IF t \in plist /\ thr[t].joinable THEN r ELSE thr[t]
  OBVIOUS
<1>5. thr' = [thr EXCEPT ![t] = q]
  BY <1>1, <1>3, <1>4 DEF JoinReap, Freed, BaseInv, LifeTypeOK
<1>6. Edited(t, q)
  <2>1. Edited(t, r)
    BY <1>1, <1>3 DEF Edited, ThreadRec
  <2>2. Edited(t, thr[t])
    BY <1>3 DEF Edited
  <2> QED
    BY <1>4, <2>1, <2>2
<1>7. /\ wild' \in SUBSET Thread /\ plist' \in SUBSET Thread
      /\ sema' \in [Sem -> SemRec]
  BY <1>2, <1>3 DEF BaseInv, LifeTypeOK, Touches
<1>8. arg[j].sem \in Sem /\ LifeTypeOK
  BY <1>3 DEF ArgRec, BaseInv
<1>9. sem_pool' \in Seq(Sem)
  BY <1>2, <1>8, RestoresOne
<1>10. UNCHANGED <<recycle, pcount, finished, spoiled>>
  BY <1>2
<1> QED
  BY <1>1, <1>2, <1>3, <1>5, <1>6, <1>7, <1>9, <1>10, EditsReturn

LEMMA JoinLockedBase ==
  ASSUME BaseInv, NEW j \in Thread, JoinLocked(j) PROVE BaseInv'
<1>1. PICK t, s, r, x :
        /\ t = arg[j].who /\ s = JoinSem(t, arg[j].sem)
        /\ r = [thr[t] EXCEPT !.notify = s, !.joiner = j]
        /\ x = [arg[j] EXCEPT !.sem = s]
  OBVIOUS
<1>2. /\ at[j] = "join" /\ at[j] \in CallPoints /\ Touches({t})
      /\ UNCHANGED <<plist, pcount, recycle, finished, spoiled>>
      /\ thr' = [thr EXCEPT ![t].notify = s, ![t].joiner = j]
      /\ IF ~NewStyle(t) /\ thr[t].exited
         THEN sema' = sema /\ Goes(j, "reap", x)
         ELSE sema' = Waited(sema, s, j) /\ Goes(j, "wait", x)
      /\ \/ sem_pool' = sem_pool
         \/ arg[j].sem # NULL /\ sem_pool' = Restored(arg[j].sem)
  BY <1>1 DEF JoinLocked, CallPoints
<1>3. /\ t \in Thread /\ thr[t] \in ThreadRec /\ arg[j] \in ArgRec /\ LifeTypeOK
      /\ thr[t].notify = NULL => arg[j].sem # NULL
  BY <1>1, <1>2, CallsWhom DEF HandsAt, BaseInv
<1>4. s \in Sem /\ (thr[t].notify # NULL => s = thr[t].notify)
  BY <1>1, <1>3 DEF JoinSem, ArgRec, ThreadRec
<1>5. thr' = [thr EXCEPT ![t] = r]
  BY <1>1, <1>2, <1>3 DEF LifeTypeOK
<1>6. Edited(t, r)
  BY <1>1, <1>3, <1>4 DEF Edited, ThreadRec
<1>7. x \in ArgRec /\ x.who = t /\ x.sem = s /\ s # NULL
  BY <1>1, <1>3, <1>4, SemAssumption DEF ArgRec
<1>8. /\ wild' \in SUBSET Thread /\ plist' \in SUBSET Thread
  BY <1>2, <1>3 DEF LifeTypeOK, Touches
<1>9. sema' \in [Sem -> SemRec]
  <2>1. sema \in [Sem -> SemRec]
    BY <1>3 DEF LifeTypeOK
  <2>2. Waited(sema, s, j) \in [Sem -> SemRec]
    BY <1>4, <2>1, WaitedSem
  <2> QED
    BY <1>2, <2>1, <2>2
<1>10. sem_pool' \in Seq(Sem)
  BY <1>2, <1>3, RestoresOne DEF LifeTypeOK, ArgRec
<1>11. /\ "wait" \in {"run"} \cup CallPoints /\ "reap" \in {"run"} \cup CallPoints
       /\ UNCHANGED <<recycle, pcount, finished, spoiled>>
       /\ t = arg[j].who /\ at[j] \in CallPoints /\ t \in Thread
  BY <1>1, <1>2, <1>3 DEF CallPoints
<1>12. CASE ~NewStyle(t) /\ thr[t].exited
  <2>1. Goes(j, "reap", x)
    BY <1>2, <1>12
  <2> QED
    BY <1>5, <1>6, <1>7, <1>8, <1>9, <1>10, <1>11, <1>12, <2>1, EditsBase
<1>13. CASE ~(~NewStyle(t) /\ thr[t].exited)
  <2>1. Goes(j, "wait", x)
    BY <1>2, <1>13
  <2> QED
    BY <1>5, <1>6, <1>7, <1>8, <1>9, <1>10, <1>11, <2>1, EditsBase
<1> QED
  BY <1>12, <1>13

\* A step of a thread on its own structure.
LEMMA SelfBase ==
  ASSUME BaseInv, LifeTypeOK', NEW a \in Thread, at[a] \notin {"create", "dead"},
         NEW l \in Points \ {"create"}, NEW x \in ArgRec, Goes(a, l, x),
         NEW r \in ThreadRec, thr' = [thr EXCEPT ![a] = r],
         r.kind = thr[a].kind, r.parentcheck = thr[a].parentcheck,
         thr[a].kport => r.kport, thr[a].notify # NULL => r.notify # NULL,
         Recycled' \subseteq Recycled \cup {a},
         a \in Recycled' => l = "dead" /\ ~NewStyle(a),
         FlagsAt(a)', HandsAt(a)', DetachedAt(a)'
  PROVE  BaseInv'
<1>1. /\ at'[a] = l
      /\ \A u \in Thread : u # a => at'[u] = at[u] /\ arg'[u] = arg[u]
  BY GoesTo DEF BaseInv
<1>2. thr'[a] = r /\ \A u \in Thread : u # a => thr'[u] = thr[u]
  BY ChangesThread DEF BaseInv
<1>3. \A u \in Thread : Lasts(u)
  BY <1>2 DEF Lasts
<1>4. \A u \in Thread : u # a => Keeps(u)
  BY <1>2 DEF Keeps
<1> QED
  BY <1>1, <1>3, <1>4, OthersStage

LEMMA StartBase == ASSUME BaseInv, NEW t \in Thread, Start(t) PROVE BaseInv'
<1>1. PICK r0 : r0 = IF thr[t].kind = "kernel" THEN StructInit(thr[t], arg[t].flag)
                    ELSE thr[t]
  OBVIOUS
<1>2. PICK r : r = [r0 EXCEPT !.kport = TRUE, !.childrun = TRUE]
  OBVIOUS
<1>3. /\ at[t] = "start" /\ NewStyle(t) /\ Goes(t, "run", Nobody) /\ Touches({t})
      /\ thr' = [thr EXCEPT ![t] = r]
      /\ plist' \in {plist, plist \cup {t}} /\ pcount' \in {pcount, pcount + 1}
      /\ UNCHANGED <<recycle, finished, spoiled, sema, sem_pool>>
  BY <1>1, <1>2 DEF Start, semVars
<1>4. thr[t] \in ThreadRec /\ arg[t] \in ArgRec /\ LifeTypeOK /\ FlagsAt(t)
  BY DEF BaseInv, LifeTypeOK, StageInv
<1>5. /\ r0 \in ThreadRec /\ r0.kind = thr[t].kind /\ r0.parentcheck = thr[t].parentcheck
      /\ r0.notify = thr[t].notify /\ r0.mem = thr[t].mem /\ r0.exited = thr[t].exited
      /\ r0.childexit = thr[t].childexit
  BY <1>1, <1>4 DEF StructInit, ThreadRec, ArgRec
<1>6. /\ r \in ThreadRec /\ r.kind = thr[t].kind /\ r.parentcheck = thr[t].parentcheck
      /\ r.notify = thr[t].notify /\ r.mem = thr[t].mem /\ r.exited = thr[t].exited
      /\ r.childexit = thr[t].childexit /\ r.kport /\ r.childrun
  BY <1>2, <1>5 DEF ThreadRec
<1>7. Nobody \in ArgRec /\ "run" \in Points \ {"create"}
  BY Arguments DEF Points
<1>8. /\ at' \in [Thread -> Points] /\ arg' \in [Thread -> ArgRec]
      /\ at'[t] = "run" /\ arg'[t] = Nobody
  BY <1>3, <1>4, <1>7, GoesTo
<1>9. thr' \in [Thread -> ThreadRec] /\ thr'[t] = r
  BY <1>3, <1>4, <1>6, ChangesThread
<1>10. LifeTypeOK'
  BY <1>3, <1>4, <1>8, <1>9 DEF LifeTypeOK, Touches
<1>11. thr[t].kind \notin {"none", "old"}
  BY <1>3, <1>4 DEF FlagsAt, NewStyle
<1>12. FlagsAt(t)'
  BY <1>3, <1>4, <1>6, <1>8, <1>9, <1>11 DEF FlagsAt
<1>13. HandsAt(t)' /\ DetachedAt(t)'
  BY <1>8 DEF HandsAt, DetachedAt, CallPoints
<1>14. Recycled' = Recycled /\ t \notin Recycled
  BY <1>3 DEF Recycled, BaseInv, StageInv, RecycledAt
<1> QED
  BY <1>3, <1>6, <1>7, <1>10, <1>12, <1>13, <1>14, SelfBase

LEMMA ExitLockedBase == ASSUME BaseInv, NEW t \in Thread, ExitLocked(t) PROVE BaseInv'
<1>1. PICK r, x :
        /\ r = [thr[t] EXCEPT !.exited = TRUE,
                              !.notify = IF LeavesSem(t) THEN arg[t].sem ELSE @]
        /\ x = [Nobody EXCEPT !.flag = ~thr[t].joinable]
  OBVIOUS
<1>2. thr[t] \in ThreadRec /\ arg[t] \in ArgRec /\ LifeTypeOK /\ FlagsAt(t) /\ HandsAt(t)
  BY DEF BaseInv, LifeTypeOK, StageInv
<1>3. /\ at[t] = "exit" /\ NewStyle(t) /\ Goes(t, "free", x) /\ Touches({t})
      /\ thr' = [thr EXCEPT ![t] = r]
      /\ sem_pool' = IF LeavesSem(t) \/ arg[t].sem = NULL THEN sem_pool
                     ELSE Restored(arg[t].sem)
      /\ UNCHANGED <<plist, pcount, recycle, finished, spoiled, sema>>
  BY <1>1, <1>2 DEF ExitLocked, LifeTypeOK
<1>4. /\ r \in ThreadRec /\ r.kind = thr[t].kind /\ r.parentcheck = thr[t].parentcheck
      /\ r.mem = thr[t].mem /\ r.exited = TRUE /\ r.joinable = thr[t].joinable
      /\ r.childrun = thr[t].childrun /\ r.childexit = thr[t].childexit
      /\ r.kport = thr[t].kport
      /\ r.notify = IF LeavesSem(t) THEN arg[t].sem ELSE thr[t].notify
  BY <1>1, <1>2 DEF ThreadRec, ArgRec
<1>5. LeavesSem(t) => arg[t].sem # NULL /\ thr[t].notify = NULL
  BY <1>2, <1>3 DEF HandsAt, LeavesSem
<1>6. x \in ArgRec /\ x.flag = ~thr[t].joinable /\ "free" \in Points \ {"create"}
  BY <1>1, <1>2, Arguments DEF Points, ThreadRec
<1>7. /\ at' \in [Thread -> Points] /\ arg' \in [Thread -> ArgRec]
      /\ at'[t] = "free" /\ arg'[t] = x
  BY <1>2, <1>3, <1>6, GoesTo
<1>8. thr' \in [Thread -> ThreadRec] /\ thr'[t] = r
  BY <1>2, <1>3, <1>4, ChangesThread
<1>9. sem_pool' \in Seq(Sem)
  <2>1. arg[t].sem \in Sem \cup {NULL}
    BY <1>2 DEF ArgRec
  <2> QED
    BY <1>2, <1>3, <2>1, RestoresOne DEF LifeTypeOK
<1>10. LifeTypeOK'
  BY <1>2, <1>3, <1>7, <1>8, <1>9 DEF LifeTypeOK, Touches
<1>11. thr[t].kind \notin {"none", "old"}
  BY <1>2, <1>3 DEF FlagsAt, NewStyle
<1>12. FlagsAt(t)'
  BY <1>2, <1>3, <1>4, <1>6, <1>7, <1>8, <1>11 DEF FlagsAt
<1>13. HandsAt(t)' /\ DetachedAt(t)'
  BY <1>7 DEF HandsAt, DetachedAt, CallPoints
<1>14. Recycled' = Recycled /\ t \notin Recycled
  BY <1>3 DEF Recycled, BaseInv, StageInv, RecycledAt
<1>15. thr[t].notify # NULL => r.notify # NULL
  BY <1>4, <1>5
<1> QED
  BY <1>3, <1>4, <1>6, <1>10, <1>12, <1>13, <1>14, <1>15, SelfBase

LEMMA ExitOldBase == ASSUME BaseInv, NEW t \in Thread, ExitOld(t) PROVE BaseInv'
<1>1. PICK r, x : /\ r = [thr[t] EXCEPT !.exited = TRUE]
                  /\ x = [Nobody EXCEPT !.flag = ~thr[t].joinable]
  OBVIOUS
<1>2. thr[t] \in ThreadRec /\ arg[t] \in ArgRec /\ LifeTypeOK /\ FlagsAt(t)
  BY DEF BaseInv, LifeTypeOK, StageInv
<1>3. /\ at[t] = "exit" /\ ~NewStyle(t) /\ Goes(t, "oldfree", x) /\ Touches({t})
      /\ thr' = [thr EXCEPT ![t] = r]
      /\ sema' = IF thr[t].joinable /\ thr[t].notify # NULL
                 THEN Signalled(sema, thr[t].notify) ELSE sema
      /\ UNCHANGED <<plist, pcount, recycle, finished, spoiled, sem_pool>>
  BY <1>1, <1>2 DEF ExitOld, LifeTypeOK
<1>4. /\ r \in ThreadRec /\ r.kind = thr[t].kind /\ r.parentcheck = thr[t].parentcheck
      /\ r.mem = thr[t].mem /\ r.exited = TRUE /\ r.joinable = thr[t].joinable
      /\ r.childrun = thr[t].childrun /\ r.childexit = thr[t].childexit
      /\ r.kport = thr[t].kport /\ r.notify = thr[t].notify
  BY <1>1, <1>2 DEF ThreadRec
<1>6. x \in ArgRec /\ x.flag = ~thr[t].joinable /\ "oldfree" \in Points \ {"create"}
  BY <1>1, <1>2, Arguments DEF Points, ThreadRec
<1>7. /\ at' \in [Thread -> Points] /\ arg' \in [Thread -> ArgRec]
      /\ at'[t] = "oldfree" /\ arg'[t] = x
  BY <1>2, <1>3, <1>6, GoesTo
<1>8. thr' \in [Thread -> ThreadRec] /\ thr'[t] = r
  BY <1>2, <1>3, <1>4, ChangesThread
<1>9. sema' \in [Sem -> SemRec]
  <2>1. thr[t].notify \in Sem \cup {NULL} /\ sema \in [Sem -> SemRec]
    BY <1>2 DEF ThreadRec, LifeTypeOK
  <2> QED
    BY <1>3, <2>1, SignalledSem
<1>10. LifeTypeOK'
  BY <1>2, <1>3, <1>7, <1>8, <1>9 DEF LifeTypeOK, Touches
<1>11. thr[t].kind = "old"
  BY <1>2, <1>3 DEF NewStyle
<1>12. FlagsAt(t)'
  BY <1>2, <1>3, <1>4, <1>6, <1>7, <1>8, <1>11 DEF FlagsAt
<1>13. HandsAt(t)' /\ DetachedAt(t)'
  BY <1>7 DEF HandsAt, DetachedAt, CallPoints
<1>14. Recycled' = Recycled /\ t \notin Recycled
  BY <1>3 DEF Recycled, BaseInv, StageInv, RecycledAt
<1> QED
  BY <1>3, <1>4, <1>6, <1>10, <1>12, <1>13, <1>14, SelfBase

LEMMA ExitFreeBase == ASSUME BaseInv, NEW t \in Thread, ExitFree(t) PROVE BaseInv'
<1>1. PICK r, f, x :
        /\ r = [thr[t] EXCEPT !.childexit = TRUE,
                  !.mem = IF arg[t].flag /\ ~FreeStackOnExit(t) THEN "freed" ELSE @]
        /\ f = (arg[t].flag /\ FreeStackOnExit(t) /\ ParentDone(t))
        /\ x = [Nobody EXCEPT !.sem = thr[t].notify, !.flag = f]
  OBVIOUS
<1>2. /\ thr[t] \in ThreadRec /\ arg[t] \in ArgRec /\ LifeTypeOK /\ FlagsAt(t)
  BY DEF BaseInv, LifeTypeOK, StageInv
<1>3. /\ at[t] = "free" /\ Goes(t, "term", x) /\ Touches({t})
      /\ thr' = [thr EXCEPT ![t] = r]
      /\ plist' \in {plist, plist \ {t}} /\ pcount' = pcount - 1
      /\ finished' = (pcount' <= 0)
      /\ UNCHANGED <<recycle, spoiled, sema, sem_pool>>
  BY <1>1, <1>2 DEF ExitFree, LifeTypeOK, CountOut, semVars
<1>4. /\ r \in ThreadRec /\ r.kind = thr[t].kind /\ r.parentcheck = thr[t].parentcheck
      /\ r.exited = thr[t].exited /\ r.joinable = thr[t].joinable
      /\ r.childrun = thr[t].childrun /\ r.childexit = TRUE
      /\ r.kport = thr[t].kport /\ r.notify = thr[t].notify
      /\ r.mem = IF arg[t].flag /\ thr[t].kind = "user" THEN "freed" ELSE thr[t].mem
  BY <1>1, <1>2 DEF ThreadRec, FreeStackOnExit
<1>5. arg[t].flag = ~thr[t].joinable /\ thr[t].kind \notin {"none", "old"}
  BY <1>2, <1>3 DEF FlagsAt
<1>6. /\ x \in ArgRec /\ x.flag = f /\ x.sem = thr[t].notify /\ "term" \in Points \ {"create"}
      /\ f = (~thr[t].joinable /\ thr[t].kind # "user" /\ thr[t].parentcheck)
  BY <1>1, <1>2, <1>5 DEF Points, ThreadRec, ArgRec, Nobody, FreeStackOnExit, ParentDone
<1>7. /\ at' \in [Thread -> Points] /\ arg' \in [Thread -> ArgRec]
      /\ at'[t] = "term" /\ arg'[t] = x
  BY <1>2, <1>3, <1>6, GoesTo
<1>8. thr' \in [Thread -> ThreadRec] /\ thr'[t] = r
  BY <1>2, <1>3, <1>4, ChangesThread
<1>9. LifeTypeOK'
  BY <1>2, <1>3, <1>7, <1>8 DEF LifeTypeOK, Touches
<1>10. FlagsAt(t)'
  BY <1>2, <1>3, <1>4, <1>5, <1>6, <1>7, <1>8 DEF FlagsAt
<1>11. HandsAt(t)'
  BY <1>7 DEF HandsAt, CallPoints
<1>12. DetachedAt(t)'
  BY <1>4, <1>5, <1>6, <1>7, <1>8 DEF DetachedAt
<1>13. Recycled' = Recycled /\ t \notin Recycled
  BY <1>3 DEF Recycled, BaseInv, StageInv, RecycledAt
<1> QED
  BY <1>3, <1>4, <1>6, <1>9, <1>10, <1>11, <1>12, <1>13, SelfBase

LEMMA TerminateBase == ASSUME BaseInv, NEW t \in Thread, Terminate(t) PROVE BaseInv'
<1>1. PICK r : r = [thr[t] EXCEPT !.mem = IF arg[t].flag THEN "freed" ELSE @]
  OBVIOUS
<1>2. /\ thr[t] \in ThreadRec /\ arg[t] \in ArgRec /\ LifeTypeOK /\ FlagsAt(t)
      /\ DetachedAt(t)
  BY DEF BaseInv, LifeTypeOK, StageInv
<1>3. /\ at[t] = "term" /\ Goes(t, "dead", Nobody)
      /\ sema' = IF arg[t].sem # NULL THEN Signalled(sema, arg[t].sem) ELSE sema
      /\ UNCHANGED <<plist, pcount, recycle, finished, wild, spoiled, sem_pool>>
  BY DEF Terminate
<1>4. /\ r \in ThreadRec /\ r.kind = thr[t].kind /\ r.parentcheck = thr[t].parentcheck
      /\ r.exited = thr[t].exited /\ r.joinable = thr[t].joinable
      /\ r.childrun = thr[t].childrun /\ r.childexit = thr[t].childexit
      /\ r.kport = thr[t].kport /\ r.notify = thr[t].notify
      /\ r.mem = IF arg[t].flag THEN "freed" ELSE thr[t].mem
  BY <1>1, <1>2 DEF ThreadRec
<1>5. thr' = [thr EXCEPT ![t] = r]
  <2>1. CASE arg[t].flag
    BY <1>1, <2>1 DEF Terminate, Freed
  <2>2. CASE ~arg[t].flag
    <3>1. r = thr[t]
      BY <1>1, <1>2, <2>2 DEF ThreadRec
    <3> QED
      BY <1>2, <2>2, <3>1 DEF Terminate, LifeTypeOK
  <2> QED
    BY <2>1, <2>2
<1>6. Nobody \in ArgRec /\ "dead" \in Points \ {"create"}
  BY Arguments DEF Points
<1>7. /\ at' \in [Thread -> Points] /\ arg' \in [Thread -> ArgRec]
      /\ at'[t] = "dead" /\ arg'[t] = Nobody
  BY <1>2, <1>3, <1>6, GoesTo
<1>8. thr' \in [Thread -> ThreadRec] /\ thr'[t] = r
  BY <1>2, <1>4, <1>5, ChangesThread
<1>9. sema' \in [Sem -> SemRec]
  <2>1. arg[t].sem \in Sem \cup {NULL} /\ sema \in [Sem -> SemRec]
    BY <1>2 DEF ArgRec, LifeTypeOK
  <2> QED
    BY <1>3, <2>1, SignalledSem
<1>10. LifeTypeOK'
  BY <1>2, <1>3, <1>7, <1>8, <1>9 DEF LifeTypeOK
<1>11. thr[t].kind \notin {"none", "old"}
  BY <1>2, <1>3 DEF FlagsAt
<1>12. FlagsAt(t)'
  BY <1>2, <1>3, <1>4, <1>7, <1>8, <1>11 DEF FlagsAt
<1>13. HandsAt(t)'
  BY <1>7 DEF HandsAt, CallPoints
<1>14. DetachedAt(t)'
  BY <1>2, <1>3, <1>4, <1>7, <1>8, <1>11 DEF DetachedAt
<1>15. Recycled' = Recycled /\ t \notin Recycled
  BY <1>3 DEF Recycled, BaseInv, StageInv, RecycledAt
<1> QED
  BY <1>3, <1>4, <1>5, <1>6, <1>10, <1>12, <1>13, <1>14, <1>15, SelfBase

LEMMA ExitOldFreeBase == ASSUME BaseInv, NEW t \in Thread, ExitOldFree(t) PROVE BaseInv'
<1>1. thr[t] \in ThreadRec /\ arg[t] \in ArgRec /\ LifeTypeOK /\ FlagsAt(t)
  BY DEF BaseInv, LifeTypeOK, StageInv
<1>2. /\ at[t] = "oldfree" /\ Goes(t, "dead", Nobody) /\ thr' = thr
      /\ plist' \in {plist, plist \ {t}} /\ pcount' = pcount - 1
      /\ wild' \in {wild, wild \cup {t}} /\ finished' = (pcount' <= 0)
      /\ recycle' \in {recycle, Append(recycle, t)}
      /\ UNCHANGED <<spoiled, sema, sem_pool>>
  BY DEF ExitOldFree, semVars
<1>3. thr' = [thr EXCEPT ![t] = thr[t]]
  BY <1>1, <1>2 DEF LifeTypeOK
<1>4. Nobody \in ArgRec /\ "dead" \in Points \ {"create"}
  BY Arguments DEF Points
<1>5. /\ at' \in [Thread -> Points] /\ arg' \in [Thread -> ArgRec]
      /\ at'[t] = "dead" /\ arg'[t] = Nobody
  BY <1>1, <1>2, <1>4, GoesTo
<1>6. recycle' \in Seq(Thread) /\ Recycled' \subseteq Recycled \cup {t}
  <2>1. Len(recycle) \in Nat /\ recycle \in Seq(Thread)
    BY <1>1 DEF LifeTypeOK
  <2>2. CASE recycle' = recycle
    BY <2>1, <2>2 DEF Recycled
  <2>3. CASE recycle' = Append(recycle, t)
    <3>1. /\ recycle' \in Seq(Thread) /\ Len(recycle') = Len(recycle) + 1
          /\ \A i \in 1..Len(recycle) : recycle'[i] = recycle[i]
          /\ recycle'[Len(recycle) + 1] = t
      BY <2>1, <2>3
    <3>2. \A i \in 1..Len(recycle') : i \in 1..Len(recycle) \/ i = Len(recycle) + 1
      BY <2>1, <3>1
    <3> QED
      BY <3>1, <3>2 DEF Recycled
  <2> QED
    BY <1>2, <2>2, <2>3
<1>7. LifeTypeOK'
  BY <1>1, <1>2, <1>5, <1>6 DEF LifeTypeOK
<1>8. ~NewStyle(t) /\ thr[t].kind = "old"
  BY <1>1, <1>2 DEF FlagsAt, NewStyle, ThreadRec
<1>9. FlagsAt(t)'
  BY <1>1, <1>2, <1>5, <1>8 DEF FlagsAt
<1>10. HandsAt(t)'
  BY <1>5 DEF HandsAt, CallPoints
<1>11. DetachedAt(t)'
  BY <1>2, <1>8 DEF DetachedAt
<1> QED
  BY <1>1, <1>2, <1>3, <1>4, <1>6, <1>7, <1>8, <1>9, <1>10, <1>11, SelfBase

\* A thread that sends its structure to the recycle port ends in the same
\* step: whoever reaps finds all of them dead.
LEMMA ReapsAll ==
  ASSUME BaseInv, NEW f, ReapThreads(f)
  PROVE  /\ recycle' = <<>>
         /\ thr' = [u \in Thread |-> IF u \in Recycled THEN [f[u] EXCEPT !.mem = "freed"]
                                     ELSE f[u]]
<1>1. recycle \in Seq(Thread) /\ Len(recycle) \in Nat
  BY DEF BaseInv, LifeTypeOK
<1>2. \A i \in 1..Len(recycle) : recycle[i] \in Thread /\ at[recycle[i]] = "dead"
  BY <1>1 DEF BaseInv, StageInv, RecycledAt, Recycled
<1>3. PICK n : n = DeadPrefix
  OBVIOUS
<1>4. Len(recycle) \in 0..Len(recycle) /\ ~(Len(recycle) < Len(recycle))
  BY <1>1
<1>5. n \in 0..Len(recycle) /\ (n < Len(recycle) => at[recycle[n + 1]] # "dead")
  BY <1>2, <1>3, <1>4 DEF DeadPrefix
<1>6. n = Len(recycle)
  <2>1. CASE n < Len(recycle)
    <3>1. n + 1 \in 1..Len(recycle)
      BY <1>1, <1>5, <2>1
    <3> QED
      BY <1>2, <1>5, <2>1, <3>1
  <2> QED
    BY <1>1, <1>5, <2>1
<1>7. SubSeq(recycle, n + 1, Len(recycle)) = <<>>
  BY <1>1, <1>6
<1>8. recycle' = <<>>
  BY <1>3, <1>7 DEF ReapThreads, PutBack
<1>9. \A u \in Thread : (\E i \in 1..n : recycle[i] = u) <=> u \in Recycled
  BY <1>6 DEF Recycled
<1>10. thr' = [u \in Thread |-> IF \E i \in 1..n : recycle[i] = u
                               THEN [f[u] EXCEPT !.mem = "freed"] ELSE f[u]]
  BY <1>3 DEF ReapThreads
<1> QED
  BY <1>8, <1>9, <1>10

\* What an exiting thread does: it leaves its own structure without
\* cancellation, and frees those on the recycle port.
LEMMA ExitEffect ==
  ASSUME BaseInv, NEW t \in Thread, at[t] # "dead",
         IF NewStyle(t) THEN thr' = Exiting(t) /\ UNCHANGED recycle
         ELSE ReapThreads(Exiting(t))
  PROVE  /\ thr' \in [Thread -> ThreadRec] /\ recycle' \in Seq(Thread)
         /\ Recycled' \subseteq Recycled /\ t \notin Recycled
         /\ thr'[t] = [thr[t] EXCEPT !.enabled = FALSE]
         /\ \A u \in Thread : u # t =>
              \/ thr'[u] = thr[u]
              \/ u \in Recycled /\ thr'[u] = [thr[u] EXCEPT !.mem = "freed"]
<1>1. thr \in [Thread -> ThreadRec] /\ thr[t] \in ThreadRec /\ recycle \in Seq(Thread)
  BY DEF BaseInv, LifeTypeOK
<1>2. PICK r : r = [thr[t] EXCEPT !.enabled = FALSE]
  OBVIOUS
<1>3. r \in ThreadRec
  BY <1>1, <1>2 DEF ThreadRec
<1>4. Exiting(t) = [thr EXCEPT ![t] = r]
  BY <1>2 DEF Exiting
<1>5. t \notin Recycled
  BY DEF BaseInv, StageInv, RecycledAt
<1>6. CASE NewStyle(t)
  BY <1>1, <1>2, <1>3, <1>4, <1>5, <1>6 DEF Recycled
<1>7. CASE ~NewStyle(t)
  <2>1. /\ recycle' = <<>>
        /\ thr' = [u \in Thread |-> IF u \in Recycled
                     THEN [Exiting(t)[u] EXCEPT !.mem = "freed"] ELSE Exiting(t)[u]]
    BY <1>7, ReapsAll
  <2>2. \A u \in Thread : Exiting(t)[u] \in ThreadRec
    BY <1>1, <1>3, <1>4
  <2>3. \A q \in ThreadRec : [q EXCEPT !.mem = "freed"] \in ThreadRec
    BY DEF ThreadRec
  <2>4. thr' \in [Thread -> ThreadRec]
    BY <2>1, <2>2, <2>3
  <2>5. recycle' \in Seq(Thread) /\ Recycled' = {}
    BY <2>1 DEF Recycled
  <2>6. thr'[t] = r
    BY <1>1, <1>4, <1>5, <2>1
  <2>7. ASSUME NEW u \in Thread, u # t
        PROVE  \/ thr'[u] = thr[u]
               \/ u \in Recycled /\ thr'[u] = [thr[u] EXCEPT !.mem = "freed"]
    <3>1. Exiting(t)[u] = thr[u]
      BY <1>1, <1>4, <2>7
    <3> QED
      BY <2>1, <3>1
  <2> QED
    BY <1>2, <1>5, <2>4, <2>5, <2>6, <2>7
<1> QED
  BY <1>6, <1>7

LEMMA ExitBeginBase ==
  ASSUME BaseInv, NEW t \in Thread, at[t] = "run", ExitBegin(t), UNCHANGED sema
  PROVE  BaseInv'
<1>1. PICK fresh \in BOOLEAN :
        fresh = (NewStyle(t) /\ thr[t].notify = NULL /\ thr[t].joinable)
  BY DEF BaseInv, LifeTypeOK, ThreadRec
<1>2. PICK s, x, r : /\ s = IF fresh THEN new_sem_from_pool(1) ELSE NULL
                     /\ x = [Nobody EXCEPT !.sem = s]
                     /\ r = [thr[t] EXCEPT !.enabled = FALSE]
  OBVIOUS
<1>3. /\ IF NewStyle(t) THEN thr' = Exiting(t) /\ UNCHANGED recycle
         ELSE ReapThreads(Exiting(t))
      /\ (fresh => InPool(1)) /\ sem_pool' = IF fresh THEN Taken(1) ELSE sem_pool
      /\ Goes(t, "exit", x) /\ Touches({t})
      /\ UNCHANGED <<plist, pcount, finished, spoiled>>
  BY <1>1, <1>2 DEF ExitBegin
<1>4. /\ thr[t] \in ThreadRec /\ arg[t] \in ArgRec /\ LifeTypeOK /\ FlagsAt(t)
  BY DEF BaseInv, LifeTypeOK, StageInv
<1>5. /\ thr' \in [Thread -> ThreadRec] /\ recycle' \in Seq(Thread)
      /\ Recycled' \subseteq Recycled /\ t \notin Recycled /\ thr'[t] = r
      /\ \A u \in Thread : u # t =>
           \/ thr'[u] = thr[u]
           \/ u \in Recycled /\ thr'[u] = [thr[u] EXCEPT !.mem = "freed"]
  BY <1>2, <1>3, ExitEffect
<1>6. sem_pool' \in Seq(Sem) /\ s \in Sem \cup {NULL} /\ (s = NULL <=> ~fresh)
  BY <1>2, <1>3, <1>4, TakesFresh
<1>7. x \in ArgRec /\ x.sem = s /\ "exit" \in Points
  BY <1>2, <1>6, Arguments DEF Points
<1>8. /\ at' \in [Thread -> Points] /\ arg' \in [Thread -> ArgRec]
      /\ at'[t] = "exit" /\ arg'[t] = x
      /\ \A u \in Thread : u # t => at'[u] = at[u] /\ arg'[u] = arg[u]
  BY <1>3, <1>4, <1>7, GoesTo
<1>9. LifeTypeOK'
  BY <1>3, <1>4, <1>5, <1>6, <1>8 DEF LifeTypeOK, Touches
<1>10. /\ r \in ThreadRec /\ r.kind = thr[t].kind /\ r.parentcheck = thr[t].parentcheck
       /\ r.mem = thr[t].mem /\ r.exited = thr[t].exited /\ r.joinable = thr[t].joinable
       /\ r.childrun = thr[t].childrun /\ r.childexit = thr[t].childexit
       /\ r.kport = thr[t].kport /\ r.notify = thr[t].notify
  BY <1>2, <1>4 DEF ThreadRec
<1>11. ASSUME NEW u \in Thread, u # t PROVE Lasts(u) /\ Keeps(u)
  <2>1. CASE thr'[u] = thr[u]
    BY <2>1 DEF Lasts, Keeps
  <2>2. CASE u \in Recycled /\ thr'[u] = [thr[u] EXCEPT !.mem = "freed"]
    <3>1. thr[u] \in ThreadRec /\ thr[u].kind # "none"
      BY <1>4, <2>2 DEF LifeTypeOK, BaseInv, StageInv, RecycledAt, FlagsAt
    <3> QED
      BY <2>2, <3>1 DEF Lasts, Keeps, ThreadRec
  <2> QED
    BY <1>5, <1>11, <2>1, <2>2
<1>12. Lasts(t)
  BY <1>5, <1>10 DEF Lasts
<1>13. thr[t].kind # "none"
  BY <1>4 DEF FlagsAt
<1>14. FlagsAt(t)'
  BY <1>4, <1>5, <1>8, <1>10, <1>13 DEF FlagsAt
<1>15. HandsAt(t)'
  BY <1>1, <1>5, <1>6, <1>7, <1>8, <1>10 DEF HandsAt, CallPoints, NewStyle, LeavesSem
<1>16. DetachedAt(t)'
  BY <1>8 DEF DetachedAt
<1>17. at'[t] # "create" /\ at[t] \notin {"create", "dead"} /\ t \notin Recycled'
  BY <1>5, <1>8
<1> QED
  BY <1>5, <1>8, <1>9, <1>11, <1>12, <1>14, <1>15, <1>16, <1>17, OthersStage

\* The structures after the cleanup of a joiner j that is cancelled.
LEMMA CleanupEffect ==
  ASSUME BaseInv, NEW j \in Thread, NEW t \in Thread,
         thr' = [thr EXCEPT ![t].joiner = NULL, ![j].enabled = FALSE]
  PROVE  /\ thr' \in [Thread -> ThreadRec]
         /\ \A u \in Thread :
              /\ thr'[u].kind = thr[u].kind /\ thr'[u].parentcheck = thr[u].parentcheck
              /\ thr'[u].mem = thr[u].mem /\ thr'[u].exited = thr[u].exited
              /\ thr'[u].joinable = thr[u].joinable /\ thr'[u].childrun = thr[u].childrun
              /\ thr'[u].childexit = thr[u].childexit /\ thr'[u].kport = thr[u].kport
              /\ thr'[u].notify = thr[u].notify
         /\ \A u \in Thread : u # j /\ u # t => thr'[u] = thr[u]
<1>1. thr \in [Thread -> ThreadRec]
  BY DEF BaseInv, LifeTypeOK
<1>2. PICK f : f = [thr EXCEPT ![t].joiner = NULL]
  OBVIOUS
<1>3. /\ f \in [Thread -> ThreadRec]
      /\ \A u \in Thread :
           /\ f[u].kind = thr[u].kind /\ f[u].parentcheck = thr[u].parentcheck
           /\ f[u].mem = thr[u].mem /\ f[u].exited = thr[u].exited
           /\ f[u].joinable = thr[u].joinable /\ f[u].childrun = thr[u].childrun
           /\ f[u].childexit = thr[u].childexit /\ f[u].kport = thr[u].kport
           /\ f[u].notify = thr[u].notify
      /\ \A u \in Thread : u # t => f[u] = thr[u]
  <2>1. PICK r : r = [thr[t] EXCEPT !.joiner = NULL]
    OBVIOUS
  <2>2. /\ r \in ThreadRec /\ r.kind = thr[t].kind /\ r.parentcheck = thr[t].parentcheck
        /\ r.mem = thr[t].mem /\ r.exited = thr[t].exited /\ r.joinable = thr[t].joinable
        /\ r.childrun = thr[t].childrun /\ r.childexit = thr[t].childexit
        /\ r.kport = thr[t].kport /\ r.notify = thr[t].notify
    BY <1>1, <2>1 DEF ThreadRec
  <2>3. f = [thr EXCEPT ![t] = r]
    BY <1>2, <2>1
  <2> QED
    BY <1>1, <2>2, <2>3
<1>4. thr' = [f EXCEPT ![j].enabled = FALSE]
  BY <1>2
<1>5. PICK q, r : q = f[j] /\ r = [q EXCEPT !.enabled = FALSE]
  OBVIOUS
<1>6. q \in ThreadRec
  BY <1>3, <1>5
<1>7. /\ r \in ThreadRec /\ r.kind = q.kind /\ r.parentcheck = q.parentcheck
      /\ r.mem = q.mem /\ r.exited = q.exited /\ r.joinable = q.joinable
      /\ r.childrun = q.childrun /\ r.childexit = q.childexit
      /\ r.kport = q.kport /\ r.notify = q.notify
  BY <1>5, <1>6 DEF ThreadRec
<1>8. thr' = [f EXCEPT ![j] = r]
  BY <1>4, <1>5
<1>9. /\ thr' \in [Thread -> ThreadRec] /\ thr'[j] = r
      /\ \A u \in Thread : u # j => thr'[u] = f[u]
  BY <1>3, <1>7, <1>8
<1>10. q = f[j] /\ j \in Thread
  BY <1>5
<1> QED
  BY <1>3, <1>7, <1>9, <1>10

\* The pool after the cleanup.
LEMMA GivesBack ==
  ASSUME NEW q \in Seq(Sem), NEW g \in Seq(Sem)
  PROVE  g \o q \in Seq(Sem)
OBVIOUS

LEMMA JoinCanceledBase ==
  ASSUME BaseInv, NEW j \in Thread, JoinCanceled(j) PROVE BaseInv'
<1>1. PICK fresh \in BOOLEAN :
        fresh = (NewStyle(j) /\ thr[j].notify = NULL /\ thr[j].joinable)
  BY DEF BaseInv, LifeTypeOK, ThreadRec
<1>2. PICK s, x, t : /\ s = IF fresh THEN new_sem_from_pool(1) ELSE NULL
                     /\ x = [Nobody EXCEPT !.sem = s]
                     /\ t = arg[j].who
  OBVIOUS
<1>3. /\ at[j] = "wait" /\ at[j] \in CallPoints
      /\ thr' = [thr EXCEPT ![t].joiner = NULL, ![j].enabled = FALSE]
      /\ Touches({j, t}) /\ (fresh => InPool(1))
      /\ sema' = Left(sema, arg[j].sem, j)
      /\ sem_pool' = GiveBack(t, arg[j].sem) \o (IF fresh THEN Taken(1) ELSE sem_pool)
      /\ Goes(j, "exit", x) /\ spoiled' = (spoiled \/ ~NewStyle(t))
      /\ UNCHANGED <<plist, pcount, recycle, finished>>
  BY <1>1, <1>2 DEF JoinCanceled, CallPoints
<1>4. /\ thr[j] \in ThreadRec /\ arg[j] \in ArgRec /\ LifeTypeOK /\ FlagsAt(j) /\ HandsAt(j)
      /\ t \in Thread
  BY <1>2, <1>3, CallsWhom DEF BaseInv, LifeTypeOK, StageInv
<1>5. /\ thr' \in [Thread -> ThreadRec]
      /\ \A u \in Thread :
              /\ thr'[u].kind = thr[u].kind /\ thr'[u].parentcheck = thr[u].parentcheck
              /\ thr'[u].mem = thr[u].mem /\ thr'[u].exited = thr[u].exited
              /\ thr'[u].joinable = thr[u].joinable /\ thr'[u].childrun = thr[u].childrun
              /\ thr'[u].childexit = thr[u].childexit /\ thr'[u].kport = thr[u].kport
              /\ thr'[u].notify = thr[u].notify
      /\ \A u \in Thread : u # j /\ u # t => thr'[u] = thr[u]
  BY <1>3, <1>4, CleanupEffect
<1>6. arg[j].sem \in Sem
  BY <1>3, <1>4 DEF HandsAt, ArgRec
<1>7. s \in Sem \cup {NULL} /\ (s = NULL <=> ~fresh)
      /\ (IF fresh THEN Taken(1) ELSE sem_pool) \in Seq(Sem)
  <2>1. CASE fresh
    BY <1>2, <1>3, <1>4, <2>1, TakesOne, SemAssumption DEF Pooled
  <2>2. CASE ~fresh
    BY <1>2, <1>4, <2>2 DEF LifeTypeOK
  <2> QED
    BY <2>1, <2>2
<1>8. GiveBack(t, arg[j].sem) \in Seq(Sem)
  BY <1>6 DEF GiveBack
<1>9. sem_pool' \in Seq(Sem) /\ sema' \in [Sem -> SemRec]
  BY <1>3, <1>4, <1>6, <1>7, <1>8, GivesBack, LeftSem DEF LifeTypeOK
<1>10. x \in ArgRec /\ x.sem = s /\ "exit" \in Points
  BY <1>2, <1>7, Arguments DEF Points
<1>11. /\ at' \in [Thread -> Points] /\ arg' \in [Thread -> ArgRec]
       /\ at'[j] = "exit" /\ arg'[j] = x
       /\ \A u \in Thread : u # j => at'[u] = at[u] /\ arg'[u] = arg[u]
  BY <1>3, <1>4, <1>10, GoesTo
<1>12. LifeTypeOK'
  BY <1>3, <1>4, <1>5, <1>9, <1>11 DEF LifeTypeOK, Touches
<1>13. \A u \in Thread : Lasts(u)
  BY <1>5 DEF Lasts
<1>14. thr[t].kind # "none" /\ thr[j].kind # "none"
  BY <1>2, <1>3, <1>4, CallsWhom DEF FlagsAt
<1>15. \A u \in Thread : Keeps(u)
  BY <1>5, <1>14 DEF Keeps
<1>16. FlagsAt(j)'
  BY <1>3, <1>4, <1>5, <1>11, <1>14 DEF FlagsAt
<1>17. HandsAt(j)'
  BY <1>1, <1>5, <1>7, <1>10, <1>11 DEF HandsAt, CallPoints, NewStyle, LeavesSem
<1>18. DetachedAt(j)'
  BY <1>11 DEF DetachedAt
<1>19. Recycled' = Recycled /\ j \notin Recycled
  BY <1>3 DEF Recycled, BaseInv, StageInv, RecycledAt
<1>20. at'[j] # "create" /\ at[j] \notin {"create", "dead"}
  BY <1>3, <1>11
<1> QED
  BY <1>11, <1>12, <1>13, <1>15, <1>16, <1>17, <1>18, <1>19, <1>20, OthersStage

LEMMA CreateReturnBase ==
  ASSUME BaseInv, NEW p \in Thread, CreateReturn(p)
  PROVE  BaseInv'
<1>1. PICK t, r : /\ t = arg[p].who
                  /\ r = [thr[t] EXCEPT !.parentcheck = TRUE,
                            !.mem = IF ChildGone(t) THEN "freed" ELSE @]
  OBVIOUS
<1>2. /\ at[p] = "create" /\ LifeTypeOK /\ Goes(p, "run", Nobody) /\ Touches({t})
      /\ plist' \in {plist, plist \cup {t}} /\ pcount' \in {pcount, pcount + 1}
      /\ UNCHANGED <<recycle, finished, spoiled, sema, sem_pool>>
  BY <1>1 DEF CreateReturn, BaseInv, semVars
<1>3. /\ t \in Thread /\ thr[t] \in ThreadRec /\ thr[t].kind \notin {"none", "old"}
      /\ \A q \in Parents(t) : q = p
  BY <1>1, <1>2 DEF BaseInv, StageInv, HandsAt, LifeTypeOK
<1>4. thr' = [thr EXCEPT ![t] = r]
  BY <1>1, <1>2, <1>3 DEF CreateReturn, LifeTypeOK
<1>5. /\ r \in ThreadRec /\ r.kind = thr[t].kind /\ r.joinable = thr[t].joinable
      /\ r.exited = thr[t].exited /\ r.parentcheck = TRUE
      /\ r.childrun = thr[t].childrun /\ r.childexit = thr[t].childexit
      /\ r.notify = thr[t].notify /\ r.kport = thr[t].kport
      /\ r.mem = IF ChildGone(t) THEN "freed" ELSE thr[t].mem
  BY <1>1, <1>3 DEF ThreadRec
<1>6. /\ thr' \in [Thread -> ThreadRec] /\ thr'[t] = r
      /\ \A u \in Thread : u # t => thr'[u] = thr[u]
  BY <1>2, <1>3, <1>4, <1>5, ChangesThread
<1>7. Nobody \in ArgRec /\ "run" \in Points
  BY Arguments DEF Points
<1>8. /\ at' \in [Thread -> Points] /\ arg' \in [Thread -> ArgRec]
      /\ at'[p] = "run" /\ arg'[p] = Nobody
      /\ \A u \in Thread : u # p => at'[u] = at[u] /\ arg'[u] = arg[u]
  BY <1>2, <1>7, GoesTo
<1>9. LifeTypeOK'
  BY <1>2, <1>3, <1>6, <1>8 DEF LifeTypeOK, Touches
<1>10. /\ \A u \in Thread : Parents(u)' = Parents(u) \ {p}
       /\ Parents(t)' = {} /\ \A u \in Thread : u # t => Parents(u)' = Parents(u)
  BY <1>1, <1>2, <1>3, <1>8 DEF Parents
<1>11. ASSUME NEW u \in Thread PROVE FlagsAt(u)'
  <2>1. FlagsAt(u) /\ thr[u] \in ThreadRec
    BY <1>2 DEF BaseInv, StageInv, LifeTypeOK
  <2>2. CASE u = p
    <3>1. thr[p].kind # "none" /\ ~thr[p].exited
      BY <1>2, <2>1, <2>2 DEF FlagsAt
    <3>2. CASE p = t
      BY <1>2, <1>3, <1>5, <1>6, <1>8, <2>1, <2>2, <3>1, <3>2 DEF FlagsAt, ChildGone
    <3>3. CASE p # t
      BY <1>2, <1>6, <1>8, <2>1, <2>2, <3>1, <3>3 DEF FlagsAt
    <3> QED
      BY <3>2, <3>3
  <2>3. CASE u # p /\ u = t
    BY <1>3, <1>5, <1>6, <1>8, <2>1, <2>3 DEF FlagsAt, ChildGone
  <2>4. CASE u # p /\ u # t
    BY <1>6, <1>8, <2>1, <2>4 DEF FlagsAt
  <2> QED
    BY <2>2, <2>3, <2>4
<1>12. ASSUME NEW u \in Thread PROVE ParentAt(u)'
  BY <1>5, <1>6, <1>10 DEF BaseInv, StageInv, ParentAt
<1>13. ASSUME NEW u \in Thread PROVE HandsAt(u)'
  <2>1. CASE u = p
    BY <1>8, <2>1 DEF HandsAt, CallPoints
  <2>2. CASE u # p
    <3>1. HandsAt(u) /\ at'[u] = at[u] /\ arg'[u] = arg[u]
      BY <1>8, <2>2 DEF BaseInv, StageInv
    <3>2. \A w \in Thread : /\ thr'[w].kind = thr[w].kind /\ thr'[w].kport = thr[w].kport
                            /\ thr'[w].notify = thr[w].notify
                            /\ thr'[w].joinable = thr[w].joinable
                            /\ Parents(w)' \subseteq Parents(w)
      BY <1>5, <1>6, <1>10
    <3> QED
      BY <3>1, <3>2 DEF HandsAt, CallPoints, NewStyle, LeavesSem
  <2> QED
    BY <2>1, <2>2
<1>14. ASSUME NEW u \in Thread PROVE DetachedAt(u)'
  <2>1. DetachedAt(u) /\ FlagsAt(u)
    BY DEF BaseInv, StageInv
  <2>2. CASE u = p
    BY <1>8, <2>2 DEF DetachedAt
  <2>3. CASE u # p /\ u # t
    BY <1>6, <1>8, <2>1, <2>3 DEF DetachedAt
  <2>4. CASE u # p /\ u = t
    BY <1>3, <1>5, <1>6, <1>8, <2>1, <2>4 DEF DetachedAt, ChildGone, FlagsAt
  <2> QED
    BY <2>2, <2>3, <2>4
<1>15. ASSUME NEW u \in Thread PROVE RecycledAt(u)'
  BY <1>2, <1>5, <1>6, <1>8 DEF BaseInv, StageInv, RecycledAt, Recycled, NewStyle
<1> QED
  BY <1>9, <1>11, <1>12, <1>13, <1>14, <1>15 DEF BaseInv, StageInv

\* A new structure, of a thread that there was not.
LEMMA NewThread ==
  ASSUME BaseInv, NEW t \in Thread, thr[t].kind = "none"
  PROVE  /\ at[t] = "none" /\ Parents(t) = {} /\ t \notin Recycled
         /\ \A u \in Thread : at[u] \in CallPoints => arg[u].who # t
<1>1. FlagsAt(t) /\ thr[t] = NoThread
  BY DEF BaseInv, StageInv, FlagsAt
<1>2. ~thr[t].kport
  BY <1>1 DEF NoThread
<1>3. at[t] = "none"
  BY <1>1 DEF FlagsAt
<1>4. Parents(t) = {}
  BY DEF Parents, BaseInv, StageInv, HandsAt
<1>5. \A u \in Thread : at[u] \in CallPoints => arg[u].who # t
  BY <1>2, CallsWhom
<1>6. t \notin Recycled
  BY <1>3 DEF BaseInv, StageInv, RecycledAt
<1> QED
  BY <1>3, <1>4, <1>5, <1>6

LEMMA InitRec ==
  ASSUME NEW r \in ThreadRec, NEW d \in BOOLEAN
  PROVE  LET q == StructInit(r, d) IN
           /\ q \in ThreadRec /\ q.kind = r.kind /\ q.mem = r.mem /\ q.joinable = ~d
           /\ q.exited = r.exited /\ q.parentcheck = r.parentcheck
           /\ q.childrun = r.childrun /\ q.childexit = r.childexit
           /\ q.notify = r.notify /\ q.kport = r.kport
BY DEF StructInit, ThreadRec

LEMMA NoThreadRec ==
  /\ NoThread \in ThreadRec
  /\ \A k \in Allocations :
       LET r == [NoThread EXCEPT !.kind = k, !.mem = "live"] IN
         /\ r \in ThreadRec /\ r.kind = k /\ r.mem = "live" /\ r.exited = FALSE
         /\ r.parentcheck = FALSE /\ r.childrun = FALSE /\ r.childexit = FALSE
         /\ r.notify = NULL /\ r.kport = FALSE /\ r.joinable = FALSE
BY DEF NoThread, ThreadRec

LEMMA CreateCallBase ==
  ASSUME BaseInv, NEW p \in Thread, NEW t \in Thread, NEW kind \in Kinds,
         NEW d \in BOOLEAN, CreateCall(p, t, kind, d)
  PROVE  BaseInv'
<1>1. PICK r0, x, y : /\ r0 = [NoThread EXCEPT !.kind = kind, !.mem = "live"]
                      /\ x = [Nobody EXCEPT !.who = t]
                      /\ y = [Nobody EXCEPT !.flag = d]
  OBVIOUS
<1>2. PICK r : r = IF kind = "kernel" THEN r0 ELSE StructInit(r0, d)
  OBVIOUS
<1>3. /\ at[p] = "run" /\ thr[t].kind = "none" /\ kind \in Allocations \ {"old"}
      /\ thr' = [thr EXCEPT ![t] = r]
      /\ at' = [at EXCEPT ![p] = "create", ![t] = "start"]
      /\ arg' = [arg EXCEPT ![p] = x, ![t] = y]
      /\ UNCHANGED <<plist, pcount, recycle, finished, wild, spoiled, sema, sem_pool>>
  BY <1>1, <1>2, LifeAssumption DEF CreateCall, semVars
<1>4. /\ at[t] = "none" /\ Parents(t) = {} /\ t \notin Recycled
      /\ \A u \in Thread : at[u] \in CallPoints => arg[u].who # t
      /\ LifeTypeOK /\ p # t
  BY <1>3, NewThread DEF BaseInv
<1>5. /\ r0 \in ThreadRec /\ r0.kind = kind /\ r0.mem = "live" /\ r0.exited = FALSE
      /\ r0.parentcheck = FALSE /\ r0.childrun = FALSE /\ r0.childexit = FALSE
      /\ r0.notify = NULL /\ r0.kport = FALSE
  BY <1>1, <1>3, NoThreadRec
<1>6. /\ r \in ThreadRec /\ r.kind = kind /\ r.mem = "live" /\ r.exited = FALSE
      /\ r.parentcheck = FALSE /\ r.childrun = FALSE /\ r.childexit = FALSE
      /\ r.notify = NULL /\ r.kport = FALSE
  BY <1>2, <1>5, InitRec
<1>7. x \in ArgRec /\ x.who = t /\ y \in ArgRec
  BY <1>1, Arguments
<1>8. /\ thr' \in [Thread -> ThreadRec] /\ thr'[t] = r
      /\ \A u \in Thread : u # t => thr'[u] = thr[u]
  BY <1>3, <1>4, <1>6, ChangesThread
<1>9. /\ at' \in [Thread -> Points] /\ arg' \in [Thread -> ArgRec]
      /\ at'[p] = "create" /\ arg'[p] = x /\ at'[t] = "start" /\ arg'[t] = y
      /\ \A u \in Thread : u # p /\ u # t => at'[u] = at[u] /\ arg'[u] = arg[u]
  BY <1>3, <1>4, <1>7 DEF LifeTypeOK, Points
<1>10. LifeTypeOK'
  BY <1>3, <1>4, <1>8, <1>9 DEF LifeTypeOK
<1>11. /\ Parents(t)' = {p}
       /\ \A u \in Thread : u # t => Parents(u)' = Parents(u)
  BY <1>3, <1>4, <1>7, <1>9 DEF Parents
<1>12. kind \notin {"none", "old"}
  BY <1>3 DEF Allocations
<1>13. ASSUME NEW u \in Thread PROVE FlagsAt(u)'
  <2>1. FlagsAt(u)
    BY DEF BaseInv, StageInv
  <2>2. CASE u = t
    BY <1>6, <1>8, <1>9, <1>12, <2>2 DEF FlagsAt
  <2>3. CASE u = p
    BY <1>3, <1>4, <1>8, <1>9, <2>1, <2>3 DEF FlagsAt
  <2>4. CASE u # p /\ u # t
    BY <1>8, <1>9, <2>1, <2>4 DEF FlagsAt
  <2> QED
    BY <2>2, <2>3, <2>4
<1>14. ASSUME NEW u \in Thread PROVE ParentAt(u)'
  BY <1>6, <1>8, <1>11 DEF BaseInv, StageInv, ParentAt
<1>15. ASSUME NEW u \in Thread PROVE HandsAt(u)'
  <2>1. CASE u = t
    BY <1>9, <2>1 DEF HandsAt, CallPoints
  <2>2. CASE u = p
    BY <1>6, <1>7, <1>8, <1>9, <1>11, <1>12, <2>2 DEF HandsAt, CallPoints
  <2>3. CASE u # p /\ u # t
    <3>1. HandsAt(u) /\ at'[u] = at[u] /\ arg'[u] = arg[u] /\ thr'[u] = thr[u]
      BY <1>8, <1>9, <2>3 DEF BaseInv, StageInv
    <3>2. at[u] \in CallPoints \cup {"create"} => arg[u].who # t
      BY <1>4, <3>1 DEF HandsAt, Parents
    <3> QED
      BY <1>8, <1>11, <3>1, <3>2 DEF HandsAt, CallPoints, NewStyle, LeavesSem
  <2> QED
    BY <2>1, <2>2, <2>3
<1>16. ASSUME NEW u \in Thread PROVE DetachedAt(u)'
  BY <1>8, <1>9 DEF BaseInv, StageInv, DetachedAt
<1>17. ASSUME NEW u \in Thread PROVE RecycledAt(u)'
  BY <1>3, <1>4, <1>8, <1>9 DEF BaseInv, StageInv, RecycledAt, Recycled, NewStyle
<1> QED
  BY <1>10, <1>13, <1>14, <1>15, <1>16, <1>17 DEF BaseInv, StageInv

\* The structure of a thread of the old style, and of Main.
LEMMA OldRec ==
  ASSUME NEW d \in BOOLEAN, NEW r,
         r = [StructInit(NoThread, d) EXCEPT !.kind = "old", !.mem = "live",
                                             !.kport = TRUE]
  PROVE  /\ r \in ThreadRec /\ r.kind = "old" /\ r.mem = "live" /\ r.exited = FALSE
         /\ r.parentcheck = FALSE /\ r.childrun = FALSE /\ r.childexit = FALSE
         /\ r.notify = NULL /\ r.kport = TRUE /\ r.joinable = ~d
BY DEF StructInit, NoThread, ThreadRec, Allocations

LEMMA CreateSuspendedBase ==
  ASSUME BaseInv, NEW p \in Thread, NEW t \in Thread, NEW d \in BOOLEAN,
         CreateSuspended(p, t, d)
  PROVE  BaseInv'
<1>1. PICK r : r = [StructInit(NoThread, d) EXCEPT !.kind = "old", !.mem = "live",
                                                  !.kport = TRUE]
  OBVIOUS
<1>2. /\ at[p] = "run" /\ thr[t].kind = "none" /\ thr' = [thr EXCEPT ![t] = r]
      /\ plist' = plist \cup {t} /\ pcount' = pcount + 1
      /\ at' = [at EXCEPT ![t] = "start"]
      /\ UNCHANGED <<arg, recycle, finished, wild, spoiled, sema, sem_pool>>
  BY <1>1 DEF CreateSuspended, semVars
<1>3. /\ at[t] = "none" /\ Parents(t) = {} /\ t \notin Recycled
      /\ \A u \in Thread : at[u] \in CallPoints => arg[u].who # t
      /\ LifeTypeOK
  BY <1>2, NewThread DEF BaseInv
<1>4. /\ r \in ThreadRec /\ r.kind = "old" /\ r.mem = "live" /\ r.exited = FALSE
      /\ r.parentcheck = FALSE /\ r.childrun = FALSE /\ r.childexit = FALSE
      /\ r.notify = NULL /\ r.kport = TRUE
  BY <1>1, OldRec
<1>5. /\ thr' \in [Thread -> ThreadRec] /\ thr'[t] = r
      /\ \A u \in Thread : u # t => thr'[u] = thr[u]
  BY <1>2, <1>3, <1>4, ChangesThread
<1>6. /\ at' \in [Thread -> Points] /\ at'[t] = "start" /\ arg' = arg
      /\ \A u \in Thread : u # t => at'[u] = at[u]
  BY <1>2, <1>3 DEF LifeTypeOK, Points
<1>7. LifeTypeOK'
  BY <1>2, <1>3, <1>5, <1>6 DEF LifeTypeOK
<1>8. \A u \in Thread : Parents(u)' = Parents(u)
  BY <1>3, <1>6 DEF Parents
<1>9. ASSUME NEW u \in Thread PROVE FlagsAt(u)'
  <2>1. FlagsAt(u)
    BY DEF BaseInv, StageInv
  <2>2. CASE u = t
    BY <1>4, <1>5, <1>6, <2>2 DEF FlagsAt
  <2>3. CASE u # t
    BY <1>5, <1>6, <2>1, <2>3 DEF FlagsAt
  <2> QED
    BY <2>2, <2>3
<1>10. ASSUME NEW u \in Thread PROVE ParentAt(u)'
  BY <1>4, <1>5, <1>8 DEF BaseInv, StageInv, ParentAt
<1>11. ASSUME NEW u \in Thread PROVE HandsAt(u)'
  <2>1. CASE u = t
    BY <1>6, <2>1 DEF HandsAt, CallPoints
  <2>2. CASE u # t
    <3>1. HandsAt(u) /\ at'[u] = at[u] /\ arg'[u] = arg[u] /\ thr'[u] = thr[u]
      BY <1>5, <1>6, <2>2 DEF BaseInv, StageInv
    <3>2. at[u] \in CallPoints \cup {"create"} => arg[u].who # t
      BY <1>3, <3>1 DEF HandsAt, Parents
    <3> QED
      BY <1>5, <1>8, <3>1, <3>2 DEF HandsAt, CallPoints, NewStyle, LeavesSem
  <2> QED
    BY <2>1, <2>2
<1>12. ASSUME NEW u \in Thread PROVE DetachedAt(u)'
  BY <1>5, <1>6 DEF BaseInv, StageInv, DetachedAt
<1>13. ASSUME NEW u \in Thread PROVE RecycledAt(u)'
  BY <1>2, <1>3, <1>5, <1>6 DEF BaseInv, StageInv, RecycledAt, Recycled, NewStyle
<1> QED
  BY <1>7, <1>9, <1>10, <1>11, <1>12, <1>13 DEF BaseInv, StageInv

\* Every step keeps the stages.
LEMMA BaseStep ==
  ASSUME BaseInv, [LifeNext]_<<lifeVars, semVars>>
  PROVE  BaseInv'
<1>1. CASE UNCHANGED <<lifeVars, semVars>>
  <2>1. /\ thr' = thr /\ plist' = plist /\ pcount' = pcount /\ at' = at /\ arg' = arg
        /\ recycle' = recycle /\ finished' = finished /\ wild' = wild
        /\ spoiled' = spoiled /\ sema' = sema /\ sem_pool' = sem_pool
    BY <1>1 DEF lifeVars, semVars
  <2> QED
    BY <2>1 DEF BaseInv, LifeTypeOK, StageInv, FlagsAt, ParentAt, HandsAt, DetachedAt,
                RecycledAt, Recycled, Parents, NewStyle, LeavesSem
<1>2. ASSUME NEW t \in Thread, CreateStep(t) PROVE BaseInv'
  BY <1>2, CreateCallBase, CreateSuspendedBase DEF CreateStep
<1>3. ASSUME NEW t \in Thread, Underway(t) PROVE BaseInv'
  BY <1>3, CreateReturnBase, StartBase, BodyBase, ExitLockedBase, ExitFreeBase,
     TerminateBase, ExitOldBase, ExitOldFreeBase, JoinRefusedBase, JoinLockedBase,
     JoinReapBase, JoinUnlinkBase, JoinReapOldBase, JoinCanceledBase,
     DetachLockedBase, DetachSignalBase, DetachJoinBase, CancelLockedBase DEF Underway
<1>4. ASSUME NEW t \in Thread, Exit(t) \/ TestCancel(t) PROVE BaseInv'
  BY <1>4, ExitBeginBase DEF Exit, TestCancel
<1>5. ASSUME NEW t \in Thread, NEW u \in Thread,
             JoinCall(t, u) \/ DetachCall(t, u) \/ CancelCall(t, u)
      PROVE  BaseInv'
  BY <1>5, JoinCallBase, DetachCallBase, CancelCallBase
<1> QED
  BY <1>1, <1>2, <1>3, <1>4, <1>5 DEF LifeNext

---------------------------------------------------------------------------
(* The number of threads *)

LEMMA SameCount ==
  ASSUME CountInv, Counted' = Counted, UNCHANGED <<pcount, finished>>
  PROVE  CountInv'
BY DEF CountInv

LEMMA OneMore ==
  ASSUME CountInv, ~finished, NEW t \in Thread, ~Counts(t), Counts(t)',
         \A u \in Thread : u # t => (Counts(u)' <=> Counts(u)),
         pcount' = pcount + 1, finished' = finished
  PROVE  CountInv'
<1>1. Counted' = Counted \cup {t} /\ t \notin Counted
  BY DEF Counted
<1>2. IsFiniteSet(Counted')  /\ Cardinality(Counted') = Cardinality(Counted) + 1
  BY <1>1, FS_AddElement DEF CountInv
<1> QED
  BY <1>1, <1>2 DEF CountInv

LEMMA OneLess ==
  ASSUME CountInv, NEW t \in Thread, Counts(t), ~Counts(t)',
         \A u \in Thread : u # t => (Counts(u)' <=> Counts(u)),
         pcount' = pcount - 1, finished' = (pcount' <= 0)
  PROVE  CountInv'
<1>1. Counted' = Counted \ {t} /\ t \in Counted
  BY DEF Counted
<1>2. IsFiniteSet(Counted')  /\ Cardinality(Counted') = Cardinality(Counted) - 1
  BY <1>1, FS_RemoveElement DEF CountInv
<1>3. pcount' = Cardinality(Counted')
  BY <1>2 DEF CountInv
<1>4. Cardinality(Counted') \in Nat
  BY <1>2, FS_CardinalityType
<1>5. Cardinality(Counted') = 0 <=> Counted' = {}
  BY <1>2, FS_EmptySet
<1>6. pcount' <= 0 <=> Counted' = {}
  BY <1>3, <1>4, <1>5
<1>7. finished' <=> Counted' = {}
  BY <1>6
<1> QED
  BY <1>2, <1>3, <1>7 DEF CountInv

\* What Counts looks at.
CountsAlike(u) ==
  /\ thr'[u].kind = thr[u].kind /\ thr'[u].childrun = thr[u].childrun
  /\ thr'[u].parentcheck = thr[u].parentcheck
  /\ thr'[u].childexit = thr[u].childexit
  /\ thr[u].kind = "old" => (at'[u] = "dead" <=> at[u] = "dead")

LEMMA AlikeCounts ==
  ASSUME NEW u \in Thread, CountsAlike(u)
  PROVE  Counts(u)' <=> Counts(u)
BY DEF CountsAlike, Counts, NewStyle

LEMMA AlikeCount ==
  ASSUME CountInv, \A u \in Thread : CountsAlike(u), UNCHANGED <<pcount, finished>>
  PROVE  CountInv'
<1>1. Counted' = Counted
  BY AlikeCounts DEF Counted
<1> QED
  BY <1>1, SameCount

\* Most steps count nobody in or out.
LEMMA CallCount ==
  ASSUME BaseInv, CountInv, NEW a \in Thread, NEW l, NEW x, Goes(a, l, x),
         at[a] # "dead", l # "dead", UNCHANGED <<thr, pcount, finished>>
  PROVE  CountInv'
<1>1. \A u \in Thread : CountsAlike(u)
  BY DEF Goes, BaseInv, LifeTypeOK, CountsAlike
<1> QED
  BY <1>1, AlikeCount

LEMMA CallsCount ==
  ASSUME BaseInv, CountInv, NEW a \in Thread,
         \/ Body(a) \/ JoinRefused(a) \/ JoinUnlink(a) \/ DetachSignal(a)
         \/ DetachJoin(a)
         \/ \E t \in Thread : JoinCall(a, t) \/ DetachCall(a, t) \/ CancelCall(a, t)
  PROVE  CountInv'
<1>1. CASE Body(a)
  BY <1>1, CallCount DEF Body
<1>2. CASE JoinRefused(a)
  BY <1>2, CallCount DEF JoinRefused
<1>3. CASE JoinUnlink(a)
  BY <1>3, CallCount DEF JoinUnlink
<1>4. CASE DetachSignal(a)
  BY <1>4, CallCount DEF DetachSignal
<1>5. CASE DetachJoin(a)
  <2>1. \E l, x : l # "dead" /\ Goes(a, l, x)
    BY <1>5 DEF DetachJoin
  <2>2. at[a] # "dead" /\ UNCHANGED <<thr, pcount, finished>>
    BY <1>5 DEF DetachJoin
  <2> QED
    BY <2>1, <2>2, CallCount
<1>6. ASSUME NEW t \in Thread, JoinCall(a, t) PROVE CountInv'
  BY <1>6, CallCount DEF JoinCall, Looks
<1>7. ASSUME NEW t \in Thread, DetachCall(a, t) PROVE CountInv'
  BY <1>7, CallCount DEF DetachCall, Looks
<1>8. ASSUME NEW t \in Thread, CancelCall(a, t) PROVE CountInv'
  BY <1>8, CallCount DEF CancelCall, Looks
<1> QED
  BY <1>1, <1>2, <1>3, <1>4, <1>5, <1>6, <1>7, <1>8

LEMMA LocksCount ==
  ASSUME BaseInv, CountInv, NEW a \in Thread,
         \/ CancelLocked(a) \/ DetachLocked(a) \/ JoinReapOld(a) \/ JoinReap(a)
         \/ JoinLocked(a) \/ ExitLocked(a) \/ ExitOld(a) \/ Terminate(a)
  PROVE  CountInv'
<1> DEFINE Alike == \A u \in Thread : CountsAlike(u)
<1>0. LifeTypeOK /\ StageInv
  BY DEF BaseInv
<1>1. CASE CancelLocked(a)
  <2>1. Alike
    BY <1>0, <1>1 DEF CancelLocked, CountsAlike, LifeTypeOK, Goes
  <2> QED
    BY <1>1, <2>1, AlikeCount DEF CancelLocked
<1>2. CASE DetachLocked(a)
  <2>1. /\ at[a] # "dead" /\ \E l, x : l # "dead" /\ Goes(a, l, x)
        /\ \/ thr' = thr
           \/ thr' = [thr EXCEPT ![arg[a].who].joinable = FALSE]
    BY <1>2 DEF DetachLocked
  <2>2. \A u \in Thread : at'[u] = "dead" <=> at[u] = "dead"
    BY <1>0, <2>1 DEF LifeTypeOK, Goes
  <2>3. \A u \in Thread :
          thr'[u] = thr[u] \/ thr'[u] = [thr[u] EXCEPT !.joinable = FALSE]
    BY <1>0, <2>1 DEF LifeTypeOK
  <2>4. ASSUME NEW u \in Thread PROVE CountsAlike(u)
    <3>1. thr[u] \in ThreadRec
      BY <1>0 DEF LifeTypeOK
    <3>2. CASE thr'[u] = thr[u]
      BY <2>2, <3>2 DEF CountsAlike
    <3>3. CASE thr'[u] = [thr[u] EXCEPT !.joinable = FALSE]
      BY <2>2, <3>1, <3>3 DEF CountsAlike, ThreadRec
    <3> QED
      BY <2>3, <3>2, <3>3
  <2> QED
    BY <1>2, <2>4, AlikeCount DEF DetachLocked
<1>3. CASE JoinReapOld(a)
  <2>1. Alike
    BY <1>0, <1>3 DEF JoinReapOld, CountsAlike, LifeTypeOK, Goes, Freed
  <2> QED
    BY <1>3, <2>1, AlikeCount DEF JoinReapOld
<1>4. CASE JoinReap(a)
  <2>1. Alike
    BY <1>0, <1>4 DEF JoinReap, CountsAlike, LifeTypeOK, Goes, Freed
  <2> QED
    BY <1>4, <2>1, AlikeCount DEF JoinReap
<1>5. CASE JoinLocked(a)
  <2>1. Alike
    BY <1>0, <1>5 DEF JoinLocked, CountsAlike, LifeTypeOK, Goes
  <2> QED
    BY <1>5, <2>1, AlikeCount DEF JoinLocked
<1>6. CASE ExitLocked(a)
  <2>1. Alike
    BY <1>0, <1>6 DEF ExitLocked, CountsAlike, LifeTypeOK, Goes
  <2> QED
    BY <1>6, <2>1, AlikeCount DEF ExitLocked
<1>7. CASE ExitOld(a)
  <2>1. Alike
    BY <1>0, <1>7 DEF ExitOld, CountsAlike, LifeTypeOK, Goes
  <2> QED
    BY <1>7, <2>1, AlikeCount DEF ExitOld
<1>8. CASE Terminate(a)
  <2>1. FlagsAt(a)
    BY <1>0 DEF StageInv
  <2>2. Alike
    BY <1>0, <1>8, <2>1 DEF Terminate, CountsAlike, LifeTypeOK, Goes, Freed, FlagsAt
  <2> QED
    BY <1>8, <2>2, AlikeCount DEF Terminate
<1> QED
  BY <1>1, <1>2, <1>3, <1>4, <1>5, <1>6, <1>7, <1>8

LEMMA ExitBeginCount ==
  ASSUME BaseInv, CountInv, NEW t \in Thread, at[t] = "run", ExitBegin(t)
  PROVE  CountInv'
<1>1. /\ IF NewStyle(t) THEN thr' = Exiting(t) /\ UNCHANGED recycle
         ELSE ReapThreads(Exiting(t))
      /\ UNCHANGED <<pcount, finished>> /\ \E x : Goes(t, "exit", x)
  BY DEF ExitBegin
<1>2. /\ thr'[t] = [thr[t] EXCEPT !.enabled = FALSE]
      /\ \A u \in Thread : u # t =>
           \/ thr'[u] = thr[u]
           \/ thr'[u] = [thr[u] EXCEPT !.mem = "freed"]
  BY <1>1, ExitEffect
<1>3. \A u \in Thread : thr[u] \in ThreadRec
  BY DEF BaseInv, LifeTypeOK
<1>4. \A u \in Thread : at'[u] = "dead" <=> at[u] = "dead"
  BY <1>1 DEF Goes, BaseInv, LifeTypeOK
<1>5. ASSUME NEW u \in Thread PROVE CountsAlike(u)
  <2>1. CASE u = t
    BY <1>2, <1>3, <1>4, <2>1 DEF CountsAlike, ThreadRec
  <2>2. CASE thr'[u] = thr[u]
    BY <1>4, <2>2 DEF CountsAlike
  <2>3. CASE thr'[u] = [thr[u] EXCEPT !.mem = "freed"]
    BY <1>3, <1>4, <2>3 DEF CountsAlike, ThreadRec
  <2> QED
    BY <1>2, <2>1, <2>2, <2>3
<1> QED
  BY <1>1, <1>5, AlikeCount

LEMMA JoinCanceledCount ==
  ASSUME BaseInv, CountInv, NEW j \in Thread, JoinCanceled(j)
  PROVE  CountInv'
<1>1. PICK t : t = arg[j].who
  OBVIOUS
<1>2. /\ thr' = [thr EXCEPT ![t].joiner = NULL, ![j].enabled = FALSE]
      /\ at[j] = "wait" /\ UNCHANGED <<pcount, finished>> /\ \E x : Goes(j, "exit", x)
  BY <1>1 DEF JoinCanceled
<1>3. t \in Thread
  BY <1>1, <1>2, CallsWhom DEF CallPoints
<1>4. \A u \in Thread : at'[u] = "dead" <=> at[u] = "dead"
  BY <1>2 DEF Goes, BaseInv, LifeTypeOK
<1>5. ASSUME NEW u \in Thread PROVE CountsAlike(u)
  BY <1>2, <1>3, <1>4, CleanupEffect DEF CountsAlike
<1> QED
  BY <1>2, <1>5, AlikeCount

LEMMA CreateCallCount ==
  ASSUME BaseInv, CountInv, NEW p \in Thread, NEW t \in Thread, NEW kind \in Kinds,
         NEW d \in BOOLEAN, CreateCall(p, t, kind, d)
  PROVE  CountInv'
<1>1. PICK r0 : r0 = [NoThread EXCEPT !.kind = kind, !.mem = "live"]
  OBVIOUS
<1>2. PICK r : r = IF kind = "kernel" THEN r0 ELSE StructInit(r0, d)
  OBVIOUS
<1>3. /\ at[p] = "run" /\ thr[t].kind = "none" /\ kind \in Allocations \ {"old"}
      /\ thr' = [thr EXCEPT ![t] = r]
      /\ at' = [at EXCEPT ![p] = "create", ![t] = "start"]
      /\ UNCHANGED <<pcount, finished>>
  BY <1>1, <1>2, LifeAssumption DEF CreateCall
<1>4. /\ r0 \in ThreadRec /\ r0.kind = kind /\ r0.parentcheck = FALSE
      /\ r0.childrun = FALSE
  BY <1>1, <1>3, NoThreadRec
<1>5. r.kind # "old" /\ r.parentcheck = FALSE /\ r.childrun = FALSE
  BY <1>2, <1>3, <1>4, InitRec
<1>6. ~Counts(t) /\ ~Counts(t)'
  BY <1>3, <1>5 DEF Counts, NewStyle, BaseInv, LifeTypeOK
<1>7. \A u \in Thread : u # t => CountsAlike(u)
  BY <1>3 DEF BaseInv, LifeTypeOK, CountsAlike
<1>8. Counted' = Counted
  BY <1>6, <1>7, AlikeCounts DEF Counted
<1> QED
  BY <1>3, <1>8, SameCount

LEMMA CreateSuspendedCount ==
  ASSUME BaseInv, CountInv, ~finished, NEW p \in Thread, NEW t \in Thread,
         NEW d \in BOOLEAN, CreateSuspended(p, t, d)
  PROVE  CountInv'
<1>1. PICK r : r = [StructInit(NoThread, d) EXCEPT !.kind = "old", !.mem = "live",
                                                  !.kport = TRUE]
  OBVIOUS
<1>2. /\ thr[t].kind = "none" /\ thr' = [thr EXCEPT ![t] = r]
      /\ pcount' = pcount + 1 /\ finished' = finished
      /\ at' = [at EXCEPT ![t] = "start"]
  BY <1>1 DEF CreateSuspended
<1>3. r.kind = "old"
  BY <1>1, OldRec
<1>4. ~Counts(t) /\ Counts(t)'
  BY <1>2, <1>3 DEF Counts, NewStyle, BaseInv, LifeTypeOK
<1>5. \A u \in Thread : u # t => CountsAlike(u)
  BY <1>2 DEF BaseInv, LifeTypeOK, CountsAlike
<1> QED
  BY <1>2, <1>4, <1>5, AlikeCounts, OneMore

\* The parent counts the child if it comes first, ...
LEMMA CreateReturnCount ==
  ASSUME BaseInv, CountInv, ~finished, NEW p \in Thread, CreateReturn(p)
  PROVE  CountInv'
<1>1. PICK t, gone, first : /\ t = arg[p].who /\ gone = ChildGone(t)
                            /\ first = (~gone /\ ~thr[t].childrun)
  OBVIOUS
<1>2. PICK r : r = [thr[t] EXCEPT !.parentcheck = TRUE,
                                  !.mem = IF gone THEN "freed" ELSE @]
  OBVIOUS
<1>3. at[p] = "create" /\ Goes(p, "run", Nobody) /\ finished' = finished
  BY DEF CreateReturn
<1>4. /\ t \in Thread /\ thr[t].kind \notin {"none", "old"} /\ FlagsAt(t)
      /\ thr[t] \in ThreadRec /\ ParentAt(t) /\ Parents(t) # {}
  BY <1>1, <1>3 DEF BaseInv, StageInv, HandsAt, LifeTypeOK, Parents
<1>5. /\ thr' = [thr EXCEPT ![t] = r]
      /\ pcount' = IF first THEN pcount + 1 ELSE pcount
  BY <1>1, <1>2, <1>4 DEF CreateReturn, BaseInv, LifeTypeOK
<1>6. /\ r.kind = thr[t].kind /\ r.childrun = thr[t].childrun
      /\ r.childexit = thr[t].childexit /\ r.parentcheck = TRUE
  BY <1>2, <1>4 DEF ThreadRec
<1>7. \A u \in Thread : at'[u] = "dead" <=> at[u] = "dead"
  BY <1>3 DEF Goes, BaseInv, LifeTypeOK
<1>8. \A u \in Thread : u # t => CountsAlike(u)
  BY <1>5, <1>7 DEF BaseInv, LifeTypeOK, CountsAlike
<1>9. thr'[t] = r /\ ~thr[t].parentcheck
  BY <1>4, <1>5 DEF BaseInv, LifeTypeOK, ParentAt
<1>10. thr[t].childexit => thr[t].childrun
  BY <1>4 DEF FlagsAt
<1>11. first <=> ~thr[t].childrun
  BY <1>1, <1>10 DEF ChildGone
<1>12. Counts(t)' = ~thr[t].childexit /\ Counts(t) = (thr[t].childrun /\ ~thr[t].childexit)
  BY <1>4, <1>6, <1>9 DEF Counts, NewStyle
<1>13. CASE first
  <2>1. Counts(t)' /\ ~Counts(t)
    BY <1>10, <1>11, <1>12, <1>13
  <2> QED
    BY <1>3, <1>4, <1>5, <1>8, <1>13, <2>1, AlikeCounts, OneMore
<1>14. CASE ~first
  <2>1. Counts(t)' <=> Counts(t)
    BY <1>11, <1>12, <1>14
  <2>2. Counted' = Counted
    BY <1>8, <2>1, AlikeCounts DEF Counted
  <2> QED
    BY <1>3, <1>5, <1>14, <2>2, SameCount
<1> QED
  BY <1>13, <1>14

\* ... and otherwise the child counts itself.
LEMMA StartCount ==
  ASSUME BaseInv, CountInv, ~finished, NEW t \in Thread, Start(t)
  PROVE  CountInv'
<1>1. PICK r0 : r0 = IF thr[t].kind = "kernel" THEN StructInit(thr[t], arg[t].flag)
                    ELSE thr[t]
  OBVIOUS
<1>2. PICK r : r = [r0 EXCEPT !.kport = TRUE, !.childrun = TRUE]
  OBVIOUS
<1>3. /\ at[t] = "start" /\ NewStyle(t) /\ Goes(t, "run", Nobody)
      /\ thr' = [thr EXCEPT ![t] = r] /\ finished' = finished
      /\ pcount' = IF thr[t].parentcheck THEN pcount ELSE pcount + 1
  BY <1>1, <1>2 DEF Start
<1>4. FlagsAt(t) /\ thr[t] \in ThreadRec /\ arg[t].flag \in BOOLEAN
  BY DEF BaseInv, LifeTypeOK, StageInv, ArgRec
<1>5. /\ r0 \in ThreadRec /\ r0.kind = thr[t].kind
      /\ r0.parentcheck = thr[t].parentcheck /\ r0.childexit = thr[t].childexit
  BY <1>1, <1>4, InitRec
<1>6. /\ r.kind = thr[t].kind /\ r.childrun = TRUE
      /\ r.parentcheck = thr[t].parentcheck /\ r.childexit = thr[t].childexit
  BY <1>2, <1>5 DEF ThreadRec
<1>7. /\ thr'[t] = r /\ thr[t].kind \notin {"none", "old"} /\ ~thr[t].childrun
      /\ ~thr[t].childexit
  BY <1>3, <1>4 DEF FlagsAt, NewStyle, BaseInv, LifeTypeOK
<1>8. \A u \in Thread : u # t => CountsAlike(u)
  BY <1>3 DEF BaseInv, LifeTypeOK, CountsAlike, Goes
<1>9. Counts(t)' /\ (Counts(t) <=> thr[t].parentcheck)
  BY <1>6, <1>7 DEF Counts, NewStyle
<1>10. CASE thr[t].parentcheck
  <2>1. Counted' = Counted
    BY <1>8, <1>9, <1>10, AlikeCounts DEF Counted
  <2> QED
    BY <1>3, <1>10, <2>1, SameCount
<1>11. CASE ~thr[t].parentcheck
  BY <1>3, <1>8, <1>9, <1>11, AlikeCounts, OneMore
<1> QED
  BY <1>10, <1>11

LEMMA ExitFreeCount ==
  ASSUME BaseInv, CountInv, NEW t \in Thread, ExitFree(t) \/ ExitOldFree(t)
  PROVE  CountInv'
<1>1. FlagsAt(t) /\ thr[t] \in ThreadRec
  BY DEF BaseInv, LifeTypeOK, StageInv
<1>2. CASE ExitFree(t)
  <2>1. PICK r : r = [thr[t] EXCEPT !.childexit = TRUE,
                  !.mem = IF arg[t].flag /\ ~FreeStackOnExit(t) THEN "freed" ELSE @]
    OBVIOUS
  <2>2. /\ at[t] = "free" /\ thr' = [thr EXCEPT ![t] = r] /\ \E x : Goes(t, "term", x)
        /\ pcount' = pcount - 1 /\ finished' = (pcount' <= 0)
    BY <1>2, <2>1 DEF ExitFree, CountOut, BaseInv, LifeTypeOK
  <2>3. r.kind = thr[t].kind /\ r.childexit = TRUE
    BY <1>1, <2>1 DEF ThreadRec
  <2>4. Counts(t) /\ ~Counts(t)'
    BY <1>1, <2>2, <2>3 DEF Counts, NewStyle, FlagsAt, BaseInv, LifeTypeOK
  <2>5. \A u \in Thread : u # t => CountsAlike(u)
    BY <2>2 DEF BaseInv, LifeTypeOK, CountsAlike, Goes
  <2> QED
    BY <2>2, <2>4, <2>5, AlikeCounts, OneLess
<1>3. CASE ExitOldFree(t)
  <2>1. /\ at[t] = "oldfree" /\ thr' = thr /\ Goes(t, "dead", Nobody)
        /\ pcount' = pcount - 1 /\ finished' = (pcount' <= 0)
    BY <1>3 DEF ExitOldFree
  <2>2. Counts(t) /\ ~Counts(t)'
    BY <1>1, <2>1 DEF Counts, NewStyle, FlagsAt, BaseInv, LifeTypeOK, Goes
  <2>3. \A u \in Thread : u # t => CountsAlike(u)
    BY <2>1 DEF BaseInv, LifeTypeOK, CountsAlike, Goes
  <2> QED
    BY <2>1, <2>2, <2>3, AlikeCounts, OneLess
<1> QED
  BY <1>2, <1>3

LEMMA CountStep ==
  ASSUME BaseInv, CountInv, [LifeNext]_<<lifeVars, semVars>>
  PROVE  CountInv'
<1>1. CASE UNCHANGED <<lifeVars, semVars>>
  <2>1. /\ thr' = thr /\ pcount' = pcount /\ at' = at /\ finished' = finished
    BY <1>1 DEF lifeVars
  <2> QED
    BY <2>1 DEF CountInv, Counted, Counts, NewStyle
<1>2. ASSUME ~finished, NEW t \in Thread, CreateStep(t) PROVE CountInv'
  BY <1>2, CreateCallCount, CreateSuspendedCount DEF CreateStep
<1>3. ASSUME ~finished, NEW t \in Thread, Underway(t) PROVE CountInv'
  BY <1>3, CreateReturnCount, StartCount, CallsCount, LocksCount, ExitFreeCount,
     JoinCanceledCount DEF Underway
<1>4. ASSUME NEW t \in Thread, Exit(t) \/ TestCancel(t) PROVE CountInv'
  BY <1>4, ExitBeginCount DEF Exit, TestCancel
<1>5. ASSUME NEW t \in Thread, NEW u \in Thread,
             JoinCall(t, u) \/ DetachCall(t, u) \/ CancelCall(t, u)
      PROVE  CountInv'
  BY <1>5, CallsCount
<1> QED
  BY <1>1, <1>2, <1>3, <1>4, <1>5 DEF LifeNext

---------------------------------------------------------------------------
(* The initial state *)

LEMMA InitPool ==
  LET q == SetToSeq(Sem) IN
    q \in Seq(Sem) /\ \A i, j \in 1..Len(q) : q[i] = q[j] => i = j
<1>1. Cardinality(Sem) \in Nat /\ ExistsBijection(1..Cardinality(Sem), Sem)
  BY LifeAssumption, FS_CardinalityType
<1>2. \E f \in [1..Cardinality(Sem) -> Sem] : IsInjective(f)
  BY <1>1 DEF ExistsBijection, Bijection, Injection
<1>3. /\ SetToSeq(Sem) \in [1..Cardinality(Sem) -> Sem]
      /\ IsInjective(SetToSeq(Sem))
  BY <1>2 DEF SetToSeq
<1> QED
  BY <1>1, <1>3 DEF IsInjective

LEMMA InitBase == ASSUME LifeInit PROVE BaseInv
<1>1. PICK r : /\ r = [StructInit(NoThread, FALSE) EXCEPT
                         !.kind = "old", !.mem = "live", !.kport = TRUE]
               /\ thr = [t \in Thread |-> IF t = Main THEN r ELSE NoThread]
  BY DEF LifeInit
<1>2. /\ r \in ThreadRec /\ r.kind = "old" /\ r.mem = "live" /\ r.exited = FALSE
      /\ r.parentcheck = FALSE /\ r.childrun = FALSE /\ r.childexit = FALSE
      /\ r.kport = TRUE
  BY <1>1, OldRec
<1>3. /\ at = [t \in Thread |-> IF t = Main THEN "run" ELSE "none"]
      /\ arg = [t \in Thread |-> Nobody] /\ plist = {Main} /\ pcount = 1
      /\ recycle = <<>> /\ finished = FALSE /\ wild = {} /\ spoiled = FALSE
      /\ sema = [s \in Sem |-> Created] /\ sem_pool = SetToSeq(Sem)
  BY DEF LifeInit
<1>4. LifeTypeOK
  <2>1. thr \in [Thread -> ThreadRec]
    BY <1>1, <1>2, NoThreadRec
  <2>2. at \in [Thread -> Points] /\ arg \in [Thread -> ArgRec]
    BY <1>3, Arguments DEF Points
  <2>3. sema \in [Sem -> SemRec]
    BY <1>3 DEF Created, SemRec
  <2>4. sem_pool \in Seq(Sem)
    BY <1>3, InitPool
  <2>5. recycle \in Seq(Thread) /\ plist \in SUBSET Thread /\ pcount \in Int
    BY <1>3, LifeAssumption
  <2>6. finished \in BOOLEAN /\ spoiled \in BOOLEAN /\ wild \in SUBSET Thread
    BY <1>3
  <2> QED
    BY <2>1, <2>2, <2>3, <2>4, <2>5, <2>6 DEF LifeTypeOK
<1>5. \A u \in Thread : at[u] \in {"run", "none"}
  BY <1>3
<1>6. Recycled = {} /\ \A u \in Thread : Parents(u) = {}
  BY <1>3, <1>5 DEF Recycled, Parents
<1>7. ASSUME NEW u \in Thread PROVE FlagsAt(u)
  <2>1. CASE u = Main
    BY <1>1, <1>2, <1>3, <2>1 DEF FlagsAt
  <2>2. CASE u # Main
    <3>1. thr[u] = NoThread /\ at[u] = "none"
      BY <1>1, <1>3, <2>2
    <3> QED
      BY <3>1 DEF FlagsAt, NoThread
  <2> QED
    BY <2>1, <2>2
<1>8. ASSUME NEW u \in Thread PROVE ParentAt(u) /\ HandsAt(u) /\ DetachedAt(u) /\ RecycledAt(u)
  <2>1. thr[u].kind \in {"none", "old"}
    BY <1>1, <1>2 DEF NoThread
  <2> QED
    BY <1>5, <1>6, <2>1 DEF ParentAt, HandsAt, DetachedAt, RecycledAt, CallPoints
<1> QED
  BY <1>4, <1>7, <1>8 DEF BaseInv, StageInv

LEMMA InitCount == ASSUME LifeInit PROVE CountInv
<1>1. Counted = {Main}
  <2>1. ASSUME NEW u \in Thread PROVE Counts(u) <=> u = Main
    <3>1. CASE u = Main
      <4>1. thr[u].kind = "old" /\ at[u] = "run"
        BY <3>1, OldRec DEF LifeInit
      <4> QED
        BY <3>1, <4>1 DEF Counts, NewStyle
    <3>2. CASE u # Main
      BY <3>2 DEF Counts, LifeInit, NoThread
    <3> QED
      BY <3>1, <3>2
  <2> QED
    BY <2>1, LifeAssumption DEF Counted
<1> QED
  BY <1>1, FS_Singleton DEF CountInv, LifeInit

---------------------------------------------------------------------------
(* The process ends with its last thread *)

\* Who is on the way counts, or is a child that its parent has in its hands.
LEMMA CountedOnTheWay ==
  ASSUME BaseInv, NEW t \in Thread, at[t] \notin {"none", "start", "term", "dead"}
  PROVE  Counts(t)
<1>1. FlagsAt(t) /\ thr[t] \in ThreadRec
  BY DEF BaseInv, StageInv, LifeTypeOK
<1> QED
  BY <1>1 DEF FlagsAt, Counts, NewStyle

LEMMA LastThread == ASSUME BaseInv, CountInv PROVE ExitsLast
<1>1. ASSUME finished, NEW t \in Thread PROVE at[t] \in {"none", "dead", "term"}
  <2>1. \A u \in Thread : ~Counts(u)
    BY <1>1 DEF CountInv, Counted
  <2>2. FlagsAt(t) /\ ParentAt(t) /\ thr[t] \in ThreadRec
    BY DEF BaseInv, StageInv, LifeTypeOK
  <2>3. Parents(t) = {}
    BY <2>1, CountedOnTheWay DEF Parents
  <2>4. at[t] # "start"
    BY <2>1, <2>2, <2>3 DEF FlagsAt, ParentAt, Counts, NewStyle
  <2> QED
    BY <2>1, <2>4, CountedOnTheWay
<1>2. ASSUME \A t \in Thread : ~Alive(t) PROVE finished
  <2>1. ASSUME NEW t \in Thread PROVE ~Counts(t)
    <3>1. at[t] \in {"none", "dead"} /\ FlagsAt(t)
      BY <1>2 DEF Alive, BaseInv, StageInv
    <3> QED
      BY <3>1 DEF FlagsAt, Counts, NewStyle
  <2> QED
    BY <2>1 DEF CountInv, Counted
<1> QED
  BY <1>1, <1>2 DEF ExitsLast

LEMMA FreedByOne == ASSUME BaseInv PROVE DetachedFreed
<1> SUFFICES ASSUME NEW t \in Thread, at[t] = "dead", NewStyle(t), ~thr[t].joinable,
                    \A p \in Thread : at[p] = "create" => arg[p].who # t
             PROVE  thr[t].mem = "freed"
  BY DEF DetachedFreed
<1>1. FlagsAt(t) /\ ParentAt(t) /\ DetachedAt(t)
  BY DEF BaseInv, StageInv
<1>2. Parents(t) = {}
  BY DEF Parents
<1> QED
  BY <1>1, <1>2 DEF FlagsAt, ParentAt, DetachedAt, NewStyle

---------------------------------------------------------------------------
(* What a step of thread a, on thread t, leaves alone *)

Alike(u) ==
  /\ thr'[u].kind = thr[u].kind /\ thr'[u].joinable = thr[u].joinable
  /\ thr'[u].exited = thr[u].exited /\ thr'[u].parentcheck = thr[u].parentcheck
  /\ thr'[u].kport = thr[u].kport /\ thr'[u].notify = thr[u].notify
  /\ thr'[u].mem = thr[u].mem \/ (u \in Recycled /\ thr'[u].mem = "freed")
Stays(u) == at'[u] = at[u] /\ arg'[u] = arg[u]
Listed(u) == u \in plist' <=> u \in plist

\* The threads that are reaped on the way have no part in anything else, and
\* t may be new.
Others(a, t) ==
  /\ \A u \in Thread : u # a => \/ Stays(u)
                                \/ u = t /\ at[u] = "none" /\ at'[u] = "start"
  /\ \A u \in Thread : u # t => Alike(u) /\ Listed(u)
  /\ a # t => /\ at'[a] = "dead" <=> at[a] = "dead"
              /\ at[a] # "term" /\ at'[a] # "term"

\* What the calls on w rely on.
CallFrame(w) ==
  /\ thr'[w].kind = thr[w].kind /\ thr'[w].joinable = thr[w].joinable
  /\ thr[w].parentcheck => thr'[w].parentcheck
  /\ thr[w].exited => thr'[w].exited
  /\ thr[w].notify # NULL \/ ~thr[w].joinable \/ thr[w].kind = "old" =>
       thr'[w].notify = thr[w].notify
  /\ thr[w].joinable => /\ Listed(w)
                        /\ thr[w].mem = "live" => thr'[w].mem = "live"

LEMMA ReapedFacts ==
  ASSUME BaseInv, GoodInv, NEW u \in Recycled
  PROVE  /\ u \in Thread /\ at[u] = "dead" /\ thr[u].kind = "old"
         /\ ~thr[u].joinable /\ u \notin plist
BY DEF BaseInv, StageInv, RecycledAt, Recycled, GoodInv, RecycleInv, NewStyle

LEMMA AlikeFrame ==
  ASSUME BaseInv, GoodInv, NEW w \in Thread, Alike(w), Listed(w)
  PROVE  CallFrame(w)
BY ReapedFacts DEF Alike, CallFrame

LEMMA OthersCall ==
  ASSUME BaseInv, GoodInv, NEW a \in Thread, NEW t \in Thread, Others(a, t),
         at'[a] \in CallPoints => CallsOn(arg'[a].who) \subseteq {a},
         CallsOn(t) \subseteq {a} \/ CallFrame(t),
         NEW u \in Thread, u # a
  PROVE  CallAt(u)'
<1>1. CASE at'[u] \notin CallPoints
  BY <1>1 DEF CallAt
<1>2. CASE at'[u] \in CallPoints
  <2>1. Stays(u) /\ at[u] \in CallPoints
    BY <1>2 DEF Others, Stays, CallPoints
  <2>2. PICK w : w = arg[u].who
    OBVIOUS
  <2>3. w \in Thread /\ CallAt(u) /\ HandsAt(u) /\ u \in CallsOn(w) /\ CallsOn(w) = {u}
    <3>1. w \in Thread /\ HandsAt(u)
      BY <2>1, <2>2, CallsWhom
    <3>2. CallAt(u)
      BY DEF GoodInv
    <3> QED
      BY <2>1, <2>2, <3>1, <3>2 DEF CallAt, CallsOn
  <2>4. CallFrame(w)
    <3>1. CASE w = t
      BY <2>3, <3>1
    <3>2. CASE w # t
      BY <2>3, <3>2, AlikeFrame DEF Others
    <3> QED
      BY <3>1, <3>2
  <2>5. CallsOn(w)' = {u}
    <3>1. ASSUME NEW x \in CallsOn(w)' PROVE x = u
      <4>1. x \in Thread /\ at'[x] \in CallPoints /\ arg'[x].who = w
        BY DEF CallsOn
      <4>2. CASE x = a
        <5>1. CallsOn(w) \subseteq {a}
          BY <4>1, <4>2
        <5> QED
          BY <2>3, <5>1
      <4>3. CASE x # a
        <5>1. at[x] \in CallPoints /\ arg[x].who = w
          BY <4>1, <4>3 DEF Others, Stays, CallPoints
        <5>2. x \in CallsOn(w)
          BY <4>1, <5>1 DEF CallsOn
        <5> QED
          BY <2>3, <5>2
      <4> QED
        BY <4>2, <4>3
    <3>2. u \in CallsOn(w)'
      BY <2>1, <2>2 DEF CallsOn, Stays
    <3> QED
      BY <3>1, <3>2
  <2>6. at'[u] = at[u] /\ arg'[u] = arg[u] /\ arg'[u].who = w
    BY <2>1, <2>2 DEF Stays
  <2>7. (Touching(u)' <=> Touching(u)) /\ (NewStyle(w)' <=> NewStyle(w))
    BY <2>4, <2>6 DEF Touching, CallFrame, NewStyle
  <2>8. at[u] \in {"wait", "reap"} => thr'[w].notify = thr[w].notify
    BY <2>2, <2>3, <2>4 DEF CallAt, HandsAt, CallFrame, CallPoints
  <2>9. at[u] = "signal" \/ (at[u] = "join" /\ ~NewStyle(w)) =>
          thr'[w].notify = thr[w].notify
    BY <2>2, <2>3, <2>4 DEF CallAt, CallFrame, NewStyle, CallPoints
  <2>10. thr'[w].joinable = thr[w].joinable
         /\ (thr[w].joinable => /\ w \in plist' <=> w \in plist
                                /\ thr[w].mem = "live" => thr'[w].mem = "live")
         /\ (thr[w].parentcheck => thr'[w].parentcheck)
         /\ (thr[w].exited => thr'[w].exited)
    BY <2>4 DEF CallFrame, Listed
  <2> QED
    BY <2>1, <2>2, <2>3, <2>5, <2>6, <2>7, <2>8, <2>9, <2>10 DEF CallAt
<1> QED
  BY <1>1, <1>2

LEMMA OthersOwn ==
  ASSUME BaseInv, GoodInv, NEW a \in Thread, NEW t \in Thread, Others(a, t)
  PROVE  /\ \A u \in Thread : u # t => /\ thr'[u].notify = thr[u].notify
                                       /\ Owns(u)' <=> Owns(u)
         /\ \A u \in Thread : u # a => /\ Private(u)' <=> Private(u)
                                       /\ Private(u) => arg'[u].sem = arg[u].sem
<1>1. ASSUME NEW u \in Thread, u # t
      PROVE  thr'[u].notify = thr[u].notify /\ (Owns(u)' <=> Owns(u))
  BY <1>1, ReapedFacts DEF Others, Alike, Owns
<1>2. ASSUME NEW u \in Thread, u # a
      PROVE  (Private(u)' <=> Private(u)) /\ (Private(u) => arg'[u].sem = arg[u].sem)
  BY <1>2 DEF Others, Stays, Private
<1> QED
  BY <1>1, <1>2

\* The rest of GoodInv, for who is neither a nor t.
LEMMA GoodFrom ==
  ASSUME BaseInv, GoodInv, NEW a \in Thread, NEW t \in Thread, Others(a, t),
         at'[a] \in CallPoints => CallsOn(arg'[a].who) \subseteq {a},
         CallsOn(t) \subseteq {a} \/ CallFrame(t),
         at[a] \in {"wait", "reap"} => arg[a].who = t,
         at'[a] = "wait" => arg'[a].who = t,
         CallAt(a)', MemAt(t)', PrivAt(a)', AwaitedAt(t)', NotifyAt(t)',
         PlaceInv', PoolInv',
         Recycled' \subseteq Recycled \cup {t},
         t \in Recycled' => t \notin plist' /\ ~thr'[t].joinable,
         \A u \in Thread : u # t /\ Owns(u) =>
           sema'[thr[u].notify] = sema[thr[u].notify],
         \A u \in Thread : u # a /\ Private(u) =>
           sema'[arg[u].sem] = sema[arg[u].sem]
  PROVE  GoodInv'
<1>1. ASSUME NEW u \in Thread PROVE CallAt(u)'
  <2>1. CASE u = a
    BY <2>1
  <2>2. CASE u # a
    BY <2>2, OthersCall
  <2> QED
    BY <2>1, <2>2
<1>2. ASSUME NEW u \in Thread, u # t
      PROVE  /\ at'[u] = "dead" <=> at[u] = "dead"
             /\ at'[u] = "term" <=> at[u] = "term"
             /\ at[u] = "term" => Stays(u)
             /\ Alike(u) /\ Listed(u)
  <2>1. CASE u = a
    BY <1>2, <2>1 DEF Others
  <2>2. CASE u # a
    BY <1>2, <2>2 DEF Others, Stays
  <2> QED
    BY <2>1, <2>2
<1>3. ASSUME NEW u \in Thread PROVE MemAt(u)'
  <2>1. CASE u = t
    BY <2>1
  <2>2. CASE u # t
    <3>1. /\ at'[u] = "dead" <=> at[u] = "dead"
          /\ at'[u] = "term" <=> at[u] = "term"
          /\ Alike(u) /\ Listed(u) /\ MemAt(u)
      BY <1>2, <2>2 DEF GoodInv
    <3>2. CASE u \in Recycled
      BY <3>1, <3>2, ReapedFacts DEF MemAt, Alike, Listed, NewStyle
    <3>3. CASE u \notin Recycled
      BY <3>1, <3>3 DEF MemAt, Alike, Listed, NewStyle
    <3> QED
      BY <3>2, <3>3
  <2> QED
    BY <2>1, <2>2
<1>4. ASSUME NEW u \in Thread PROVE PrivAt(u)'
  <2>1. CASE u = a
    BY <2>1
  <2>2. CASE u # a
    BY <2>2, OthersOwn DEF PrivAt, GoodInv
  <2> QED
    BY <2>1, <2>2
<1>5. \A j \in Thread : at[j] \in {"wait", "reap"} /\ j # a => Stays(j)
  BY DEF Others
<1>6. \A j \in Thread : at'[j] = "wait" /\ j # a => Stays(j)
  BY DEF Others
<1>7. ASSUME NEW u \in Thread, u # t PROVE Waiters(u)' = Waiters(u)
  BY <1>5, <1>6, <1>7 DEF Waiters, Stays
<1>8. ASSUME NEW u \in Thread PROVE AwaitedAt(u)'
  <2>1. CASE u = t
    BY <2>1
  <2>2. CASE u # t
    <3>1. /\ at'[u] = "dead" <=> at[u] = "dead"
          /\ Alike(u) /\ AwaitedAt(u) /\ Waiters(u)' = Waiters(u)
      BY <1>2, <1>7, <2>2 DEF GoodInv
    <3>2. (NewStyle(u)' <=> NewStyle(u)) /\ (Ended(u)' <=> Ended(u))
      BY <3>1 DEF NewStyle, Ended, Alike
    <3> SUFFICES ASSUME thr'[u].joinable, thr'[u].mem = "live", thr'[u].notify # NULL
                 PROVE  AwaitedAt(u)'
      BY DEF AwaitedAt
    <3>3. /\ thr[u].joinable /\ thr[u].mem = "live" /\ thr[u].notify # NULL
          /\ thr'[u].notify = thr[u].notify
      BY <3>1 DEF Alike
    <3>4. sema'[thr[u].notify] = sema[thr[u].notify]
      BY <2>2, <3>3 DEF Owns
    <3> QED
      BY <3>1, <3>2, <3>3, <3>4 DEF AwaitedAt
  <2> QED
    BY <2>1, <2>2
<1>9. ASSUME NEW u \in Thread PROVE NotifyAt(u)'
  <2>1. CASE u = t
    BY <2>1
  <2>2. CASE u # t
    <3>1. /\ at'[u] = "term" <=> at[u] = "term"
          /\ at[u] = "term" => Stays(u)
          /\ Alike(u) /\ Listed(u) /\ NotifyAt(u)
      BY <1>2, <2>2 DEF GoodInv
    <3>2. ASSUME NEW j \in Thread, at[j] \in {"wait", "reap"}, arg[j].who = u
          PROVE  at'[j] \in {"wait", "reap"} /\ arg'[j].who = u
      BY <1>5, <2>2, <3>2 DEF Stays
    <3> QED
      BY <3>1, <3>2 DEF NotifyAt, Alike, Listed, Stays, NewStyle
  <2> QED
    BY <2>1, <2>2
<1>10. RecycleInv'
  <2>1. ASSUME NEW u \in Recycled' PROVE u \notin plist' /\ ~thr'[u].joinable
    <3>1. CASE u = t
      BY <2>1, <3>1
    <3>2. CASE u # t
      <4>1. u \in Recycled
        BY <2>1, <3>2
      <4>2. u \in Thread /\ ~thr[u].joinable /\ u \notin plist
        BY <4>1, ReapedFacts
      <4> QED
        BY <1>2, <3>2, <4>2 DEF Alike, Listed
    <3> QED
      BY <3>1, <3>2
  <2> QED
    BY <2>1 DEF RecycleInv
<1> QED
  BY <1>1, <1>3, <1>4, <1>8, <1>9, <1>10 DEF GoodInv

---------------------------------------------------------------------------
(* The places of the semaphores *)

\* Where t keeps what it has, and a gets nothing: from the pool only less.
LEMMA PlaceSame ==
  ASSUME BaseInv, GoodInv, NEW a \in Thread, NEW t \in Thread, Others(a, t),
         Owns(t)' => Owns(t) /\ thr'[t].notify = thr[t].notify,
         Private(a)' => Private(a) /\ arg'[a].sem = arg[a].sem,
         Pooled' \subseteq Pooled
  PROVE  PlaceInv'
<1>1. ASSUME NEW u \in Thread, Owns(u)'
      PROVE  Owns(u) /\ thr'[u].notify = thr[u].notify
  BY <1>1, OthersOwn
<1>2. ASSUME NEW u \in Thread, Private(u)'
      PROVE  Private(u) /\ arg'[u].sem = arg[u].sem
  BY <1>2, OthersOwn
<1> QED
  BY <1>1, <1>2 DEF GoodInv, PlaceInv

\* a takes a semaphore from the pool, or none.
LEMMA PlaceTake ==
  ASSUME BaseInv, GoodInv, NEW a \in Thread, NEW t \in Thread, Others(a, t),
         Owns(t)' => Owns(t) /\ thr'[t].notify = thr[t].notify,
         Private(a)' => arg'[a].sem \in Pooled /\ arg'[a].sem \notin Pooled',
         Pooled' \subseteq Pooled
  PROVE  PlaceInv'
<1>1. ASSUME NEW u \in Thread, Owns(u)'
      PROVE  Owns(u) /\ thr'[u].notify = thr[u].notify
  BY <1>1, OthersOwn
<1>2. ASSUME NEW u \in Thread, u # a, Private(u)'
      PROVE  Private(u) /\ arg'[u].sem = arg[u].sem
  BY <1>2, OthersOwn
<1>3. \A u \in Thread : Owns(u) => thr[u].notify \notin Pooled
  BY DEF GoodInv, PlaceInv
<1>4. \A u \in Thread : Private(u) => arg[u].sem \notin Pooled
  BY DEF GoodInv, PlaceInv
<1>5. ASSUME NEW u \in Thread, Owns(u)'
      PROVE  /\ \A w \in Thread : Owns(w)' /\ thr'[w].notify = thr'[u].notify => w = u
             /\ \A w \in Thread : Private(w)' => arg'[w].sem # thr'[u].notify
             /\ thr'[u].notify \notin Pooled'
  <2>1. Owns(u) /\ thr'[u].notify = thr[u].notify /\ thr[u].notify \notin Pooled
    BY <1>1, <1>3, <1>5
  <2>2. \A w \in Thread : Owns(w)' /\ thr'[w].notify = thr'[u].notify => w = u
    BY <1>1, <2>1 DEF GoodInv, PlaceInv
  <2>3. ASSUME NEW w \in Thread, Private(w)' PROVE arg'[w].sem # thr'[u].notify
    <3>1. CASE w = a
      BY <2>1, <2>3, <3>1
    <3>2. CASE w # a
      BY <1>2, <2>1, <2>3, <3>2 DEF GoodInv, PlaceInv
    <3> QED
      BY <3>1, <3>2
  <2> QED
    BY <2>1, <2>2, <2>3
<1>6. ASSUME NEW u \in Thread, Private(u)'
      PROVE  /\ \A w \in Thread : Private(w)' /\ arg'[w].sem = arg'[u].sem => w = u
             /\ arg'[u].sem \notin Pooled'
  <2>1. CASE u = a
    <3>1. arg'[a].sem \in Pooled /\ arg'[a].sem \notin Pooled'
      BY <1>6, <2>1
    <3>2. ASSUME NEW w \in Thread, w # a, Private(w)' PROVE arg'[w].sem # arg'[a].sem
      BY <1>2, <1>4, <3>1, <3>2
    <3> QED
      BY <2>1, <3>1, <3>2
  <2>2. CASE u # a
    <3>1. Private(u) /\ arg'[u].sem = arg[u].sem /\ arg[u].sem \notin Pooled
      BY <1>2, <1>4, <1>6, <2>2
    <3>2. ASSUME NEW w \in Thread, Private(w)', arg'[w].sem = arg'[u].sem PROVE w = u
      <4>1. w # a
        BY <3>1, <3>2
      <4> QED
        BY <1>2, <3>1, <3>2, <4>1 DEF GoodInv, PlaceInv
    <3> QED
      BY <3>1, <3>2
  <2> QED
    BY <2>1, <2>2
<1> QED
  BY <1>5, <1>6 DEF PlaceInv

\* a gives back to the pool what it took.
LEMMA PlaceBack ==
  ASSUME BaseInv, GoodInv, NEW a \in Thread, NEW t \in Thread, Others(a, t),
         Owns(t)' => Owns(t) /\ thr'[t].notify = thr[t].notify,
         Private(a), ~Private(a)', Pooled' = Pooled \cup {arg[a].sem}
  PROVE  PlaceInv'
<1>1. ASSUME NEW u \in Thread, Owns(u)'
      PROVE  Owns(u) /\ thr'[u].notify = thr[u].notify
  BY <1>1, OthersOwn
<1>2. ASSUME NEW u \in Thread, Private(u)'
      PROVE  u # a /\ Private(u) /\ arg'[u].sem = arg[u].sem
  BY <1>2, OthersOwn
<1>3. \A u \in Thread : Owns(u) => thr[u].notify \notin Pooled \cup {arg[a].sem}
  BY DEF GoodInv, PlaceInv
<1>4. \A u \in Thread : Private(u) /\ u # a => arg[u].sem \notin Pooled \cup {arg[a].sem}
  BY DEF GoodInv, PlaceInv
<1> QED
  BY <1>1, <1>2, <1>3, <1>4 DEF GoodInv, PlaceInv

\* a leaves what it took to the joiners of t.
LEMMA PlaceLeave ==
  ASSUME BaseInv, GoodInv, NEW a \in Thread, NEW t \in Thread, Others(a, t),
         Private(a), thr'[t].notify = arg[a].sem, ~Private(a)', Pooled' = Pooled
  PROVE  PlaceInv'
<1>1. ASSUME NEW u \in Thread, u # t, Owns(u)'
      PROVE  Owns(u) /\ thr'[u].notify = thr[u].notify
  BY <1>1, OthersOwn
<1>2. ASSUME NEW u \in Thread, Private(u)'
      PROVE  u # a /\ Private(u) /\ arg'[u].sem = arg[u].sem
  BY <1>2, OthersOwn
<1>3. /\ \A u \in Thread : Owns(u) => thr[u].notify # arg[a].sem
      /\ \A u \in Thread : Private(u) /\ u # a => arg[u].sem # arg[a].sem
      /\ arg[a].sem \notin Pooled
  BY DEF GoodInv, PlaceInv
<1>4. ASSUME NEW u \in Thread, Owns(u)'
      PROVE  /\ \A w \in Thread : Owns(w)' /\ thr'[w].notify = thr'[u].notify => w = u
             /\ \A w \in Thread : Private(w)' => arg'[w].sem # thr'[u].notify
             /\ thr'[u].notify \notin Pooled'
  <2>1. CASE u = t
    BY <1>1, <1>2, <1>3, <2>1
  <2>2. CASE u # t
    <3>1. Owns(u) /\ thr'[u].notify = thr[u].notify /\ thr[u].notify # arg[a].sem
      BY <1>1, <1>3, <1>4, <2>2
    <3>2. ASSUME NEW w \in Thread, Owns(w)', thr'[w].notify = thr'[u].notify PROVE w = u
      <4>1. w # t
        BY <3>1, <3>2
      <4> QED
        BY <1>1, <3>1, <3>2, <4>1 DEF GoodInv, PlaceInv
    <3> QED
      BY <1>2, <3>1, <3>2 DEF GoodInv, PlaceInv
  <2> QED
    BY <2>1, <2>2
<1>5. ASSUME NEW u \in Thread, Private(u)'
      PROVE  /\ \A w \in Thread : Private(w)' /\ arg'[w].sem = arg'[u].sem => w = u
             /\ arg'[u].sem \notin Pooled'
  BY <1>2, <1>5 DEF GoodInv, PlaceInv
<1> QED
  BY <1>4, <1>5 DEF PlaceInv

\* What the joiners of t used goes back to the pool.
LEMMA PlaceGive ==
  ASSUME BaseInv, GoodInv, NEW a \in Thread, NEW t \in Thread, Others(a, t),
         Owns(t), ~Owns(t)', ~Private(a)', Pooled' = Pooled \cup {thr[t].notify}
  PROVE  PlaceInv'
<1>1. ASSUME NEW u \in Thread, Owns(u)'
      PROVE  u # t /\ Owns(u) /\ thr'[u].notify = thr[u].notify
  BY <1>1, OthersOwn
<1>2. ASSUME NEW u \in Thread, Private(u)'
      PROVE  Private(u) /\ arg'[u].sem = arg[u].sem
  BY <1>2, OthersOwn
<1>3. \A u \in Thread : Owns(u) /\ u # t => thr[u].notify \notin Pooled \cup {thr[t].notify}
  BY DEF GoodInv, PlaceInv
<1>4. \A u \in Thread : Private(u) => arg[u].sem \notin Pooled \cup {thr[t].notify}
  BY DEF GoodInv, PlaceInv
<1> QED
  BY <1>1, <1>2, <1>3, <1>4 DEF GoodInv, PlaceInv

\* A signal, or a wait, changes one semaphore, and it has one place.
LEMMA OnlyTheirs ==
  ASSUME BaseInv, GoodInv, NEW t \in Thread, Owns(t),
         \A s \in Sem : s # thr[t].notify => sema'[s] = sema[s]
  PROVE  /\ \A u \in Thread : u # t /\ Owns(u) =>
              sema'[thr[u].notify] = sema[thr[u].notify]
         /\ \A u \in Thread : Private(u) => sema'[arg[u].sem] = sema[arg[u].sem]
         /\ \A s \in Pooled : sema'[s] = sema[s]
<1>1. \A u \in Thread : thr[u] \in ThreadRec /\ arg[u] \in ArgRec
  BY DEF BaseInv, LifeTypeOK
<1>2. \A u \in Thread : /\ Owns(u) => thr[u].notify \in Sem
                        /\ Private(u) => arg[u].sem \in Sem
  BY <1>1 DEF ThreadRec, ArgRec, Owns, Private
<1> QED
  BY <1>2 DEF GoodInv, PlaceInv, Pooled

LEMMA OnlyMine ==
  ASSUME BaseInv, GoodInv, NEW a \in Thread, Private(a),
         \A s \in Sem : s # arg[a].sem => sema'[s] = sema[s]
  PROVE  /\ \A u \in Thread : Owns(u) => sema'[thr[u].notify] = sema[thr[u].notify]
         /\ \A u \in Thread : u # a /\ Private(u) => sema'[arg[u].sem] = sema[arg[u].sem]
         /\ \A s \in Pooled : sema'[s] = sema[s]
<1>1. \A u \in Thread : thr[u] \in ThreadRec /\ arg[u] \in ArgRec
  BY DEF BaseInv, LifeTypeOK
<1>2. \A u \in Thread : /\ Owns(u) => thr[u].notify \in Sem
                        /\ Private(u) => arg[u].sem \in Sem
  BY <1>1 DEF ThreadRec, ArgRec, Owns, Private
<1> QED
  BY <1>2 DEF GoodInv, PlaceInv, Pooled

\* The pool stays clean.
LEMMA PoolSame ==
  ASSUME GoodInv, PoolDistinct', Pooled' \subseteq Pooled,
         \A s \in Pooled : sema'[s] = sema[s]
  PROVE  PoolInv'
BY DEF GoodInv, PoolInv

LEMMA PoolUnchanged ==
  ASSUME sem_pool' = sem_pool
  PROVE  Pooled' = Pooled /\ (PoolDistinct => PoolDistinct')
BY DEF Pooled, PoolDistinct

LEMMA PoolBack ==
  ASSUME BaseInv, GoodInv, NEW s \in Sem, s \notin Pooled, sem_pool' = Restored(s),
         sema'[s] = Created, \A x \in Pooled : sema'[x] = sema[x]
  PROVE  PoolInv' /\ Pooled' = Pooled \cup {s}
<1>1. LifeTypeOK /\ PoolDistinct
  BY DEF BaseInv, GoodInv, PoolInv
<1>2. Pooled' = Pooled \cup {s} /\ PoolDistinct'
  BY <1>1, RestoresOne
<1> QED
  BY <1>2 DEF GoodInv, PoolInv

LEMMA GoesOthers ==
  ASSUME BaseInv, NEW a \in Thread, NEW t \in Thread, NEW l, NEW x, Goes(a, l, x),
         a # t => at[a] \notin {"dead", "term"} /\ l \notin {"dead", "term"},
         \A u \in Thread : u # t => thr'[u] = thr[u] /\ Listed(u)
  PROVE  /\ Others(a, t) /\ at'[a] = l /\ arg'[a] = x
         /\ \A u \in Thread : u # a => Stays(u)
<1>1. /\ at'[a] = l /\ arg'[a] = x
      /\ \A u \in Thread : u # a => Stays(u)
  BY DEF Goes, BaseInv, LifeTypeOK, Stays
<1>2. \A u \in Thread : u # t => Alike(u)
  BY DEF Alike
<1> QED
  BY <1>1, <1>2 DEF Others

---------------------------------------------------------------------------
(* Calls that leave the structures alone *)

\* No structure is accessed that is not there.
LEMMA Tame ==
  ASSUME wild = {}, NEW ts, Touches(ts), \A u \in ts : thr[u].mem = "live"
  PROVE  NoWildAccess'
BY DEF Touches, NoWildAccess

LEMMA TameSame == ASSUME wild = {}, wild' = wild PROVE NoWildAccess'
BY DEF NoWildAccess

LEMMA OwnCalls ==
  ASSUME NEW a \in Thread, NEW t, CallsOn(t) \subseteq {a},
         \A u \in Thread : u # a => Stays(u),
         at'[a] \in CallPoints, arg'[a].who = t
  PROVE  CallsOn(t)' = {a}
BY DEF CallsOn, Stays

LEMMA QuietGood ==
  ASSUME BaseInv, GoodInv, NEW a \in Thread, NEW l, NEW x, Goes(a, l, x),
         at[a] \notin {"dead", "term", "wait", "reap"}, l \notin {"dead", "term", "wait"},
         UNCHANGED <<thr, plist, recycle, sema>>,
         l \in CallPoints => CallsOn(x.who) \subseteq {a},
         CallAt(a)', PrivAt(a)', PlaceInv', PoolInv'
  PROVE  GoodInv'
<1>1. \A u \in Thread : thr'[u] = thr[u] /\ Listed(u)
  BY DEF Listed
<1>2. /\ Others(a, a) /\ at'[a] = l /\ arg'[a] = x
      /\ \A u \in Thread : u # a => Stays(u)
  BY <1>1, GoesOthers
<1>3. CallFrame(a)
  BY <1>1 DEF CallFrame
<1>4. MemAt(a)'
  BY <1>2 DEF GoodInv, MemAt, NewStyle
<1>5. Waiters(a)' = Waiters(a)
  BY <1>2 DEF Waiters, Stays
<1>6. AwaitedAt(a)'
  <2>1. AwaitedAt(a) /\ (Ended(a)' <=> Ended(a)) /\ (NewStyle(a)' <=> NewStyle(a))
    BY <1>2 DEF GoodInv, Ended, NewStyle
  <2> QED
    BY <1>5, <2>1 DEF AwaitedAt
<1>7. NotifyAt(a)'
  <2>1. ASSUME NEW j \in Thread, at[j] \in {"wait", "reap"}, arg[j].who = a
        PROVE  at'[j] \in {"wait", "reap"} /\ arg'[j].who = a
    BY <1>2, <2>1 DEF Stays
  <2>2. NotifyAt(a)
    BY DEF GoodInv
  <2> QED
    BY <1>2, <2>1, <2>2 DEF NotifyAt, NewStyle
<1>8. Recycled' = Recycled /\ a \notin Recycled
  BY ReapedFacts DEF Recycled
<1>9. /\ \A u \in Thread : u # a /\ Owns(u) =>
           sema'[thr[u].notify] = sema[thr[u].notify]
      /\ \A u \in Thread : u # a /\ Private(u) =>
           sema'[arg[u].sem] = sema[arg[u].sem]
  OBVIOUS
<1>10. at'[a] \in CallPoints => CallsOn(arg'[a].who) \subseteq {a}
  BY <1>2
<1>11. /\ at[a] \in {"wait", "reap"} => arg[a].who = a
       /\ at'[a] = "wait" => arg'[a].who = a
  BY <1>2
<1>12. /\ Recycled' \subseteq Recycled \cup {a}
       /\ a \in Recycled' => a \notin plist' /\ ~thr'[a].joinable
  BY <1>8
<1> QED
  BY <1>2, <1>3, <1>4, <1>6, <1>7, <1>9, <1>10, <1>11, <1>12, GoodFrom

\* ... when the semaphores stay where they are.
LEMMA IdleGood ==
  ASSUME BaseInv, GoodInv, NEW a \in Thread, NEW l, NEW x, Goes(a, l, x),
         at[a] \notin {"dead", "term", "wait", "reap"}, l \notin {"dead", "term", "wait"},
         l \notin {"exit", "join"},
         UNCHANGED <<thr, plist, recycle, sema, sem_pool>>,
         l \in CallPoints => CallsOn(x.who) \subseteq {a},
         CallAt(a)'
  PROVE  GoodInv'
<1>1. \A u \in Thread : thr'[u] = thr[u] /\ Listed(u)
  BY DEF Listed
<1>2. /\ Others(a, a) /\ at'[a] = l
  BY <1>1, GoesOthers
<1>3. ~Private(a)' /\ PrivAt(a)'
  BY <1>2 DEF Private, PrivAt
<1>4. Owns(a)' => Owns(a) /\ thr'[a].notify = thr[a].notify
  BY <1>1 DEF Owns
<1>5. Pooled' = Pooled /\ PoolDistinct'
  BY PoolUnchanged DEF GoodInv, PoolInv
<1>6. PlaceInv'
  BY <1>2, <1>3, <1>4, <1>5, PlaceSame
<1>7. PoolInv'
  BY <1>5, PoolSame
<1> QED
  BY <1>3, <1>6, <1>7, QuietGood

LEMMA BodyGood ==
  ASSUME BaseInv, GoodInv, wild = {}, NEW t \in Thread, Body(t)
  PROVE  GoodInv' /\ NoWildAccess'
<1>1. /\ at[t] = "start" /\ Goes(t, "run", Nobody) /\ wild' = wild
      /\ UNCHANGED <<thr, plist, recycle, sema, sem_pool>>
  BY DEF Body, semVars
<1>2. at'[t] = "run"
  BY <1>1 DEF Goes, BaseInv, LifeTypeOK
<1>3. CallAt(t)' /\ "run" \notin CallPoints
  BY <1>2 DEF CallAt, CallPoints
<1> QED
  BY <1>1, <1>3, IdleGood, TameSame

LEMMA LooksGood ==
  ASSUME BaseInv, GoodInv, wild = {}, ~spoiled', NEW u \in Thread, NEW t \in Thread,
         Looks(u, t)
  PROVE  /\ at[u] = "run" /\ t \in plist /\ thr[t].mem = "live" /\ CallsOn(t) = {}
         /\ u # t /\ NewStyle(t) => thr[t].parentcheck
         /\ NoWildAccess'
<1>1. /\ at[u] = "run" /\ t \in plist /\ CallsOn(t) = {} /\ Touches({t})
      /\ u = t \/ \A p \in Thread : at[p] = "create" => arg[p].who # t
  BY DEF Looks
<1>2. thr[t].mem = "live"
  BY <1>1 DEF GoodInv, MemAt
<1>3. u # t => Parents(t) = {}
  BY <1>1 DEF Parents
<1>4. ParentAt(t) /\ thr[t].kind # "none"
  BY LooksAt DEF BaseInv, StageInv
<1> QED
  BY <1>1, <1>2, <1>3, <1>4, Tame DEF ParentAt, NewStyle

LEMMA PlainCallGood ==
  ASSUME BaseInv, GoodInv, wild = {}, ~spoiled', NEW a \in Thread, NEW t \in Thread,
         DetachCall(a, t) \/ CancelCall(a, t)
  PROVE  GoodInv' /\ NoWildAccess'
<1>1. PICK x : x = [Nobody EXCEPT !.who = t]
  OBVIOUS
<1>2. /\ Looks(a, t) /\ thr[t].joinable
      /\ UNCHANGED <<thr, plist, recycle, sema, sem_pool>>
  BY DEF DetachCall, CancelCall, semVars
<1>3. PICK l \in {"detach", "cancel"} : Goes(a, l, x)
  BY <1>1 DEF DetachCall, CancelCall
<1>4. /\ at[a] = "run" /\ t \in plist /\ thr[t].mem = "live" /\ CallsOn(t) = {}
      /\ a # t /\ NewStyle(t) => thr[t].parentcheck
      /\ NoWildAccess'
  BY <1>2, LooksGood
<1>5. x.who = t /\ ~x.flag
  BY <1>1, Arguments
<1>6. \A u \in Thread : thr'[u] = thr[u] /\ Listed(u)
  BY <1>2 DEF Listed
<1>7. /\ at'[a] = l /\ arg'[a] = x
      /\ \A u \in Thread : u # a => Stays(u)
  BY <1>3, <1>6, GoesOthers
<1>8. l \in CallPoints
  BY DEF CallPoints
<1>9. CallsOn(t)' = {a}
  BY <1>4, <1>5, <1>7, <1>8, OwnCalls
<1>10. CallAt(a)'
  BY <1>2, <1>4, <1>5, <1>6, <1>7, <1>9 DEF CallAt, NewStyle
<1>11. /\ at[a] \notin {"dead", "term", "wait", "reap"}
       /\ l \notin {"dead", "term", "wait"} /\ l \notin {"exit", "join"}
       /\ CallsOn(x.who) \subseteq {a}
  BY <1>4, <1>5
<1>12. GoodInv'
  BY <1>2, <1>3, <1>10, <1>11, IdleGood
<1> QED
  BY <1>4, <1>12

\* A join, called by the program or from pthread_detach.
LEMMA EnterJoin ==
  ASSUME BaseInv, GoodInv, NEW a \in Thread, NEW t \in Thread, NEW s, NEW x \in ArgRec,
         NEW fresh \in BOOLEAN, fresh => InPool(1),
         s = IF fresh THEN new_sem_from_pool(1) ELSE NULL,
         sem_pool' = IF fresh THEN Taken(1) ELSE sem_pool,
         at[a] \in {"run", "rejoin"}, t \in plist, thr[t].joinable,
         CallsOn(t) \subseteq {a}, a # t /\ NewStyle(t) => thr[t].parentcheck,
         Goes(a, "join", x), x.who = t, x.sem = s, ~x.flag,
         UNCHANGED <<thr, plist, recycle, sema>>
  PROVE  GoodInv'
<1>1. /\ (s = NULL <=> ~fresh) /\ Pooled' \subseteq Pooled /\ (s # NULL => s \in Pooled)
      /\ PoolDistinct' /\ Pooled' = Pooled \ {s}
  <2>1. LifeTypeOK /\ PoolDistinct
    BY DEF BaseInv, GoodInv, PoolInv
  <2> QED
    BY <2>1, TakesFresh
<1>2. \A u \in Thread : thr'[u] = thr[u] /\ Listed(u)
  BY DEF Listed
<1>3. /\ Others(a, a) /\ at'[a] = "join" /\ arg'[a] = x
      /\ \A u \in Thread : u # a => Stays(u)
  BY <1>2, GoesOthers
<1>4. "join" \in CallPoints
  BY DEF CallPoints
<1>5. CallsOn(t)' = {a}
  BY <1>3, <1>4, OwnCalls
<1>6. ~NewStyle(t) => thr[t].notify = NULL
  <2>1. ASSUME NEW j \in Thread, at[j] \in {"wait", "reap"}, arg[j].who = t PROVE FALSE
    BY <2>1 DEF CallsOn, CallPoints
  <2> QED
    BY <2>1 DEF GoodInv, NotifyAt, NewStyle
<1>7. CallAt(a)'
  BY <1>2, <1>3, <1>5, <1>6 DEF CallAt, NewStyle
<1>8. PrivAt(a)'
  BY <1>1, <1>3 DEF PrivAt, Private, GoodInv, PoolInv
<1>9. Private(a)' => arg'[a].sem \in Pooled /\ arg'[a].sem \notin Pooled'
  BY <1>1, <1>3 DEF Private
<1>10. Owns(a)' => Owns(a) /\ thr'[a].notify = thr[a].notify
  BY <1>2 DEF Owns
<1>11. PlaceInv'
  BY <1>1, <1>3, <1>9, <1>10, PlaceTake
<1>12. PoolInv'
  BY <1>1, PoolSame
<1>13. /\ at[a] \notin {"dead", "term", "wait", "reap"}
       /\ "join" \notin {"dead", "term", "wait"}
       /\ CallsOn(x.who) \subseteq {a}
  OBVIOUS
<1> QED
  BY <1>7, <1>8, <1>11, <1>12, <1>13, QuietGood

LEMMA JoinCallGood ==
  ASSUME BaseInv, GoodInv, wild = {}, ~spoiled', NEW j \in Thread, NEW t \in Thread,
         JoinCall(j, t)
  PROVE  GoodInv' /\ NoWildAccess'
<1>1. PICK fresh \in BOOLEAN : fresh = (~NewStyle(t) \/ thr[t].notify = NULL)
  OBVIOUS
<1>2. PICK s : s = IF fresh THEN new_sem_from_pool(1) ELSE NULL
  OBVIOUS
<1>3. PICK x : x = [who |-> t, flag |-> FALSE, sem |-> s]
  OBVIOUS
<1>4. /\ Looks(j, t) /\ thr[t].joinable /\ (fresh => InPool(1))
      /\ sem_pool' = IF fresh THEN Taken(1) ELSE sem_pool
      /\ Goes(j, "join", x) /\ UNCHANGED <<thr, plist, recycle, sema>>
  BY <1>1, <1>2, <1>3 DEF JoinCall
<1>5. /\ at[j] = "run" /\ t \in plist /\ CallsOn(t) = {}
      /\ j # t /\ NewStyle(t) => thr[t].parentcheck
      /\ NoWildAccess'
  BY <1>4, LooksGood
<1>6. s \in Sem \cup {NULL}
  BY <1>2, <1>4, TakesFresh DEF BaseInv
<1>7. x \in ArgRec /\ x.who = t /\ x.sem = s /\ ~x.flag
  BY <1>3, <1>6 DEF ArgRec
<1>8. at[j] \in {"run", "rejoin"} /\ CallsOn(t) \subseteq {j}
  BY <1>5
<1>9. GoodInv'
  BY <1>2, <1>4, <1>5, <1>7, <1>8, EnterJoin
<1> QED
  BY <1>5, <1>9

\* Who calls is alone on a thread that is on the list.
LEMMA TouchingGood ==
  ASSUME BaseInv, GoodInv, NEW a \in Thread, Touching(a)
  PROVE  /\ arg[a].who \in Thread /\ CallsOn(arg[a].who) = {a} /\ arg[a].who \in plist
         /\ thr[arg[a].who].joinable /\ thr[arg[a].who].mem = "live"
         /\ a # arg[a].who /\ NewStyle(arg[a].who) => thr[arg[a].who].parentcheck
<1>1. at[a] \in CallPoints
  BY DEF Touching, CallPoints
<1>2. arg[a].who \in Thread /\ CallAt(a)
  BY <1>1, CallsWhom DEF GoodInv
<1> QED
  BY <1>1, <1>2 DEF CallAt, GoodInv, MemAt

LEMMA DetachJoinGood ==
  ASSUME BaseInv, GoodInv, wild = {}, NEW d \in Thread, DetachJoin(d)
  PROVE  GoodInv' /\ NoWildAccess'
<1>1. PICK t : t = arg[d].who
  OBVIOUS
<1>2. PICK fresh \in BOOLEAN : fresh = (~NewStyle(t) \/ thr[t].notify = NULL)
  OBVIOUS
<1>3. PICK s : s = IF fresh THEN new_sem_from_pool(1) ELSE NULL
  OBVIOUS
<1>4. PICK x : x = [arg[d] EXCEPT !.sem = s]
  OBVIOUS
<1>5. at[d] = "rejoin" /\ Touching(d)
  BY DEF DetachJoin, Touching
<1>6. /\ t \in Thread /\ CallsOn(t) = {d} /\ t \in plist
      /\ thr[t].joinable /\ thr[t].mem = "live"
      /\ d # t /\ NewStyle(t) => thr[t].parentcheck
  BY <1>1, <1>5, TouchingGood
<1>7. /\ fresh => InPool(1)
      /\ sem_pool' = IF fresh THEN Taken(1) ELSE sem_pool
      /\ Goes(d, "join", x) /\ Touches({t})
      /\ UNCHANGED <<thr, plist, recycle, sema>>
  BY <1>1, <1>2, <1>3, <1>4, <1>6 DEF DetachJoin
<1>8. s \in Sem \cup {NULL} /\ arg[d] \in ArgRec
  BY <1>3, <1>7, TakesFresh DEF BaseInv, LifeTypeOK
<1>9. x \in ArgRec /\ x.who = t /\ x.sem = s /\ ~x.flag
  <2>1. ~arg[d].flag
    BY <1>5 DEF GoodInv, CallAt, CallPoints
  <2> QED
    BY <1>1, <1>4, <1>8, <2>1 DEF ArgRec
<1>10. GoodInv'
  <2>1. at[d] \in {"run", "rejoin"} /\ CallsOn(t) \subseteq {d}
    BY <1>5, <1>6
  <2> QED
    BY <1>3, <1>6, <1>7, <1>9, <2>1, EnterJoin
<1>11. NoWildAccess'
  BY <1>6, <1>7, Tame
<1> QED
  BY <1>10, <1>11

LEMMA JoinRefusedGood ==
  ASSUME BaseInv, GoodInv, wild = {}, NEW j \in Thread, JoinRefused(j)
  PROVE  GoodInv' /\ NoWildAccess'
<1>1. /\ at[j] = "join" /\ Goes(j, "run", Nobody) /\ Touches({arg[j].who})
      /\ sem_pool' = IF arg[j].sem = NULL THEN sem_pool ELSE Restored(arg[j].sem)
      /\ UNCHANGED <<thr, plist, recycle, sema>>
  BY DEF JoinRefused
<1>2. thr[arg[j].who].mem = "live"
  BY <1>1, TouchingGood DEF Touching
<1>3. NoWildAccess'
  BY <1>1, <1>2, Tame
<1>4. \A u \in Thread : thr'[u] = thr[u] /\ Listed(u)
  BY <1>1 DEF Listed
<1>5. Others(j, j) /\ at'[j] = "run"
  BY <1>1, <1>4, GoesOthers
<1>6. /\ CallAt(j)' /\ PrivAt(j)' /\ ~Private(j)' /\ "run" \notin CallPoints
      /\ Owns(j)' => Owns(j) /\ thr'[j].notify = thr[j].notify
  BY <1>4, <1>5 DEF CallAt, PrivAt, Private, CallPoints, Owns
<1>7. PlaceInv' /\ PoolInv'
  <2>1. CASE arg[j].sem = NULL
    <3>1. Pooled' = Pooled /\ PoolDistinct'
      BY <1>1, <2>1, PoolUnchanged DEF GoodInv, PoolInv
    <3>2. \A s \in Pooled : sema'[s] = sema[s]
      BY <1>1
    <3> QED
      BY <1>5, <1>6, <3>1, <3>2, PlaceSame, PoolSame
  <2>2. CASE arg[j].sem # NULL
    <3>1. Private(j) /\ arg[j].sem \in Sem
      BY <1>1, <2>2 DEF Private, BaseInv, LifeTypeOK, ArgRec
    <3>2. arg[j].sem \notin Pooled /\ sema[arg[j].sem] = Created
      BY <3>1 DEF GoodInv, PlaceInv, PrivAt
    <3>3. /\ sem_pool' = Restored(arg[j].sem) /\ sema'[arg[j].sem] = Created
          /\ \A s \in Pooled : sema'[s] = sema[s]
      BY <1>1, <2>2, <3>2
    <3>4. PoolInv' /\ Pooled' = Pooled \cup {arg[j].sem}
      BY <3>1, <3>2, <3>3, PoolBack
    <3> QED
      BY <1>5, <1>6, <3>1, <3>4, PlaceBack
  <2> QED
    BY <2>1, <2>2
<1>8. GoodInv'
  BY <1>1, <1>6, <1>7, QuietGood
<1> QED
  BY <1>3, <1>8

---------------------------------------------------------------------------
(* Calls that edit the structure of the thread they are about *)

\* A step of a on t, after which nobody waits for t that did not before.
LEMMA EditGood ==
  ASSUME BaseInv, GoodInv, NEW a \in Thread, NEW t \in Thread, Others(a, t),
         \A u \in Thread : u # a => Stays(u),
         CallsOn(t) = {a}, arg[a].who = t, at[a] \in CallPoints,
         at'[a] \in CallPoints => arg'[a].who = t,
         CallAt(a)', MemAt(t)', PrivAt(a)', AwaitedAt(t)', NotifyAt(t)',
         PlaceInv', PoolInv', recycle' = recycle,
         t \in Recycled => t \notin plist' /\ ~thr'[t].joinable,
         \A u \in Thread : u # t /\ Owns(u) =>
           sema'[thr[u].notify] = sema[thr[u].notify],
         \A u \in Thread : u # a /\ Private(u) =>
           sema'[arg[u].sem] = sema[arg[u].sem]
  PROVE  GoodInv'
<1>1. Recycled' = Recycled
  BY DEF Recycled
<1>2. /\ at'[a] \in CallPoints => CallsOn(arg'[a].who) \subseteq {a}
      /\ CallsOn(t) \subseteq {a} \/ CallFrame(t)
      /\ at[a] \in {"wait", "reap"} => arg[a].who = t
      /\ at'[a] = "wait" => arg'[a].who = t
  BY DEF CallPoints
<1>3. /\ Recycled' \subseteq Recycled \cup {t}
      /\ t \in Recycled' => t \notin plist' /\ ~thr'[t].joinable
  BY <1>1
<1> QED
  BY <1>2, <1>3, GoodFrom

LEMMA CancelLockedGood ==
  ASSUME BaseInv, GoodInv, wild = {}, NEW c \in Thread, CancelLocked(c)
  PROVE  GoodInv' /\ NoWildAccess'
<1>1. PICK t : t = arg[c].who
  OBVIOUS
<1>2. /\ at[c] = "cancel" /\ Goes(c, "run", Nobody) /\ Touches({t})
      /\ thr' = [thr EXCEPT ![t].pending = TRUE]
      /\ UNCHANGED <<plist, recycle, sema, sem_pool>>
  BY <1>1 DEF CancelLocked, semVars
<1>3. /\ t \in Thread /\ CallsOn(t) = {c} /\ t \in plist /\ thr[t].joinable
      /\ thr[t].mem = "live"
  BY <1>1, <1>2, TouchingGood DEF Touching
<1>4. NoWildAccess'
  BY <1>2, <1>3, Tame
<1>5. \A u \in Thread : u # t => thr'[u] = thr[u] /\ Listed(u)
  BY <1>2, <1>3 DEF BaseInv, LifeTypeOK, Listed
<1>6. /\ Others(c, t) /\ at'[c] = "run" /\ arg'[c] = Nobody
      /\ \A u \in Thread : u # c => Stays(u)
  BY <1>2, <1>3, <1>5, GoesOthers
<1>7. Alike(t)
  <2>1. thr[t] \in ThreadRec /\ thr'[t] = [thr[t] EXCEPT !.pending = TRUE]
    BY <1>2, <1>3 DEF BaseInv, LifeTypeOK
  <2> QED
    BY <2>1 DEF Alike, ThreadRec
<1>8. t \notin Recycled
  BY <1>3, ReapedFacts
<1>9. /\ CallAt(c)' /\ PrivAt(c)' /\ ~Private(c)' /\ at'[c] \notin CallPoints
      /\ at[c] \in CallPoints
  BY <1>2, <1>6 DEF CallAt, PrivAt, Private, CallPoints
<1>10. /\ at'[t] = "dead" <=> at[t] = "dead"
       /\ at'[t] = "term" <=> at[t] = "term"
       /\ at[t] = "term" => arg'[t] = arg[t]
  BY <1>2, <1>3, <1>6 DEF Stays
<1>11. MemAt(t)'
  BY <1>2, <1>3, <1>7, <1>8, <1>10 DEF GoodInv, MemAt, Alike, NewStyle
<1>12. ASSUME NEW j \in Thread
       PROVE  /\ at'[j] = "wait" <=> at[j] = "wait"
              /\ at'[j] \in {"wait", "reap"} <=> at[j] \in {"wait", "reap"}
              /\ at[j] \in {"wait", "reap"} => arg'[j] = arg[j]
  BY <1>2, <1>6 DEF Stays
<1>13. Waiters(t)' = Waiters(t)
  BY <1>12 DEF Waiters
<1>14. AwaitedAt(t)'
  <2>1. AwaitedAt(t) /\ (Ended(t)' <=> Ended(t)) /\ (NewStyle(t)' <=> NewStyle(t))
    BY <1>3, <1>7, <1>10 DEF GoodInv, Ended, NewStyle, Alike
  <2> QED
    BY <1>2, <1>7, <1>8, <1>13, <2>1 DEF AwaitedAt, Alike
<1>15. NotifyAt(t)'
  <2>1. NotifyAt(t)
    BY <1>3 DEF GoodInv
  <2> QED
    BY <1>2, <1>7, <1>10, <1>12, <2>1 DEF NotifyAt, NewStyle, Alike
<1>16. Pooled' = Pooled /\ PoolDistinct'
  BY <1>2, PoolUnchanged DEF GoodInv, PoolInv
<1>17. PoolInv'
  BY <1>2, <1>16, PoolSame
<1>18. PlaceInv'
  <2>1. Owns(t)' => Owns(t) /\ thr'[t].notify = thr[t].notify
    BY <1>7, <1>8 DEF Owns, Alike
  <2> QED
    BY <1>3, <1>6, <1>9, <1>16, <2>1, PlaceSame
<1>19. /\ \A u \in Thread : u # t /\ Owns(u) =>
            sema'[thr[u].notify] = sema[thr[u].notify]
       /\ \A u \in Thread : u # c /\ Private(u) =>
            sema'[arg[u].sem] = sema[arg[u].sem]
  BY <1>2
<1>20. GoodInv'
  BY <1>1, <1>2, <1>3, <1>6, <1>8, <1>9, <1>11, <1>14, <1>15, <1>17, <1>18, <1>19,
     EditGood
<1> QED
  BY <1>4, <1>20

LEMMA DetachSignalGood ==
  ASSUME BaseInv, GoodInv, wild = {}, NEW d \in Thread, DetachSignal(d)
  PROVE  GoodInv' /\ NoWildAccess'
<1>1. PICK t, s : t = arg[d].who /\ s = arg[d].sem
  OBVIOUS
<1>2. /\ at[d] = "signal" /\ Goes(d, "run", Nobody) /\ wild' = wild
      /\ sema' = IF s # NULL THEN Signalled(sema, s) ELSE sema
      /\ UNCHANGED <<thr, plist, recycle, sem_pool>>
  BY <1>1 DEF DetachSignal
<1>3. at[d] \in CallPoints
  BY <1>2 DEF CallPoints
<1>4. /\ t \in Thread /\ CallsOn(t) = {d} /\ ~thr[t].joinable /\ s = thr[t].notify
  BY <1>1, <1>2, <1>3, CallsWhom DEF GoodInv, CallAt
<1>5. NoWildAccess'
  BY <1>2, TameSame
<1>6. \A u \in Thread : thr'[u] = thr[u] /\ Listed(u)
  BY <1>2 DEF Listed
<1>7. /\ Others(d, t) /\ at'[d] = "run" /\ arg'[d] = Nobody
      /\ \A u \in Thread : u # d => Stays(u)
  BY <1>2, <1>4, <1>6, GoesOthers
<1>8. /\ CallAt(d)' /\ PrivAt(d)' /\ ~Private(d)' /\ at'[d] \notin CallPoints
  BY <1>7 DEF CallAt, PrivAt, Private, CallPoints
<1>9. /\ at'[t] = "dead" <=> at[t] = "dead"
      /\ at'[t] = "term" <=> at[t] = "term"
      /\ at[t] = "term" => arg'[t] = arg[t]
  BY <1>2, <1>7, <1>4 DEF Stays
<1>10. MemAt(t)'
  BY <1>4, <1>6, <1>9 DEF GoodInv, MemAt, NewStyle, Listed
<1>11. AwaitedAt(t)'
  BY <1>4, <1>6 DEF AwaitedAt
<1>12. NotifyAt(t)'
  BY <1>4, <1>6, <1>9 DEF GoodInv, NotifyAt, NewStyle, Listed
<1>13. /\ \A u \in Thread : u # t /\ Owns(u) =>
            sema'[thr[u].notify] = sema[thr[u].notify]
       /\ \A u \in Thread : Private(u) => sema'[arg[u].sem] = sema[arg[u].sem]
       /\ \A x \in Pooled : sema'[x] = sema[x]
  <2>1. CASE s = NULL
    BY <1>2, <2>1
  <2>2. CASE s # NULL
    <3>1. s \in Sem /\ sema \in [Sem -> SemRec]
      BY <1>1, <2>2 DEF BaseInv, LifeTypeOK, ArgRec
    <3>2. \A x \in Sem : x # s => sema'[x] = sema[x]
      BY <1>2, <2>2, <3>1, SignalledSem
    <3>3. Owns(t)
      BY <1>4, <2>2 DEF Owns
    <3> QED
      BY <1>4, <3>2, <3>3, OnlyTheirs
  <2> QED
    BY <2>1, <2>2
<1>14. Pooled' = Pooled /\ PoolDistinct'
  BY <1>2, PoolUnchanged DEF GoodInv, PoolInv
<1>15. PoolInv'
  BY <1>13, <1>14, PoolSame
<1>16. PlaceInv'
  <2>1. Owns(t)' => Owns(t) /\ thr'[t].notify = thr[t].notify
    BY <1>4, <1>6 DEF Owns
  <2> QED
    BY <1>4, <1>7, <1>8, <1>14, <2>1, PlaceSame
<1>17. t \in Recycled => t \notin plist' /\ ~thr'[t].joinable
  BY <1>2, ReapedFacts
<1>18. GoodInv'
  BY <1>1, <1>2, <1>3, <1>4, <1>7, <1>8, <1>10, <1>11, <1>12, <1>13, <1>15, <1>16,
     <1>17, EditGood
<1> QED
  BY <1>5, <1>18

LEMMA DetachLockedGood ==
  ASSUME BaseInv, GoodInv, wild = {}, NEW d \in Thread, DetachLocked(d)
  PROVE  GoodInv' /\ NoWildAccess'
<1>1. PICK t : t = arg[d].who
  OBVIOUS
<1>2. /\ at[d] = "detach" /\ Touches({t})
      /\ UNCHANGED <<plist, recycle, sema, sem_pool>>
  BY <1>1 DEF DetachLocked, semVars
<1>3. /\ t \in Thread /\ CallsOn(t) = {d} /\ t \in plist /\ thr[t].joinable
      /\ thr[t].mem = "live" /\ (d # t /\ NewStyle(t) => thr[t].parentcheck)
  BY <1>1, <1>2, TouchingGood DEF Touching
<1>4. NoWildAccess'
  BY <1>2, <1>3, Tame
<1>5. at[d] \in CallPoints /\ {"signal", "rejoin"} \subseteq CallPoints
  BY <1>2 DEF CallPoints
<1>6. CASE thr[t].exited
  <2>1. thr' = thr /\ Goes(d, "rejoin", arg[d])
    BY <1>1, <1>3, <1>6 DEF DetachLocked
  <2>2. \A u \in Thread : thr'[u] = thr[u] /\ Listed(u)
    BY <1>2, <2>1 DEF Listed
  <2>3. at'[d] = "rejoin" /\ arg'[d] = arg[d] /\ \A u \in Thread : u # d => Stays(u)
    BY <1>2, <2>1, <2>2, GoesOthers
  <2>4. CallsOn(t)' = {d}
    BY <1>1, <1>3, <1>5, <2>3, OwnCalls
  <2>5. CallAt(d)'
    <3>1. ~arg[d].flag
      BY <1>2, <1>5 DEF GoodInv, CallAt
    <3> QED
      BY <1>1, <1>2, <1>3, <2>2, <2>3, <2>4, <3>1 DEF CallAt, NewStyle
  <2>6. /\ at[d] \notin {"dead", "term", "wait", "reap"}
        /\ "rejoin" \notin {"dead", "term", "wait"} /\ "rejoin" \notin {"exit", "join"}
        /\ CallsOn(arg[d].who) \subseteq {d}
        /\ UNCHANGED <<thr, plist, recycle, sema, sem_pool>>
    BY <1>1, <1>2, <1>3, <2>1
  <2>7. GoodInv'
    BY <2>1, <2>5, <2>6, IdleGood
  <2> QED
    BY <1>4, <2>7
<1>7. CASE ~thr[t].exited
  <2>1. PICK x, r : /\ x = [arg[d] EXCEPT !.sem = thr[t].notify]
                    /\ r = [thr[t] EXCEPT !.joinable = FALSE]
    OBVIOUS
  <2>2. thr' = [thr EXCEPT ![t] = r] /\ Goes(d, "signal", x)
    BY <1>1, <1>3, <1>7, <2>1 DEF DetachLocked
  <2>3. thr[t] \in ThreadRec /\ arg[d] \in ArgRec /\ FlagsAt(t) /\ LifeTypeOK
    BY <1>3 DEF BaseInv, LifeTypeOK, StageInv
  <2>4. /\ r \in ThreadRec /\ r.kind = thr[t].kind /\ r.joinable = FALSE
        /\ r.exited = thr[t].exited /\ r.parentcheck = thr[t].parentcheck
        /\ r.kport = thr[t].kport /\ r.notify = thr[t].notify /\ r.mem = thr[t].mem
    BY <2>1, <2>3 DEF ThreadRec
  <2>5. x.who = t /\ x.sem = thr[t].notify
    BY <1>1, <2>1, <2>3 DEF ArgRec
  <2>6. thr'[t] = r /\ \A u \in Thread : u # t => thr'[u] = thr[u] /\ Listed(u)
    BY <1>2, <1>3, <2>2, <2>3, <2>4, ChangesThread DEF Listed
  <2>7. /\ Others(d, t) /\ at'[d] = "signal" /\ arg'[d] = x
        /\ \A u \in Thread : u # d => Stays(u)
    BY <1>2, <1>3, <2>2, <2>6, GoesOthers
  <2>8. CallsOn(t)' = {d}
    BY <1>3, <1>5, <2>5, <2>7, OwnCalls
  <2>9. CallAt(d)' /\ PrivAt(d)' /\ ~Private(d)'
    BY <1>3, <2>4, <2>5, <2>6, <2>7, <2>8
       DEF CallAt, Touching, NewStyle, PrivAt, Private
  <2>10. at[t] \notin {"free", "term", "oldfree", "dead"}
    BY <1>7, <2>3 DEF FlagsAt
  <2>11. at'[t] \notin {"term", "dead"}
    BY <1>3, <2>7, <2>10 DEF Stays
  <2>12. MemAt(t)'
    BY <1>2, <1>3, <2>4, <2>6, <2>11 DEF MemAt, NewStyle
  <2>13. AwaitedAt(t)'
    BY <2>4, <2>6 DEF AwaitedAt
  <2>14. NotifyAt(t)'
    BY <1>3, <2>4, <2>6, <2>11 DEF GoodInv, NotifyAt
  <2>15. Pooled' = Pooled /\ PoolDistinct'
    BY <1>2, PoolUnchanged DEF GoodInv, PoolInv
  <2>16. PoolInv'
    BY <1>2, <2>15, PoolSame
  <2>17. PlaceInv'
    <3>1. Owns(t)' => Owns(t) /\ thr'[t].notify = thr[t].notify
      BY <1>3, <2>4, <2>6 DEF Owns
    <3> QED
      BY <1>3, <2>7, <2>9, <2>15, <3>1, PlaceSame
  <2>18. t \notin Recycled
    BY <1>3, ReapedFacts
  <2>19. /\ \A u \in Thread : u # t /\ Owns(u) =>
              sema'[thr[u].notify] = sema[thr[u].notify]
         /\ \A u \in Thread : u # d /\ Private(u) =>
              sema'[arg[u].sem] = sema[arg[u].sem]
    BY <1>2
  <2>20. GoodInv'
    BY <1>1, <1>2, <1>3, <1>5, <2>5, <2>7, <2>9, <2>12, <2>13, <2>14, <2>16, <2>17,
       <2>18, <2>19, EditGood
  <2> QED
    BY <1>4, <2>20
<1> QED
  BY <1>6, <1>7

\* The joiner of t is alone, and sleeps until t has ended.
LEMMA WaiterFacts ==
  ASSUME BaseInv, GoodInv, NEW j \in Thread, NEW t \in Thread, t = arg[j].who,
         at[j] = "wait"
  PROVE  /\ j # t /\ Waiters(t) = {j} /\ thr[t].notify = arg[j].sem /\ Owns(t)
         /\ arg[j].sem \in Sem
         /\ sema[arg[j].sem] = [count |-> 0, queue |-> IF Ended(t) THEN <<>> ELSE <<j>>]
         /\ InQueue(j, arg[j].sem) <=> ~Ended(t)
<1>1. at[j] \in CallPoints /\ Touching(j)
  BY DEF CallPoints, Touching
<1>2. CallsOn(t) = {j} /\ thr[t].joinable /\ thr[t].mem = "live"
  BY <1>1, TouchingGood
<1>3. j # t /\ thr[t].notify = arg[j].sem
  BY <1>1 DEF GoodInv, CallAt
<1>4. arg[j].sem # NULL /\ arg[j].sem \in Sem
  BY DEF BaseInv, StageInv, HandsAt, LifeTypeOK, ArgRec
<1>5. j \in Waiters(t)
  BY DEF Waiters
<1>6. PICK i \in Thread :
        /\ Waiters(t) = {i}
        /\ sema[thr[t].notify] = [count |-> 0, queue |-> IF Ended(t) THEN <<>> ELSE <<i>>]
  BY <1>2, <1>3, <1>4, <1>5 DEF GoodInv, AwaitedAt
<1>7. i = j
  BY <1>5, <1>6
<1>8. sema[arg[j].sem].queue = IF Ended(t) THEN <<>> ELSE <<j>>
  BY <1>3, <1>6, <1>7
<1>9. InQueue(j, arg[j].sem) <=> ~Ended(t)
  BY <1>8 DEF InQueue
<1> QED
  BY <1>2, <1>3, <1>4, <1>6, <1>7, <1>9 DEF Owns

LEMMA JoinReapGood ==
  ASSUME BaseInv, GoodInv, wild = {}, NEW j \in Thread, JoinReap(j)
  PROVE  GoodInv' /\ NoWildAccess'
<1>1. PICK t, s : t = arg[j].who /\ s = arg[j].sem
  OBVIOUS
<1>2. /\ at[j] = "wait" /\ ~InQueue(j, s) /\ NewStyle(t) /\ Goes(j, "run", Nobody)
      /\ sem_pool' = Restored(s) /\ UNCHANGED <<recycle, sema>>
  BY <1>1 DEF JoinReap
<1>3. at[j] \in CallPoints /\ Touching(j)
  BY <1>2 DEF CallPoints, Touching
<1>4. /\ t \in Thread /\ CallsOn(t) = {j} /\ t \in plist /\ thr[t].joinable
      /\ thr[t].mem = "live" /\ (j # t /\ NewStyle(t) => thr[t].parentcheck)
  BY <1>1, <1>3, TouchingGood
<1>5. /\ j # t /\ Waiters(t) = {j} /\ thr[t].notify = s /\ Owns(t) /\ s \in Sem
      /\ sema[s] = [count |-> 0, queue |-> IF Ended(t) THEN <<>> ELSE <<j>>] /\ Ended(t)
  BY <1>1, <1>2, <1>4, WaiterFacts
<1>6. sema[s] = Created /\ at[t] = "dead"
  BY <1>2, <1>5 DEF Created, Ended
<1>7. PICK r : r = [thr[t] EXCEPT !.mem = "freed"]
  OBVIOUS
<1>8. /\ thr' = [thr EXCEPT ![t] = r] /\ plist' = plist \ {t} /\ Touches({t})
  BY <1>1, <1>4, <1>7 DEF JoinReap, Freed
<1>9. thr[t] \in ThreadRec /\ LifeTypeOK
  BY <1>4 DEF BaseInv, LifeTypeOK
<1>10. /\ r \in ThreadRec /\ r.kind = thr[t].kind /\ r.joinable = thr[t].joinable
       /\ r.exited = thr[t].exited /\ r.parentcheck = thr[t].parentcheck
       /\ r.kport = thr[t].kport /\ r.notify = thr[t].notify /\ r.mem = "freed"
  BY <1>7, <1>9 DEF ThreadRec
<1>11. thr'[t] = r /\ \A u \in Thread : u # t => thr'[u] = thr[u] /\ Listed(u)
  BY <1>4, <1>8, <1>9, <1>10, ChangesThread DEF Listed
<1>12. NoWildAccess'
  BY <1>4, <1>8, Tame
<1>13. /\ Others(j, t) /\ at'[j] = "run" /\ arg'[j] = Nobody
       /\ \A u \in Thread : u # j => Stays(u)
  BY <1>2, <1>4, <1>11, GoesOthers
<1>14. CallAt(j)' /\ PrivAt(j)' /\ ~Private(j)' /\ at'[j] \notin CallPoints
  BY <1>13 DEF CallAt, PrivAt, Private, CallPoints
<1>15. at'[t] = "dead"
  BY <1>4, <1>5, <1>6, <1>13 DEF Stays
<1>16. MemAt(t)' /\ AwaitedAt(t)'
  BY <1>2, <1>4, <1>5, <1>8, <1>10, <1>11, <1>15 DEF MemAt, AwaitedAt, NewStyle
<1>17. NotifyAt(t)'
  BY <1>2, <1>4, <1>10, <1>11, <1>15 DEF GoodInv, NotifyAt, NewStyle
<1>18. s \notin Pooled
  BY <1>4, <1>5 DEF GoodInv, PlaceInv
<1>19. /\ sema'[s] = Created /\ \A x \in Pooled : sema'[x] = sema[x]
       /\ \A u \in Thread : u # t /\ Owns(u) =>
            sema'[thr[u].notify] = sema[thr[u].notify]
       /\ \A u \in Thread : u # j /\ Private(u) =>
            sema'[arg[u].sem] = sema[arg[u].sem]
  BY <1>2, <1>6
<1>20. PoolInv' /\ Pooled' = Pooled \cup {s}
  BY <1>2, <1>5, <1>18, <1>19, PoolBack
<1>21. PlaceInv'
  <2>1. ~Owns(t)'
    BY <1>4, <1>10, <1>11 DEF Owns
  <2> QED
    BY <1>4, <1>5, <1>13, <1>14, <1>20, <2>1, PlaceGive
<1>22. t \notin Recycled
  BY <1>4, ReapedFacts
<1>23. GoodInv'
  BY <1>1, <1>2, <1>3, <1>4, <1>13, <1>14, <1>16, <1>17, <1>19, <1>20, <1>21, <1>22,
     EditGood
<1> QED
  BY <1>12, <1>23

\* Nobody waits for a thread whose joiner does something else.
LEMMA NoWaiters ==
  ASSUME NEW j \in Thread, NEW t \in Thread, CallsOn(t) \subseteq {j}, at[j] # "wait"
  PROVE  Waiters(t) = {}
BY DEF CallsOn, Waiters, CallPoints

LEMMA ReaperFacts ==
  ASSUME BaseInv, GoodInv, NEW j \in Thread, at[j] = "reap"
  PROVE  LET t == arg[j].who  s == arg[j].sem IN
           /\ t \in Thread /\ j # t /\ CallsOn(t) = {j} /\ thr[t].exited
           /\ thr[t].notify = s /\ s \in Sem /\ Owns(t) /\ sema[s] = Created
           /\ thr[t].joinable /\ thr[t].mem = "live" /\ ~NewStyle(t) /\ Waiters(t) = {}
<1>1. PICK t, s : t = arg[j].who /\ s = arg[j].sem
  OBVIOUS
<1>2. at[j] \in CallPoints
  BY DEF CallPoints
<1>3. CallAt(j) /\ HandsAt(j) /\ t \in Thread
  BY <1>1, <1>2, CallsWhom DEF GoodInv
<1>4. /\ j # t /\ CallsOn(t) = {j} /\ thr[t].exited /\ thr[t].notify = s
      /\ s # NULL /\ ~NewStyle(t)
  BY <1>1, <1>2, <1>3 DEF CallAt, HandsAt
<1>5. thr[t].joinable /\ thr[t].mem = "live"
  BY <1>1, <1>2, <1>3, <1>4 DEF CallAt, Touching, GoodInv, MemAt
<1>6. s \in Sem
  BY <1>1, <1>4 DEF BaseInv, LifeTypeOK, ArgRec
<1>7. Waiters(t) = {}
  BY <1>3, <1>4, NoWaiters
<1>8. sema[s] = Created
  BY <1>3, <1>4, <1>5, <1>7 DEF GoodInv, AwaitedAt, Created
<1> QED
  BY <1>1, <1>3, <1>4, <1>5, <1>6, <1>7, <1>8 DEF Owns

LEMMA JoinUnlinkGood ==
  ASSUME BaseInv, GoodInv, wild = {}, NEW j \in Thread, JoinUnlink(j)
  PROVE  GoodInv' /\ NoWildAccess'
<1>1. PICK t, s, x : t = arg[j].who /\ s = arg[j].sem /\ x = [arg[j] EXCEPT !.flag = TRUE]
  OBVIOUS
<1>2. /\ at[j] \in {"wait", "reap"} /\ ~arg[j].flag /\ ~NewStyle(t) /\ ~InQueue(j, s)
      /\ plist' = plist \ {t} /\ Goes(j, "reap", x)
      /\ wild' = IF t = Main \/ t \notin plist THEN wild \cup {t} ELSE wild
      /\ UNCHANGED <<thr, recycle, sema, sem_pool>>
  BY <1>1 DEF JoinUnlink, semVars
<1>3. at[j] \in CallPoints /\ Touching(j)
  BY <1>2 DEF CallPoints, Touching
<1>4. /\ t \in Thread /\ CallsOn(t) = {j} /\ t \in plist /\ thr[t].joinable
      /\ thr[t].mem = "live"
  BY <1>1, <1>3, TouchingGood
<1>5. /\ j # t /\ thr[t].exited /\ thr[t].notify = s /\ Owns(t) /\ sema[s] = Created
  <2>1. CASE at[j] = "wait"
    <3>1. /\ j # t /\ thr[t].notify = s /\ Owns(t) /\ Ended(t)
          /\ sema[s] = [count |-> 0, queue |-> IF Ended(t) THEN <<>> ELSE <<j>>]
      BY <1>1, <1>2, <1>4, <2>1, WaiterFacts
    <3> QED
      BY <1>2, <3>1 DEF Ended, Created
  <2>2. CASE at[j] = "reap"
    BY <1>1, <2>2, ReaperFacts
  <2> QED
    BY <1>2, <2>1, <2>2
<1>6. NoWildAccess'
  BY <1>2, <1>4 DEF NoWildAccess
<1>7. x.who = t /\ x.sem = s /\ x.flag = TRUE
  BY <1>1 DEF BaseInv, LifeTypeOK, ArgRec
<1>8. /\ \A u \in Thread : thr'[u] = thr[u]
      /\ \A u \in Thread : u # t => thr'[u] = thr[u] /\ Listed(u)
  BY <1>2 DEF Listed
<1>9. /\ Others(j, t) /\ at'[j] = "reap" /\ arg'[j] = x
      /\ \A u \in Thread : u # j => Stays(u)
  BY <1>2, <1>4, <1>8, GoesOthers
<1>10. CallsOn(t)' = {j} /\ at'[j] \in CallPoints
  <2>1. "reap" \in CallPoints
    BY DEF CallPoints
  <2> QED
    BY <1>4, <1>7, <1>9, <2>1, OwnCalls
<1>11. CallAt(j)' /\ PrivAt(j)' /\ ~Private(j)'
  BY <1>2, <1>4, <1>5, <1>7, <1>8, <1>9, <1>10
     DEF CallAt, Touching, NewStyle, PrivAt, Private
<1>12. at'[t] = at[t] /\ arg'[t] = arg[t]
  BY <1>4, <1>5, <1>9 DEF Stays
<1>13. MemAt(t)'
  BY <1>2, <1>4, <1>5, <1>8 DEF MemAt, NewStyle
<1>14. Waiters(t)' = {}
  BY <1>9, <1>10 DEF CallsOn, Waiters, CallPoints
<1>15. AwaitedAt(t)'
  BY <1>2, <1>4, <1>5, <1>8, <1>14 DEF AwaitedAt, NewStyle, Created
<1>16. NotifyAt(t)'
  BY <1>2, <1>4, <1>8, <1>12 DEF GoodInv, NotifyAt, NewStyle
<1>17. Pooled' = Pooled /\ PoolDistinct'
  BY <1>2, PoolUnchanged DEF GoodInv, PoolInv
<1>18. PoolInv'
  BY <1>2, <1>17, PoolSame
<1>19. PlaceInv'
  <2>1. Owns(t)' => Owns(t) /\ thr'[t].notify = thr[t].notify
    BY <1>4, <1>8 DEF Owns
  <2> QED
    BY <1>4, <1>9, <1>11, <1>17, <2>1, PlaceSame
<1>20. t \notin Recycled
  BY <1>4, ReapedFacts
<1>21. /\ \A u \in Thread : u # t /\ Owns(u) =>
            sema'[thr[u].notify] = sema[thr[u].notify]
       /\ \A u \in Thread : u # j /\ Private(u) =>
            sema'[arg[u].sem] = sema[arg[u].sem]
  BY <1>2
<1>22. GoodInv'
  BY <1>1, <1>2, <1>3, <1>4, <1>7, <1>9, <1>11, <1>13, <1>15, <1>16, <1>18, <1>19,
     <1>20, <1>21, EditGood
<1> QED
  BY <1>6, <1>22

LEMMA JoinReapOldGood ==
  ASSUME BaseInv, GoodInv, wild = {}, NEW j \in Thread, JoinReapOld(j)
  PROVE  GoodInv' /\ NoWildAccess'
<1>1. PICK t, s : t = arg[j].who /\ s = arg[j].sem
  OBVIOUS
<1>2. PICK r : r = [thr[t] EXCEPT !.mem = "freed"]
  OBVIOUS
<1>3. /\ at[j] = "reap" /\ arg[j].flag /\ at[t] = "dead" /\ Goes(j, "run", Nobody)
      /\ thr' = [thr EXCEPT ![t] = r] /\ Touches({t})
      /\ sem_pool' = Restored(s) /\ UNCHANGED <<plist, recycle, sema>>
  BY <1>1, <1>2 DEF JoinReapOld, Freed
<1>4. /\ t \in Thread /\ j # t /\ CallsOn(t) = {j} /\ thr[t].exited
      /\ thr[t].notify = s /\ s \in Sem /\ Owns(t) /\ sema[s] = Created
      /\ thr[t].joinable /\ thr[t].mem = "live" /\ ~NewStyle(t)
  BY <1>1, <1>3, ReaperFacts
<1>5. at[j] \in CallPoints
  BY <1>3 DEF CallPoints
<1>6. t \notin plist
  BY <1>1, <1>3, <1>5 DEF GoodInv, CallAt
<1>7. thr[t] \in ThreadRec /\ LifeTypeOK
  BY <1>4 DEF BaseInv, LifeTypeOK
<1>8. /\ r \in ThreadRec /\ r.kind = thr[t].kind /\ r.joinable = thr[t].joinable
      /\ r.exited = thr[t].exited /\ r.parentcheck = thr[t].parentcheck
      /\ r.kport = thr[t].kport /\ r.notify = thr[t].notify /\ r.mem = "freed"
  BY <1>2, <1>7 DEF ThreadRec
<1>9. thr'[t] = r /\ \A u \in Thread : u # t => thr'[u] = thr[u] /\ Listed(u)
  BY <1>3, <1>4, <1>7, <1>8, ChangesThread DEF Listed
<1>10. NoWildAccess'
  BY <1>3, <1>4, Tame
<1>11. /\ Others(j, t) /\ at'[j] = "run" /\ arg'[j] = Nobody
       /\ \A u \in Thread : u # j => Stays(u)
  BY <1>3, <1>4, <1>9, GoesOthers
<1>12. CallAt(j)' /\ PrivAt(j)' /\ ~Private(j)' /\ at'[j] \notin CallPoints
  BY <1>11 DEF CallAt, PrivAt, Private, CallPoints
<1>13. at'[t] = "dead"
  BY <1>3, <1>4, <1>11 DEF Stays
<1>14. MemAt(t)' /\ AwaitedAt(t)'
  BY <1>3, <1>4, <1>6, <1>8, <1>9, <1>13 DEF MemAt, AwaitedAt, NewStyle
<1>15. NotifyAt(t)'
  BY <1>3, <1>4, <1>6, <1>8, <1>9, <1>13 DEF GoodInv, NotifyAt, NewStyle
<1>16. s \notin Pooled
  BY <1>4 DEF GoodInv, PlaceInv
<1>17. /\ sema'[s] = Created /\ \A x \in Pooled : sema'[x] = sema[x]
       /\ \A u \in Thread : u # t /\ Owns(u) =>
            sema'[thr[u].notify] = sema[thr[u].notify]
       /\ \A u \in Thread : u # j /\ Private(u) =>
            sema'[arg[u].sem] = sema[arg[u].sem]
  BY <1>3, <1>4
<1>18. PoolInv' /\ Pooled' = Pooled \cup {s}
  BY <1>3, <1>4, <1>16, <1>17, PoolBack
<1>19. PlaceInv'
  <2>1. ~Owns(t)'
    BY <1>4, <1>8, <1>9 DEF Owns
  <2> QED
    BY <1>4, <1>11, <1>12, <1>18, <2>1, PlaceGive
<1>20. t \notin Recycled
  BY <1>4, ReapedFacts
<1>21. GoodInv'
  BY <1>1, <1>3, <1>4, <1>5, <1>11, <1>12, <1>14, <1>15, <1>17, <1>18, <1>19, <1>20,
     EditGood
<1> QED
  BY <1>10, <1>21

LEMMA JoinLockedGood ==
  ASSUME BaseInv, GoodInv, wild = {}, NEW j \in Thread, JoinLocked(j)
  PROVE  GoodInv' /\ NoWildAccess'
<1>1. PICK t, m : t = arg[j].who /\ m = arg[j].sem
  OBVIOUS
<1>2. PICK s : s = JoinSem(t, m)
  OBVIOUS
<1>3. PICK r, x : /\ r = [thr[t] EXCEPT !.notify = s, !.joiner = j]
                  /\ x = [arg[j] EXCEPT !.sem = s]
  OBVIOUS
<1>4. /\ at[j] = "join" /\ CanJoin(j, t) /\ Touches({t}) /\ recycle' = recycle
      /\ plist' = plist
      /\ thr' = [thr EXCEPT ![t].notify = s, ![t].joiner = j]
      /\ IF ~NewStyle(t) /\ thr[t].exited
         THEN sema' = sema /\ Goes(j, "reap", x)
         ELSE sema' = Waited(sema, s, j) /\ Goes(j, "wait", x)
      /\ sem_pool' = IF thr[t].notify # NULL /\ m # NULL THEN Restored(m) ELSE sem_pool
  BY <1>1, <1>2, <1>3 DEF JoinLocked
<1>5. at[j] \in CallPoints /\ Touching(j) /\ {"wait", "reap"} \subseteq CallPoints
  BY <1>4 DEF CallPoints, Touching
<1>6. /\ t \in Thread /\ CallsOn(t) = {j} /\ t \in plist /\ thr[t].joinable
      /\ thr[t].mem = "live" /\ (j # t /\ NewStyle(t) => thr[t].parentcheck)
  BY <1>1, <1>5, TouchingGood
<1>7. j # t /\ Waiters(t) = {}
  BY <1>4, <1>6, NoWaiters DEF CanJoin
<1>8. /\ thr[t] \in ThreadRec /\ arg[j] \in ArgRec /\ LifeTypeOK /\ FlagsAt(t)
      /\ NotifyAt(t) /\ AwaitedAt(t) /\ MemAt(t) /\ sema \in [Sem -> SemRec]
      /\ HandsAt(j)
  BY <1>6 DEF BaseInv, LifeTypeOK, StageInv, GoodInv
<1>9. s \in Sem /\ (thr[t].notify = NULL => s = m) /\ (thr[t].notify # NULL => s = thr[t].notify)
  <2>1. thr[t].notify = NULL => m # NULL
    BY <1>1, <1>4, <1>8 DEF HandsAt
  <2> QED
    BY <1>1, <1>2, <1>8, <2>1 DEF JoinSem, ThreadRec, ArgRec
<1>10. s # NULL
  BY <1>9, SemAssumption
<1>11. /\ r \in ThreadRec /\ r.kind = thr[t].kind /\ r.joinable = thr[t].joinable
       /\ r.exited = thr[t].exited /\ r.parentcheck = thr[t].parentcheck
       /\ r.kport = thr[t].kport /\ r.notify = s /\ r.mem = thr[t].mem
  BY <1>3, <1>8, <1>9 DEF ThreadRec
<1>12. thr'[t] = r /\ \A u \in Thread : u # t => thr'[u] = thr[u] /\ Listed(u)
  <2>1. thr' = [thr EXCEPT ![t] = r]
    BY <1>3, <1>4, <1>6 DEF BaseInv, LifeTypeOK
  <2> QED
    BY <1>4, <1>6, <1>8, <1>11, <2>1, ChangesThread DEF Listed
<1>13. x.who = t /\ x.sem = s
  BY <1>1, <1>3, <1>8 DEF ArgRec
<1>14. PICK l \in {"wait", "reap"} :
         /\ Goes(j, l, x)
         /\ l = "reap" => ~NewStyle(t) /\ thr[t].exited /\ sema' = sema
         /\ l = "wait" => (NewStyle(t) \/ ~thr[t].exited) /\ sema' = Waited(sema, s, j)
  BY <1>4
<1>15. /\ Others(j, t) /\ at'[j] = l /\ arg'[j] = x
       /\ \A u \in Thread : u # j => Stays(u)
  BY <1>4, <1>6, <1>12, <1>14, GoesOthers
<1>16. CallsOn(t)' = {j} /\ at'[j] \in CallPoints
  BY <1>5, <1>6, <1>13, <1>15, OwnCalls
<1>17. /\ at'[t] = at[t] /\ arg'[t] = arg[t] /\ (NewStyle(t)' <=> NewStyle(t))
       /\ (Ended(t)' <=> Ended(t))
  BY <1>6, <1>7, <1>11, <1>12, <1>15 DEF Stays, NewStyle, Ended
<1>19. NoWildAccess'
  BY <1>4, <1>6, Tame
<1>20. MemAt(t)'
  BY <1>4, <1>8, <1>11, <1>12, <1>17 DEF MemAt, NewStyle
<1>21. NotifyAt(t)'
  <2>1. /\ at[t] = "term" => arg[t].sem = s
        /\ ~thr[t].kport => FALSE
    <3>1. thr[t].kport
      BY <1>1, <1>5, CallsWhom
    <3>2. at[t] = "term" => thr[t].notify # NULL
      BY <1>6, <1>8 DEF FlagsAt, NotifyAt, NewStyle
    <3> QED
      BY <1>8, <1>9, <3>1, <3>2 DEF NotifyAt
  <2>2. at'[j] \in {"wait", "reap"} /\ arg'[j].who = t
    BY <1>13, <1>15
  <2> QED
    BY <1>8, <1>10, <1>11, <1>12, <1>17, <2>1, <2>2 DEF NotifyAt
<1>22. PrivAt(j)' /\ ~Private(j)'
  BY <1>15 DEF PrivAt, Private
<1>23. CallAt(j)'
  <2>1. x.flag = arg[j].flag /\ ~arg[j].flag
    BY <1>3, <1>4, <1>5, <1>8 DEF ArgRec, GoodInv, CallAt
  <2>2. /\ arg'[j].who = t /\ arg'[j].sem = s /\ ~arg'[j].flag /\ at'[j] = l
        /\ l \in {"wait", "reap"} /\ thr'[t].notify = s /\ thr'[t].joinable
        /\ t \in plist' /\ (l = "reap" => thr'[t].exited)
        /\ thr'[t].parentcheck = thr[t].parentcheck
    BY <1>4, <1>6, <1>11, <1>12, <1>13, <1>14, <1>15, <2>1
  <2> QED
    BY <1>6, <1>7, <1>16, <1>17, <2>2 DEF CallAt, Touching
<1>24. t \notin Recycled
  BY <1>6, ReapedFacts
<1>25. Waiters(t)' = IF l = "wait" THEN {j} ELSE {}
  <2>1. \A u \in Waiters(t)' : u \in CallsOn(t)' /\ at'[u] = "wait"
    BY DEF Waiters, CallsOn, CallPoints
  <2>2. l = "wait" => j \in Waiters(t)'
    BY <1>13, <1>15 DEF Waiters
  <2>3. l # "wait" => Waiters(t)' = {}
    BY <1>15, <1>16, <2>1
  <2>4. Waiters(t)' \subseteq {j}
    BY <1>16, <2>1
  <2> QED
    BY <2>2, <2>3, <2>4
<1>26. CASE thr[t].notify = NULL
  <2>1. s = m /\ Private(j)
    BY <1>1, <1>4, <1>9, <1>10, <1>26 DEF Private
  <2>2. sema[s] = Created
    BY <1>1, <2>1 DEF GoodInv, PrivAt
  <2>3. ~(NewStyle(t) /\ thr[t].exited)
    BY <1>6, <1>8, <1>26 DEF NotifyAt
  <2>4. l = "wait" => ~Ended(t)
    BY <1>8, <1>14, <2>3 DEF Ended, FlagsAt
  <2>5. /\ \A y \in Sem : y # s => sema'[y] = sema[y]
        /\ l = "wait" => sema'[s] = [count |-> 0, queue |-> <<j>>]
        /\ l = "reap" => sema'[s] = [count |-> 0, queue |-> <<>>]
    BY <1>8, <1>9, <1>14, <2>2, WaitedSem DEF Created
  <2>6. AwaitedAt(t)'
    <3>1. CASE l = "wait"
      BY <1>11, <1>12, <1>17, <1>25, <2>4, <2>5, <3>1 DEF AwaitedAt
    <3>2. CASE l = "reap"
      BY <1>11, <1>12, <1>14, <1>17, <1>25, <2>5, <3>2 DEF AwaitedAt
    <3> QED
      BY <3>1, <3>2
  <2>7. /\ \A u \in Thread : Owns(u) => sema'[thr[u].notify] = sema[thr[u].notify]
        /\ \A u \in Thread : u # j /\ Private(u) => sema'[arg[u].sem] = sema[arg[u].sem]
        /\ \A y \in Pooled : sema'[y] = sema[y]
    BY <1>1, <2>1, <2>5, OnlyMine
  <2>8. Pooled' = Pooled /\ PoolDistinct'
    BY <1>4, <1>26, PoolUnchanged DEF GoodInv, PoolInv
  <2>9. PoolInv'
    BY <2>7, <2>8, PoolSame
  <2>10. PlaceInv'
    BY <1>1, <1>6, <1>11, <1>12, <1>15, <1>22, <2>1, <2>8, PlaceLeave
  <2>11. GoodInv'
    BY <1>1, <1>4, <1>5, <1>6, <1>13, <1>15, <1>20, <1>21, <1>22, <1>23, <1>24,
       <2>6, <2>7, <2>9, <2>10, EditGood
  <2> QED
    BY <1>19, <2>11
<1>27. CASE thr[t].notify # NULL
  <2>1. s = thr[t].notify /\ NewStyle(t) /\ l = "wait" /\ Owns(t)
    BY <1>4, <1>6, <1>9, <1>14, <1>27 DEF CanJoin, Owns
  <2>2. sema[s] = [count |-> IF Ended(t) THEN 1 ELSE 0, queue |-> <<>>]
    BY <1>6, <1>7, <1>8, <1>27, <2>1 DEF AwaitedAt
  <2>3. /\ \A y \in Sem : y # s => sema'[y] = sema[y]
        /\ sema'[s] = [count |-> 0, queue |-> IF Ended(t) THEN <<>> ELSE <<j>>]
    <3>1. sema' = Waited(sema, s, j)
      BY <1>14, <2>1
    <3>2. CASE Ended(t)
      BY <1>8, <1>9, <2>2, <3>1, <3>2, WaitedSem DEF Created
    <3>3. CASE ~Ended(t)
      BY <1>8, <1>9, <2>2, <3>1, <3>3, WaitedSem DEF Created
    <3> QED
      BY <3>2, <3>3
  <2>4. AwaitedAt(t)'
    BY <1>11, <1>12, <1>17, <1>25, <2>1, <2>3 DEF AwaitedAt
  <2>5. /\ \A u \in Thread : u # t /\ Owns(u) =>
             sema'[thr[u].notify] = sema[thr[u].notify]
        /\ \A u \in Thread : Private(u) => sema'[arg[u].sem] = sema[arg[u].sem]
        /\ \A y \in Pooled : sema'[y] = sema[y]
    BY <1>6, <2>1, <2>3, OnlyTheirs
  <2>6. Owns(t)' => Owns(t) /\ thr'[t].notify = thr[t].notify
    BY <1>11, <1>12, <2>1
  <2>7. PlaceInv' /\ PoolInv'
    <3>1. CASE m = NULL
      <4>1. Pooled' = Pooled /\ PoolDistinct'
        BY <1>4, <3>1, PoolUnchanged DEF GoodInv, PoolInv
      <4> QED
        BY <1>6, <1>15, <1>22, <2>5, <2>6, <4>1, PlaceSame, PoolSame
    <3>2. CASE m # NULL
      <4>1. Private(j) /\ m \in Sem
        BY <1>1, <1>4, <1>8, <3>2 DEF Private, ArgRec
      <4>2. m \notin Pooled /\ sema'[m] = Created
        BY <1>1, <2>5, <4>1 DEF GoodInv, PlaceInv, PrivAt
      <4>3. PoolInv' /\ Pooled' = Pooled \cup {m}
        BY <1>4, <1>27, <2>5, <3>2, <4>1, <4>2, PoolBack
      <4> QED
        BY <1>1, <1>6, <1>15, <1>22, <2>6, <4>1, <4>3, PlaceBack
    <3> QED
      BY <3>1, <3>2
  <2>8. GoodInv'
    BY <1>1, <1>4, <1>5, <1>6, <1>13, <1>15, <1>20, <1>21, <1>22, <1>23, <1>24,
       <2>4, <2>5, <2>7, EditGood
  <2> QED
    BY <1>19, <2>8
<1> QED
  BY <1>26, <1>27

\* The structure of a thread that is on its way is there.
LEMMA OnTheWay ==
  ASSUME BaseInv, GoodInv, NEW t \in Thread, at[t] \notin {"none", "dead", "term"}
  PROVE  thr[t].mem = "live" /\ thr[t].kind # "none" /\ t \notin Recycled
<1>1. FlagsAt(t) /\ MemAt(t) /\ thr[t] \in ThreadRec
  BY DEF BaseInv, StageInv, GoodInv, LifeTypeOK
<1> QED
  BY <1>1, ReapedFacts DEF FlagsAt, MemAt, ThreadRec

LEMMA JoinCanceledGood ==
  ASSUME BaseInv, GoodInv, wild = {}, ~spoiled', NEW j \in Thread, JoinCanceled(j)
  PROVE  GoodInv' /\ NoWildAccess'
<1>1. PICK fresh \in BOOLEAN :
        fresh = (NewStyle(j) /\ thr[j].notify = NULL /\ thr[j].joinable)
  BY DEF BaseInv, LifeTypeOK, ThreadRec
<1>2. PICK n : n = IF fresh THEN new_sem_from_pool(1) ELSE NULL
  OBVIOUS
<1>3. PICK x, t, s : /\ x = [Nobody EXCEPT !.sem = n]
                     /\ t = arg[j].who /\ s = arg[j].sem
  OBVIOUS
<1>4. /\ at[j] = "wait" /\ InQueue(j, s) /\ NewStyle(t)
      /\ thr' = [thr EXCEPT ![t].joiner = NULL, ![j].enabled = FALSE]
      /\ Touches({j, t}) /\ (fresh => InPool(1))
      /\ sema' = Left(sema, s, j) /\ Goes(j, "exit", x)
      /\ sem_pool' = GiveBack(t, s) \o (IF fresh THEN Taken(1) ELSE sem_pool)
      /\ UNCHANGED <<plist, recycle>>
  BY <1>1, <1>2, <1>3 DEF JoinCanceled
<1>5. at[j] \in CallPoints /\ Touching(j)
  BY <1>4 DEF CallPoints, Touching
<1>6. /\ t \in Thread /\ CallsOn(t) = {j} /\ t \in plist /\ thr[t].joinable
      /\ thr[t].mem = "live"
  BY <1>3, <1>5, TouchingGood
<1>7. /\ j # t /\ thr[t].notify = s /\ Owns(t) /\ s \in Sem /\ ~Ended(t)
      /\ sema[s] = [count |-> 0, queue |-> <<j>>]
  BY <1>3, <1>4, <1>6, WaiterFacts
<1>8. thr[j].mem = "live"
  BY <1>4, OnTheWay
<1>9. NoWildAccess'
  BY <1>4, <1>6, <1>8, Tame
<1>10. LifeTypeOK /\ sema \in [Sem -> SemRec] /\ sem_pool \in Seq(Sem) /\ PoolDistinct
  BY DEF BaseInv, LifeTypeOK, GoodInv, PoolInv
<1>11. sem_pool' = IF fresh THEN Taken(1) ELSE sem_pool
  <2>1. (IF fresh THEN Taken(1) ELSE sem_pool) \in Seq(Sem)
    BY <1>4, <1>10, TakesOne
  <2>2. GiveBack(t, s) = <<>>
    BY <1>4 DEF GiveBack
  <2> QED
    BY <1>4, <2>1, <2>2
<1>12. /\ n \in Sem \cup {NULL} /\ Pooled' \subseteq Pooled /\ (n # NULL => n \in Pooled)
       /\ PoolDistinct' /\ Pooled' = Pooled \ {n}
  BY <1>2, <1>4, <1>10, <1>11, TakesFresh
<1>13. x.sem = n
  BY <1>3, <1>12, Arguments
<1>14. \A u \in Thread : Alike(u) /\ Listed(u)
  BY <1>4, <1>6, CleanupEffect DEF Alike, Listed
<1>15. /\ at'[j] = "exit" /\ arg'[j] = x
       /\ \A u \in Thread : u # j => Stays(u)
  BY <1>4 DEF Goes, BaseInv, LifeTypeOK, Stays
<1>16. Others(j, t)
  BY <1>4, <1>14, <1>15 DEF Others
<1>17. /\ \A y \in Sem : y # s => sema'[y] = sema[y]
       /\ sema'[s] = Created
  BY <1>4, <1>7, <1>10, LeftSem
<1>18. /\ \A u \in Thread : u # t /\ Owns(u) =>
            sema'[thr[u].notify] = sema[thr[u].notify]
       /\ \A u \in Thread : Private(u) => sema'[arg[u].sem] = sema[arg[u].sem]
       /\ \A y \in Pooled : sema'[y] = sema[y]
  BY <1>6, <1>7, <1>17, OnlyTheirs
<1>19. t \notin Recycled /\ (Owns(t)' => Owns(t) /\ thr'[t].notify = thr[t].notify)
  BY <1>6, <1>14, ReapedFacts DEF Alike, Owns
<1>20. Private(j)' => arg'[j].sem \in Pooled /\ arg'[j].sem \notin Pooled'
  BY <1>12, <1>13, <1>15 DEF Private
<1>21. PrivAt(j)' /\ CallAt(j)' /\ at'[j] \notin CallPoints
  BY <1>15, <1>18, <1>20 DEF PrivAt, GoodInv, PoolInv, CallAt, CallPoints
<1>22. PlaceInv'
  BY <1>6, <1>12, <1>16, <1>19, <1>20, PlaceTake
<1>23. PoolInv'
  BY <1>12, <1>18, PoolSame
<1>24. /\ at'[t] = at[t] /\ arg'[t] = arg[t] /\ (NewStyle(t)' <=> NewStyle(t))
       /\ ~Ended(t)'
  BY <1>6, <1>7, <1>14, <1>15 DEF Stays, NewStyle, Ended, Alike
<1>25. Alike(t) /\ thr'[t].mem = thr[t].mem /\ MemAt(t) /\ NotifyAt(t)
  BY <1>6, <1>14, <1>19 DEF Alike, GoodInv
<1>26. MemAt(t)'
  BY <1>4, <1>24, <1>25 DEF MemAt, Alike, NewStyle
<1>27. Waiters(t)' = {}
  BY <1>6, <1>15 DEF Waiters, CallsOn, CallPoints, Stays
<1>28. AwaitedAt(t)'
  BY <1>7, <1>17, <1>24, <1>27, <1>25 DEF AwaitedAt, Created, Alike
<1>29. NotifyAt(t)'
  BY <1>4, <1>24, <1>25 DEF NotifyAt, Alike, NewStyle
<1>30. GoodInv'
  BY <1>3, <1>4, <1>5, <1>6, <1>15, <1>16, <1>18, <1>19, <1>21, <1>22, <1>23, <1>26,
     <1>28, <1>29, EditGood
<1> QED
  BY <1>9, <1>30

---------------------------------------------------------------------------
(* Steps of a thread on its own structure *)

LEMMA SelfGood ==
  ASSUME BaseInv, GoodInv, NEW a \in Thread, Others(a, a),
         at[a] \notin CallPoints, at'[a] \notin CallPoints,
         CallsOn(a) = {} \/ CallFrame(a),
         MemAt(a)', PrivAt(a)', AwaitedAt(a)', NotifyAt(a)', PlaceInv', PoolInv',
         Recycled' \subseteq Recycled \cup {a},
         a \in Recycled' => a \notin plist' /\ ~thr'[a].joinable,
         \A u \in Thread : u # a /\ Owns(u) =>
           sema'[thr[u].notify] = sema[thr[u].notify],
         \A u \in Thread : u # a /\ Private(u) =>
           sema'[arg[u].sem] = sema[arg[u].sem]
  PROVE  GoodInv'
<1>1. /\ at'[a] \in CallPoints => CallsOn(arg'[a].who) \subseteq {a}
      /\ CallsOn(a) \subseteq {a} \/ CallFrame(a)
      /\ at[a] \in {"wait", "reap"} => arg[a].who = a
      /\ at'[a] = "wait" => arg'[a].who = a
      /\ CallAt(a)'
  BY DEF CallPoints, CallAt
<1> QED
  BY <1>1, GoodFrom

\* Its joiners stay where they are.
LEMMA SelfWaiters ==
  ASSUME NEW a \in Thread, at[a] \notin CallPoints, at'[a] \notin CallPoints,
         \A u \in Thread : u # a => Stays(u)
  PROVE  /\ \A t : Waiters(t)' = Waiters(t)
         /\ \A t : (\E j \in Thread : at[j] \in {"wait", "reap"} /\ arg[j].who = t) =>
              \E j \in Thread : at'[j] \in {"wait", "reap"} /\ arg'[j].who = t
<1>1. \A t : Waiters(t)' = Waiters(t)
  BY DEF Waiters, Stays, CallPoints
<1>2. ASSUME NEW t, NEW j \in Thread, at[j] \in {"wait", "reap"}, arg[j].who = t
      PROVE  at'[j] \in {"wait", "reap"} /\ arg'[j].who = t
  BY <1>2 DEF Stays, CallPoints
<1> QED
  BY <1>1, <1>2

LEMMA ExitBeginGood ==
  ASSUME BaseInv, GoodInv, wild = {}, NEW t \in Thread, at[t] = "run", ExitBegin(t),
         UNCHANGED sema
  PROVE  GoodInv' /\ NoWildAccess'
<1>1. PICK fresh \in BOOLEAN :
        fresh = (NewStyle(t) /\ thr[t].notify = NULL /\ thr[t].joinable)
  BY DEF BaseInv, LifeTypeOK, ThreadRec
<1>2. PICK s : s = IF fresh THEN new_sem_from_pool(1) ELSE NULL
  OBVIOUS
<1>3. PICK x : x = [Nobody EXCEPT !.sem = s]
  OBVIOUS
<1>4. /\ IF NewStyle(t) THEN thr' = Exiting(t) /\ UNCHANGED recycle
         ELSE ReapThreads(Exiting(t))
      /\ (fresh => InPool(1)) /\ sem_pool' = IF fresh THEN Taken(1) ELSE sem_pool
      /\ Goes(t, "exit", x) /\ Touches({t}) /\ plist' = plist
  BY <1>1, <1>2, <1>3 DEF ExitBegin
<1>5. /\ Recycled' \subseteq Recycled /\ t \notin Recycled
      /\ thr'[t] = [thr[t] EXCEPT !.enabled = FALSE]
      /\ \A u \in Thread : u # t =>
           \/ thr'[u] = thr[u]
           \/ u \in Recycled /\ thr'[u] = [thr[u] EXCEPT !.mem = "freed"]
  BY <1>4, ExitEffect
<1>6. \A u \in Thread : thr[u] \in ThreadRec
  BY DEF BaseInv, LifeTypeOK
<1>7. ASSUME NEW u \in Thread PROVE Alike(u) /\ Listed(u)
  <2>1. Listed(u)
    BY <1>4 DEF Listed
  <2>2. CASE u = t
    BY <1>5, <1>6, <2>1, <2>2 DEF Alike, ThreadRec
  <2>3. CASE thr'[u] = thr[u]
    BY <2>1, <2>3 DEF Alike
  <2>4. CASE u \in Recycled /\ thr'[u] = [thr[u] EXCEPT !.mem = "freed"]
    BY <1>6, <2>1, <2>4 DEF Alike, ThreadRec
  <2> QED
    BY <1>5, <2>2, <2>3, <2>4
<1>8. /\ at'[t] = "exit" /\ arg'[t] = x
      /\ \A u \in Thread : u # t => Stays(u)
  BY <1>4 DEF Goes, BaseInv, LifeTypeOK, Stays
<1>9. Others(t, t)
  BY <1>7, <1>8 DEF Others
<1>10. NoWildAccess'
  BY <1>4, OnTheWay, Tame
<1>11. /\ s \in Sem \cup {NULL} /\ Pooled' \subseteq Pooled /\ (s # NULL => s \in Pooled)
       /\ PoolDistinct' /\ Pooled' = Pooled \ {s}
  <2>1. LifeTypeOK /\ PoolDistinct
    BY DEF BaseInv, GoodInv, PoolInv
  <2> QED
    BY <1>2, <1>4, <2>1, TakesFresh
<1>12. x.sem = s
  BY <1>3, <1>11, Arguments
<1>13. Private(t)' => arg'[t].sem \in Pooled /\ arg'[t].sem \notin Pooled'
  BY <1>8, <1>11, <1>12 DEF Private
<1>14. PrivAt(t)'
  BY <1>13 DEF PrivAt, GoodInv, PoolInv
<1>15. Owns(t)' => Owns(t) /\ thr'[t].notify = thr[t].notify
  BY <1>5, <1>7 DEF Alike, Owns
<1>16. PlaceInv'
  BY <1>9, <1>11, <1>13, <1>15, PlaceTake
<1>17. PoolInv'
  BY <1>11, PoolSame
<1>18. CallFrame(t)
  BY <1>7, AlikeFrame
<1>19. MemAt(t)'
  BY <1>4, <1>5, <1>7, <1>8 DEF GoodInv, MemAt, Alike, NewStyle
<1>20. at[t] \notin CallPoints /\ at'[t] \notin CallPoints
  BY <1>8 DEF CallPoints
<1>21. /\ Waiters(t)' = Waiters(t)
       /\ (\E j \in Thread : at[j] \in {"wait", "reap"} /\ arg[j].who = t) =>
             \E j \in Thread : at'[j] \in {"wait", "reap"} /\ arg'[j].who = t
  BY <1>8, <1>20, SelfWaiters
<1>22. AwaitedAt(t)'
  <2>1. AwaitedAt(t) /\ (Ended(t)' <=> Ended(t)) /\ (NewStyle(t)' <=> NewStyle(t))
    BY <1>7, <1>8 DEF GoodInv, Ended, NewStyle, Alike
  <2> QED
    BY <1>5, <1>7, <1>21, <2>1 DEF AwaitedAt, Alike
<1>23. NotifyAt(t)'
  BY <1>4, <1>7, <1>8, <1>21 DEF GoodInv, NotifyAt, Alike, NewStyle
<1>24. GoodInv'
  BY <1>5, <1>9, <1>14, <1>16, <1>17, <1>18, <1>19, <1>20, <1>22, <1>23, SelfGood
<1> QED
  BY <1>10, <1>24

LEMMA ExitLockedGood ==
  ASSUME BaseInv, GoodInv, wild = {}, NEW t \in Thread, ExitLocked(t)
  PROVE  GoodInv' /\ NoWildAccess'
<1>1. PICK m, r, x : /\ m = arg[t].sem
        /\ r = [thr[t] EXCEPT !.exited = TRUE,
                              !.notify = IF LeavesSem(t) THEN arg[t].sem ELSE @]
        /\ x = [Nobody EXCEPT !.flag = ~thr[t].joinable]
  OBVIOUS
<1>2. /\ thr[t] \in ThreadRec /\ arg[t] \in ArgRec /\ LifeTypeOK /\ FlagsAt(t)
      /\ HandsAt(t) /\ MemAt(t) /\ AwaitedAt(t) /\ NotifyAt(t)
  BY DEF BaseInv, LifeTypeOK, StageInv, GoodInv
<1>3. /\ at[t] = "exit" /\ NewStyle(t) /\ Goes(t, "free", x) /\ Touches({t})
      /\ thr' = [thr EXCEPT ![t] = r]
      /\ sem_pool' = IF LeavesSem(t) \/ m = NULL THEN sem_pool ELSE Restored(m)
      /\ UNCHANGED <<plist, recycle, sema>>
  BY <1>1, <1>2 DEF ExitLocked, LifeTypeOK
<1>4. /\ thr[t].mem = "live" /\ thr[t].kind \notin {"none", "old"} /\ t \notin Recycled
      /\ thr[t].kport
  BY <1>2, <1>3, OnTheWay DEF NewStyle, FlagsAt
<1>5. NoWildAccess'
  BY <1>3, <1>4, Tame
<1>6. /\ r \in ThreadRec /\ r.kind = thr[t].kind /\ r.joinable = thr[t].joinable
      /\ r.exited = TRUE /\ r.parentcheck = thr[t].parentcheck
      /\ r.kport = thr[t].kport /\ r.mem = thr[t].mem
      /\ r.notify = IF LeavesSem(t) THEN m ELSE thr[t].notify
  BY <1>1, <1>2 DEF ThreadRec, ArgRec
<1>7. thr'[t] = r /\ \A u \in Thread : u # t => thr'[u] = thr[u] /\ Listed(u)
  BY <1>2, <1>3, <1>6, ChangesThread DEF Listed
<1>8. /\ Others(t, t) /\ at'[t] = "free" /\ arg'[t] = x
      /\ \A u \in Thread : u # t => Stays(u)
  BY <1>3, <1>7, GoesOthers
<1>9. at[t] \notin CallPoints /\ at'[t] \notin CallPoints
  BY <1>3, <1>8 DEF CallPoints
<1>10. PrivAt(t)' /\ ~Private(t)'
  BY <1>8 DEF PrivAt, Private
<1>11. MemAt(t)'
  BY <1>2, <1>3, <1>4, <1>6, <1>7, <1>8 DEF MemAt, NewStyle
<1>12. /\ Waiters(t)' = Waiters(t) /\ (NewStyle(t)' <=> NewStyle(t))
       /\ ~Ended(t) /\ ~Ended(t)'
  BY <1>3, <1>6, <1>7, <1>8, <1>9, SelfWaiters DEF NewStyle, Ended
<1>13. CallFrame(t)
  BY <1>3, <1>4, <1>6, <1>7 DEF CallFrame, LeavesSem, Listed
<1>14. LeavesSem(t) => m # NULL
  BY <1>1, <1>2, <1>3 DEF HandsAt
<1>15. NotifyAt(t)'
  BY <1>4, <1>6, <1>7, <1>8, <1>14 DEF NotifyAt, LeavesSem
<1>16. m # NULL => Private(t) /\ m \in Sem /\ m \notin Pooled /\ sema[m] = Created
  BY <1>1, <1>2, <1>3 DEF Private, ArgRec, GoodInv, PlaceInv, PrivAt
<1>17. /\ Recycled' \subseteq Recycled \cup {t}
       /\ t \in Recycled' => t \notin plist' /\ ~thr'[t].joinable
  BY <1>3, <1>4 DEF Recycled
<1>18. /\ \A y \in Pooled : sema'[y] = sema[y]
       /\ \A u \in Thread : u # t /\ Owns(u) =>
            sema'[thr[u].notify] = sema[thr[u].notify]
       /\ \A u \in Thread : u # t /\ Private(u) =>
            sema'[arg[u].sem] = sema[arg[u].sem]
  BY <1>3
<1>19. AwaitedAt(t)'
  <2>1. CASE LeavesSem(t)
    <3>1. Waiters(t) = {}
      <4>1. ASSUME NEW j \in Waiters(t) PROVE FALSE
        <5>1. j \in Thread /\ at[j] = "wait" /\ arg[j].who = t
          BY DEF Waiters
        <5>2. thr[t].notify = arg[j].sem /\ arg[j].sem \in Sem
          BY <5>1, WaiterFacts
        <5> QED
          BY <2>1, <5>2, SemAssumption DEF LeavesSem
      <4> QED
        BY <4>1
    <3>2. sema'[r.notify] = [count |-> 0, queue |-> <<>>]
      BY <1>3, <1>6, <1>14, <1>16, <2>1 DEF Created
    <3> QED
      BY <1>7, <1>12, <3>1, <3>2 DEF AwaitedAt
  <2>2. CASE ~LeavesSem(t)
    <3>1. r.notify = thr[t].notify
      BY <1>6, <2>2
    <3>2. /\ thr'[t].notify = thr[t].notify /\ thr'[t].joinable = thr[t].joinable
          /\ thr'[t].mem = thr[t].mem /\ sema' = sema
      BY <1>3, <1>6, <1>7, <3>1
    <3> QED
      BY <1>2, <1>12, <3>2 DEF AwaitedAt
  <2> QED
    BY <2>1, <2>2
<1>20. PlaceInv' /\ PoolInv'
  <2>1. CASE LeavesSem(t)
    <3>1. Pooled' = Pooled /\ PoolDistinct'
      BY <1>3, <2>1, PoolUnchanged DEF GoodInv, PoolInv
    <3>2. PlaceInv'
      BY <1>1, <1>6, <1>7, <1>8, <1>10, <1>14, <1>16, <2>1, <3>1, PlaceLeave
    <3> QED
      BY <1>18, <3>1, <3>2, PoolSame
  <2>2. CASE ~LeavesSem(t) /\ m = NULL
    <3>1. Pooled' = Pooled /\ PoolDistinct'
      BY <1>3, <2>2, PoolUnchanged DEF GoodInv, PoolInv
    <3>2. Owns(t)' => Owns(t) /\ thr'[t].notify = thr[t].notify
      BY <1>6, <1>7, <2>2 DEF Owns
    <3> QED
      BY <1>8, <1>10, <1>18, <3>1, <3>2, PlaceSame, PoolSame
  <2>3. CASE ~LeavesSem(t) /\ m # NULL
    <3>1. Owns(t)' => Owns(t) /\ thr'[t].notify = thr[t].notify
      BY <1>6, <1>7, <2>3 DEF Owns
    <3>2. sem_pool' = Restored(m) /\ sema'[m] = Created
      BY <1>3, <1>16, <2>3
    <3>3. PoolInv' /\ Pooled' = Pooled \cup {m}
      BY <1>16, <1>18, <2>3, <3>2, PoolBack
    <3> QED
      BY <1>1, <1>8, <1>10, <1>16, <2>3, <3>1, <3>3, PlaceBack
  <2> QED
    BY <2>1, <2>2, <2>3
<1>21. GoodInv'
  BY <1>8, <1>9, <1>10, <1>11, <1>13, <1>15, <1>17, <1>18, <1>19, <1>20, SelfGood
<1> QED
  BY <1>5, <1>21

LEMMA ExitOldGood ==
  ASSUME BaseInv, GoodInv, wild = {}, NEW t \in Thread, ExitOld(t)
  PROVE  GoodInv' /\ NoWildAccess'
<1>1. PICK s, r, x : /\ s = thr[t].notify /\ r = [thr[t] EXCEPT !.exited = TRUE]
                     /\ x = [Nobody EXCEPT !.flag = ~thr[t].joinable]
  OBVIOUS
<1>2. /\ thr[t] \in ThreadRec /\ LifeTypeOK /\ FlagsAt(t)
      /\ MemAt(t) /\ AwaitedAt(t) /\ NotifyAt(t) /\ sema \in [Sem -> SemRec]
  BY DEF BaseInv, LifeTypeOK, StageInv, GoodInv
<1>3. /\ at[t] = "exit" /\ ~NewStyle(t) /\ Goes(t, "oldfree", x) /\ Touches({t})
      /\ thr' = [thr EXCEPT ![t] = r]
      /\ sema' = IF thr[t].joinable /\ s # NULL THEN Signalled(sema, s) ELSE sema
      /\ UNCHANGED <<plist, recycle, sem_pool>>
  BY <1>1, <1>2 DEF ExitOld, LifeTypeOK
<1>4. /\ thr[t].mem = "live" /\ t \notin Recycled /\ thr[t].kind = "old"
      /\ thr[t].kport /\ ~thr[t].exited /\ t \in plist
  BY <1>2, <1>3, OnTheWay DEF NewStyle, FlagsAt, MemAt
<1>5. NoWildAccess'
  BY <1>3, <1>4, Tame
<1>6. /\ r \in ThreadRec /\ r.kind = thr[t].kind /\ r.joinable = thr[t].joinable
      /\ r.exited = TRUE /\ r.parentcheck = thr[t].parentcheck
      /\ r.kport = thr[t].kport /\ r.mem = thr[t].mem /\ r.notify = s
  BY <1>1, <1>2 DEF ThreadRec
<1>7. thr'[t] = r /\ \A u \in Thread : u # t => thr'[u] = thr[u] /\ Listed(u)
  BY <1>2, <1>3, <1>6, ChangesThread DEF Listed
<1>8. /\ Others(t, t) /\ at'[t] = "oldfree" /\ arg'[t] = x
      /\ \A u \in Thread : u # t => Stays(u)
  BY <1>3, <1>7, GoesOthers
<1>9. at[t] \notin CallPoints /\ at'[t] \notin CallPoints
  BY <1>3, <1>8 DEF CallPoints
<1>10. PrivAt(t)' /\ ~Private(t)'
  BY <1>8 DEF PrivAt, Private
<1>11. MemAt(t)'
  BY <1>3, <1>4, <1>6, <1>7, <1>8 DEF MemAt, NewStyle
<1>12. /\ Waiters(t)' = Waiters(t) /\ ~NewStyle(t)' /\ ~Ended(t) /\ Ended(t)'
       /\ (\E j \in Thread : at[j] \in {"wait", "reap"} /\ arg[j].who = t) =>
             \E j \in Thread : at'[j] \in {"wait", "reap"} /\ arg'[j].who = t
  BY <1>3, <1>4, <1>6, <1>7, <1>8, <1>9, SelfWaiters DEF NewStyle, Ended
<1>13. CallFrame(t)
  BY <1>1, <1>3, <1>4, <1>6, <1>7 DEF CallFrame, Listed
<1>14. NotifyAt(t)'
  BY <1>1, <1>2, <1>3, <1>4, <1>6, <1>7, <1>8, <1>12 DEF NotifyAt
<1>15. /\ Recycled' \subseteq Recycled \cup {t}
       /\ t \in Recycled' => t \notin plist' /\ ~thr'[t].joinable
  BY <1>3, <1>4 DEF Recycled
<1>16. /\ \A u \in Thread : u # t /\ Owns(u) =>
            sema'[thr[u].notify] = sema[thr[u].notify]
       /\ \A u \in Thread : Private(u) => sema'[arg[u].sem] = sema[arg[u].sem]
       /\ \A y \in Pooled : sema'[y] = sema[y]
       /\ AwaitedAt(t)'
  <2>1. CASE thr[t].joinable /\ s # NULL
    <3>1. PICK j \in Thread : at[j] \in {"wait", "reap"} /\ arg[j].who = t
      BY <1>1, <1>2, <1>4, <2>1 DEF NotifyAt
    <3>2. at[j] = "wait"
      BY <1>4, <3>1, ReaperFacts
    <3>3. /\ Waiters(t) = {j} /\ Owns(t) /\ s \in Sem
          /\ sema[s] = [count |-> 0, queue |-> <<j>>]
      BY <1>1, <1>12, <3>1, <3>2, WaiterFacts
    <3>4. /\ \A y \in Sem : y # s => sema'[y] = sema[y]
          /\ sema'[s] = [count |-> 0, queue |-> <<>>]
      <4>1. /\ sema' = Signalled(sema, s) /\ sema[s].queue = <<j>> /\ sema[s].count = 0
        BY <1>3, <2>1, <3>3
      <4> QED
        BY <1>2, <3>3, <4>1, SignalledSem
    <3>5. AwaitedAt(t)'
      BY <1>6, <1>7, <1>12, <3>3, <3>4 DEF AwaitedAt
    <3> QED
      BY <1>1, <3>3, <3>4, <3>5, OnlyTheirs
  <2>2. CASE ~(thr[t].joinable /\ s # NULL)
    BY <1>3, <1>6, <1>7, <2>2 DEF AwaitedAt
  <2> QED
    BY <2>1, <2>2
<1>17. Pooled' = Pooled /\ PoolDistinct'
  BY <1>3, PoolUnchanged DEF GoodInv, PoolInv
<1>18. PlaceInv' /\ PoolInv'
  <2>1. Owns(t)' => Owns(t) /\ thr'[t].notify = thr[t].notify
    BY <1>1, <1>6, <1>7 DEF Owns
  <2> QED
    BY <1>8, <1>10, <1>16, <1>17, <2>1, PlaceSame, PoolSame
<1>19. GoodInv'
  BY <1>8, <1>9, <1>10, <1>11, <1>13, <1>14, <1>15, <1>16, <1>18, SelfGood
<1> QED
  BY <1>5, <1>19

LEMMA ExitFreeGood ==
  ASSUME BaseInv, GoodInv, wild = {}, NEW t \in Thread, ExitFree(t)
  PROVE  GoodInv' /\ NoWildAccess'
<1>1. PICK r, f :
        /\ r = [thr[t] EXCEPT !.childexit = TRUE,
                  !.mem = IF arg[t].flag /\ ~FreeStackOnExit(t) THEN "freed" ELSE @]
        /\ f = (arg[t].flag /\ FreeStackOnExit(t) /\ ParentDone(t))
  OBVIOUS
<1>2. PICK x : x = [Nobody EXCEPT !.sem = thr[t].notify, !.flag = f]
  OBVIOUS
<1>3. /\ thr[t] \in ThreadRec /\ LifeTypeOK /\ FlagsAt(t)
      /\ MemAt(t) /\ AwaitedAt(t) /\ NotifyAt(t)
  BY DEF BaseInv, LifeTypeOK, StageInv, GoodInv
<1>4. /\ at[t] = "free" /\ Goes(t, "term", x) /\ Touches({t})
      /\ thr' = [thr EXCEPT ![t] = r]
      /\ plist' = IF arg[t].flag THEN plist \ {t} ELSE plist
      /\ UNCHANGED <<recycle, sema, sem_pool>>
  BY <1>1, <1>2, <1>3 DEF ExitFree, LifeTypeOK, semVars
<1>5. /\ thr[t].mem = "live" /\ thr[t].kind \notin {"none", "old"} /\ t \notin Recycled
      /\ thr[t].kport /\ arg[t].flag = ~thr[t].joinable /\ NewStyle(t)
  BY <1>3, <1>4, OnTheWay DEF NewStyle, FlagsAt
<1>6. NoWildAccess'
  BY <1>4, <1>5, Tame
<1>7. /\ r \in ThreadRec /\ r.kind = thr[t].kind /\ r.joinable = thr[t].joinable
      /\ r.exited = thr[t].exited /\ r.parentcheck = thr[t].parentcheck
      /\ r.kport = thr[t].kport /\ r.notify = thr[t].notify
      /\ r.mem = IF ~thr[t].joinable /\ thr[t].kind = "user" THEN "freed" ELSE "live"
  BY <1>1, <1>3, <1>5 DEF ThreadRec, FreeStackOnExit
<1>8. thr'[t] = r /\ \A u \in Thread : u # t => thr'[u] = thr[u] /\ Listed(u)
  BY <1>3, <1>4, <1>7, ChangesThread DEF Listed
<1>9. /\ Others(t, t) /\ at'[t] = "term" /\ arg'[t] = x
      /\ \A u \in Thread : u # t => Stays(u)
  BY <1>4, <1>8, GoesOthers
<1>10. x.sem = thr[t].notify
  BY <1>2 DEF Nobody
<1>11. at[t] \notin CallPoints /\ at'[t] \notin CallPoints
  BY <1>4, <1>9 DEF CallPoints
<1>12. PrivAt(t)' /\ ~Private(t)'
  BY <1>9 DEF PrivAt, Private
<1>13. MemAt(t)'
  BY <1>4, <1>5, <1>7, <1>8, <1>9 DEF MemAt, NewStyle
<1>14. /\ Waiters(t)' = Waiters(t) /\ (NewStyle(t)' <=> NewStyle(t))
       /\ ~Ended(t) /\ ~Ended(t)'
  BY <1>4, <1>5, <1>7, <1>8, <1>9, <1>11, SelfWaiters DEF NewStyle, Ended
<1>15. CallFrame(t)
  BY <1>4, <1>5, <1>7, <1>8 DEF CallFrame, Listed
<1>16. AwaitedAt(t)'
  <2>1. /\ thr'[t].notify = thr[t].notify /\ thr'[t].joinable = thr[t].joinable
        /\ thr'[t].mem = "live" => thr[t].mem = "live" /\ sema' = sema
    BY <1>4, <1>5, <1>7, <1>8
  <2> QED
    BY <1>3, <1>4, <1>14, <2>1 DEF AwaitedAt
<1>17. NotifyAt(t)'
  BY <1>3, <1>5, <1>7, <1>8, <1>9, <1>10, <1>14 DEF NotifyAt
<1>18. /\ Recycled' \subseteq Recycled \cup {t}
       /\ t \in Recycled' => t \notin plist' /\ ~thr'[t].joinable
  BY <1>4, <1>5 DEF Recycled
<1>19. Pooled' = Pooled /\ PoolDistinct'
  BY <1>4, PoolUnchanged DEF GoodInv, PoolInv
<1>20. /\ \A y \in Pooled : sema'[y] = sema[y]
       /\ \A u \in Thread : u # t /\ Owns(u) =>
            sema'[thr[u].notify] = sema[thr[u].notify]
       /\ \A u \in Thread : u # t /\ Private(u) =>
            sema'[arg[u].sem] = sema[arg[u].sem]
  BY <1>4
<1>21. PlaceInv' /\ PoolInv'
  <2>1. Owns(t)' => Owns(t) /\ thr'[t].notify = thr[t].notify
    BY <1>5, <1>7, <1>8 DEF Owns
  <2> QED
    BY <1>9, <1>12, <1>19, <1>20, <2>1, PlaceSame, PoolSame
<1>22. GoodInv'
  BY <1>9, <1>11, <1>12, <1>13, <1>15, <1>16, <1>17, <1>18, <1>20, <1>21, SelfGood
<1> QED
  BY <1>6, <1>22

LEMMA ExitOldFreeGood ==
  ASSUME BaseInv, GoodInv, wild = {}, NEW t \in Thread, ExitOldFree(t)
  PROVE  GoodInv' /\ NoWildAccess'
<1>1. /\ thr[t] \in ThreadRec /\ LifeTypeOK /\ FlagsAt(t)
      /\ MemAt(t) /\ AwaitedAt(t) /\ NotifyAt(t) /\ recycle \in Seq(Thread)
  BY DEF BaseInv, LifeTypeOK, StageInv, GoodInv
<1>2. /\ at[t] = "oldfree" /\ Goes(t, "dead", Nobody)
      /\ plist' = IF arg[t].flag THEN plist \ {t} ELSE plist
      /\ wild' = IF arg[t].flag /\ (t = Main \/ t \notin plist)
                 THEN wild \cup {t} ELSE wild
      /\ recycle' = IF arg[t].flag THEN Append(recycle, t) ELSE recycle
      /\ UNCHANGED <<thr, sema, sem_pool>>
  BY DEF ExitOldFree, semVars
<1>3. /\ thr[t].mem = "live" /\ thr[t].kind = "old" /\ t \notin Recycled
      /\ thr[t].exited /\ arg[t].flag = ~thr[t].joinable
      /\ arg[t].flag => t \in plist
  BY <1>1, <1>2, OnTheWay DEF FlagsAt, MemAt
<1>4. NoWildAccess'
  BY <1>2, <1>3 DEF NoWildAccess
<1>5. \A u \in Thread : thr'[u] = thr[u] /\ (u # t => Listed(u))
  BY <1>2 DEF Listed
<1>6. /\ Others(t, t) /\ at'[t] = "dead" /\ arg'[t] = Nobody
      /\ \A u \in Thread : u # t => Stays(u)
  BY <1>2, <1>5, GoesOthers
<1>7. at[t] \notin CallPoints /\ at'[t] \notin CallPoints
  BY <1>2, <1>6 DEF CallPoints
<1>8. PrivAt(t)' /\ ~Private(t)'
  BY <1>6 DEF PrivAt, Private
<1>9. MemAt(t)'
  BY <1>2, <1>3, <1>5, <1>6 DEF MemAt, NewStyle
<1>10. /\ Waiters(t)' = Waiters(t) /\ (NewStyle(t)' <=> NewStyle(t))
       /\ Ended(t)' <=> Ended(t)
       /\ (\E j \in Thread : at[j] \in {"wait", "reap"} /\ arg[j].who = t) =>
             \E j \in Thread : at'[j] \in {"wait", "reap"} /\ arg'[j].who = t
  BY <1>3, <1>5, <1>6, <1>7, SelfWaiters DEF NewStyle, Ended
<1>11. CallFrame(t)
  BY <1>2, <1>3, <1>5 DEF CallFrame, Listed
<1>12. AwaitedAt(t)'
  BY <1>1, <1>2, <1>5, <1>10 DEF AwaitedAt
<1>13. NotifyAt(t)'
  BY <1>1, <1>2, <1>3, <1>5, <1>6, <1>10 DEF NotifyAt, NewStyle
<1>14. /\ Recycled' \subseteq Recycled \cup {t}
       /\ t \in Recycled' => t \notin plist' /\ ~thr'[t].joinable
  <2>1. CASE arg[t].flag
    <3>1. recycle' = Append(recycle, t)
      BY <1>2, <2>1
    <3>2. \A i \in 1..Len(recycle') :
            recycle'[i] = t \/ (i \in 1..Len(recycle) /\ recycle'[i] = recycle[i])
      BY <1>1, <3>1
    <3>3. Recycled' \subseteq Recycled \cup {t}
      BY <3>2 DEF Recycled
    <3> QED
      BY <1>2, <1>3, <2>1, <3>3
  <2>2. CASE ~arg[t].flag
    BY <1>2, <1>3, <2>2 DEF Recycled
  <2> QED
    BY <2>1, <2>2
<1>15. Pooled' = Pooled /\ PoolDistinct'
  BY <1>2, PoolUnchanged DEF GoodInv, PoolInv
<1>16. /\ \A y \in Pooled : sema'[y] = sema[y]
       /\ \A u \in Thread : u # t /\ Owns(u) =>
            sema'[thr[u].notify] = sema[thr[u].notify]
       /\ \A u \in Thread : u # t /\ Private(u) =>
            sema'[arg[u].sem] = sema[arg[u].sem]
  BY <1>2
<1>17. PlaceInv' /\ PoolInv'
  <2>1. Owns(t)' => Owns(t) /\ thr'[t].notify = thr[t].notify
    BY <1>5 DEF Owns
  <2> QED
    BY <1>6, <1>8, <1>15, <1>16, <2>1, PlaceSame, PoolSame
<1>18. GoodInv'
  BY <1>6, <1>7, <1>8, <1>9, <1>11, <1>12, <1>13, <1>14, <1>16, <1>17, SelfGood
<1> QED
  BY <1>4, <1>18

\* The kernel ends the thread, and wakes up its joiner or leaves a signal.
LEMMA TerminateGood ==
  ASSUME BaseInv, GoodInv, wild = {}, NEW t \in Thread, Terminate(t)
  PROVE  GoodInv' /\ NoWildAccess'
<1>1. PICK s, r : /\ s = thr[t].notify
                  /\ r = IF arg[t].flag THEN [thr[t] EXCEPT !.mem = "freed"] ELSE thr[t]
  OBVIOUS
<1>2. /\ thr[t] \in ThreadRec /\ LifeTypeOK /\ FlagsAt(t) /\ sema \in [Sem -> SemRec]
      /\ MemAt(t) /\ AwaitedAt(t) /\ NotifyAt(t)
  BY DEF BaseInv, LifeTypeOK, StageInv, GoodInv
<1>3. /\ at[t] = "term" /\ Goes(t, "dead", Nobody) /\ wild' = wild
      /\ thr' = [thr EXCEPT ![t] = r]
      /\ sema' = IF s # NULL THEN Signalled(sema, s) ELSE sema
      /\ UNCHANGED <<plist, recycle, sem_pool>>
  <2>1. at[t] = "term" /\ arg[t].sem = s
    BY <1>1, <1>2 DEF Terminate, NotifyAt
  <2>2. thr' = [thr EXCEPT ![t] = r]
    BY <1>1, <1>2 DEF Terminate, Freed, LifeTypeOK
  <2> QED
    BY <2>1, <2>2 DEF Terminate
<1>4. /\ thr[t].kind \notin {"none", "old"} /\ NewStyle(t) /\ t \notin Recycled
      /\ thr[t].kport /\ (arg[t].flag => ~thr[t].joinable /\ thr[t].parentcheck)
      /\ thr[t].mem \in {"live", "freed"} /\ (thr[t].joinable => thr[t].mem = "live")
      /\ (~thr[t].joinable => t \notin plist)
  BY <1>2, <1>3, ReapedFacts DEF FlagsAt, NewStyle, MemAt, ThreadRec
<1>5. NoWildAccess'
  BY <1>3, TameSame
<1>6. /\ r \in ThreadRec /\ r.kind = thr[t].kind /\ r.joinable = thr[t].joinable
      /\ r.exited = thr[t].exited /\ r.parentcheck = thr[t].parentcheck
      /\ r.kport = thr[t].kport /\ r.notify = s
      /\ r.mem = IF arg[t].flag THEN "freed" ELSE thr[t].mem
  BY <1>1, <1>2 DEF ThreadRec
<1>7. thr'[t] = r /\ \A u \in Thread : u # t => thr'[u] = thr[u] /\ Listed(u)
  BY <1>2, <1>3, <1>6, ChangesThread DEF Listed
<1>8. /\ Others(t, t) /\ at'[t] = "dead" /\ arg'[t] = Nobody
      /\ \A u \in Thread : u # t => Stays(u)
  BY <1>3, <1>7, GoesOthers
<1>9. at[t] \notin CallPoints /\ at'[t] \notin CallPoints
  BY <1>3, <1>8 DEF CallPoints
<1>10. PrivAt(t)' /\ ~Private(t)'
  BY <1>8 DEF PrivAt, Private
<1>11. MemAt(t)'
  BY <1>2, <1>3, <1>4, <1>6, <1>7, <1>8 DEF MemAt, NewStyle
<1>12. /\ Waiters(t)' = Waiters(t) /\ NewStyle(t)' /\ ~Ended(t) /\ Ended(t)'
  BY <1>3, <1>4, <1>6, <1>7, <1>8, <1>9, SelfWaiters DEF NewStyle, Ended
<1>13. CallFrame(t)
  BY <1>1, <1>3, <1>4, <1>6, <1>7 DEF CallFrame, Listed
<1>14. NotifyAt(t)'
  BY <1>1, <1>2, <1>4, <1>6, <1>7, <1>8, <1>12 DEF NotifyAt
<1>15. /\ Recycled' \subseteq Recycled \cup {t}
       /\ t \in Recycled' => t \notin plist' /\ ~thr'[t].joinable
  BY <1>3, <1>4 DEF Recycled
<1>16. /\ \A u \in Thread : u # t /\ Owns(u) =>
            sema'[thr[u].notify] = sema[thr[u].notify]
       /\ \A u \in Thread : Private(u) => sema'[arg[u].sem] = sema[arg[u].sem]
       /\ \A y \in Pooled : sema'[y] = sema[y]
       /\ AwaitedAt(t)'
  <2>1. CASE s # NULL
    <3>1. s \in Sem /\ Owns(t)
      BY <1>1, <1>2, <1>4, <2>1 DEF ThreadRec, Owns
    <3>2. sema' = Signalled(sema, s) /\ \A y \in Sem : y # s => sema'[y] = sema[y]
      BY <1>2, <1>3, <2>1, <3>1, SignalledSem
    <3>3. AwaitedAt(t)'
      <4> SUFFICES ASSUME thr'[t].joinable, thr'[t].mem = "live"
                   PROVE  AwaitedAt(t)'
        BY DEF AwaitedAt
      <4>1. thr[t].joinable /\ thr[t].mem = "live"
        BY <1>4, <1>6, <1>7
      <4>2. CASE Waiters(t) = {}
        <5>1. sema[s] = [count |-> 0, queue |-> <<>>]
          BY <1>1, <1>2, <1>12, <2>1, <4>1, <4>2 DEF AwaitedAt
        <5>2. sema'[s] = [count |-> 1, queue |-> <<>>]
          <6>1. sema[s].queue = <<>> /\ sema[s].count = 0
            BY <5>1
          <6>2. Signalled(sema, s)[s] = [count |-> 0 + 1, queue |-> <<>>]
            BY <1>2, <3>1, <6>1, SignalledSem
          <6> QED
            BY <3>2, <6>2
        <5> QED
          BY <1>6, <1>7, <1>12, <4>2, <5>2 DEF AwaitedAt
      <4>3. ASSUME NEW j \in Thread, Waiters(t) = {j} PROVE AwaitedAt(t)'
        <5>1. sema[s] = [count |-> 0, queue |-> <<j>>]
          BY <1>1, <1>2, <1>12, <2>1, <4>1, <4>3 DEF AwaitedAt
        <5>2. sema'[s] = [count |-> 0, queue |-> <<>>]
          <6>1. sema[s].queue = <<j>> /\ sema[s].count = 0
            BY <5>1
          <6>2. Signalled(sema, s)[s] = [count |-> 0, queue |-> <<>>]
            BY <1>2, <3>1, <6>1, SignalledSem
          <6> QED
            BY <3>2, <6>2
        <5> QED
          BY <1>6, <1>7, <1>12, <4>3, <5>2 DEF AwaitedAt
      <4> QED
        BY <1>1, <1>2, <2>1, <4>1, <4>2, <4>3 DEF AwaitedAt
    <3> QED
      BY <1>1, <3>1, <3>2, <3>3, OnlyTheirs
  <2>2. CASE s = NULL
    BY <1>3, <1>6, <1>7, <2>2 DEF AwaitedAt
  <2> QED
    BY <2>1, <2>2
<1>17. Pooled' = Pooled /\ PoolDistinct'
  BY <1>3, PoolUnchanged DEF GoodInv, PoolInv
<1>18. PlaceInv' /\ PoolInv'
  <2>1. Owns(t)' => Owns(t) /\ thr'[t].notify = thr[t].notify
    BY <1>1, <1>4, <1>6, <1>7 DEF Owns
  <2> QED
    BY <1>8, <1>10, <1>16, <1>17, <2>1, PlaceSame, PoolSame
<1>19. GoodInv'
  BY <1>8, <1>9, <1>10, <1>11, <1>13, <1>14, <1>15, <1>16, <1>18, SelfGood
<1> QED
  BY <1>5, <1>19

---------------------------------------------------------------------------
(* Creation and start *)

\* Nobody calls on a thread that has not started.
LEMMA NoCallsYet ==
  ASSUME BaseInv, NEW t \in Thread, ~thr[t].kport
  PROVE  CallsOn(t) = {}
BY CallsWhom DEF CallsOn

LEMMA StartGood ==
  ASSUME BaseInv, GoodInv, wild = {}, NEW t \in Thread, Start(t)
  PROVE  GoodInv' /\ NoWildAccess'
<1>1. PICK r0 : r0 = IF thr[t].kind = "kernel" THEN StructInit(thr[t], arg[t].flag)
                    ELSE thr[t]
  OBVIOUS
<1>2. PICK r : r = [r0 EXCEPT !.kport = TRUE, !.childrun = TRUE]
  OBVIOUS
<1>3. /\ at[t] = "start" /\ NewStyle(t) /\ Goes(t, "run", Nobody) /\ Touches({t})
      /\ thr' = [thr EXCEPT ![t] = r]
      /\ plist' \in {plist, plist \cup {t}}
      /\ UNCHANGED <<recycle, sema, sem_pool>>
  BY <1>1, <1>2 DEF Start, semVars
<1>4. /\ thr[t] \in ThreadRec /\ arg[t].flag \in BOOLEAN /\ LifeTypeOK /\ FlagsAt(t)
      /\ NotifyAt(t)
  BY DEF BaseInv, LifeTypeOK, StageInv, ArgRec, GoodInv
<1>5. /\ thr[t].mem = "live" /\ thr[t].kind \notin {"none", "old"} /\ t \notin Recycled
      /\ ~thr[t].kport /\ thr[t].notify = NULL /\ ~thr[t].exited
  BY <1>3, <1>4, OnTheWay DEF NewStyle, FlagsAt, NotifyAt
<1>6. NoWildAccess'
  BY <1>3, <1>5, Tame
<1>7. /\ r0 \in ThreadRec /\ r0.kind = thr[t].kind /\ r0.notify = thr[t].notify
      /\ r0.mem = thr[t].mem /\ r0.exited = thr[t].exited
  BY <1>1, <1>4, InitRec
<1>8. /\ r \in ThreadRec /\ r.kind = thr[t].kind /\ r.notify = NULL
      /\ r.mem = "live" /\ ~r.exited /\ r.kport
  BY <1>2, <1>5, <1>7 DEF ThreadRec
<1>9. thr'[t] = r /\ \A u \in Thread : u # t => thr'[u] = thr[u] /\ Listed(u)
  BY <1>3, <1>4, <1>8, ChangesThread DEF Listed
<1>10. Others(t, t) /\ at'[t] = "run" /\ arg'[t] = Nobody
  BY <1>3, <1>9, GoesOthers
<1>11. at[t] \notin CallPoints /\ at'[t] \notin CallPoints
  BY <1>3, <1>10 DEF CallPoints
<1>12. PrivAt(t)' /\ ~Private(t)' /\ ~Owns(t)' /\ AwaitedAt(t)'
  BY <1>8, <1>9, <1>10 DEF PrivAt, Private, Owns, AwaitedAt
<1>13. MemAt(t)'
  BY <1>5, <1>8, <1>9, <1>10 DEF MemAt
<1>14. NotifyAt(t)'
  BY <1>5, <1>8, <1>9, <1>10 DEF NotifyAt
<1>15. CallsOn(t) = {}
  BY <1>5, NoCallsYet
<1>16. Recycled' \subseteq Recycled \cup {t} /\ t \notin Recycled'
  BY <1>3, <1>5 DEF Recycled
<1>17. Pooled' = Pooled /\ PoolDistinct'
  BY <1>3, PoolUnchanged DEF GoodInv, PoolInv
<1>18. sema' = sema
  BY <1>3
<1>19. PlaceInv' /\ PoolInv'
  BY <1>10, <1>12, <1>17, <1>18, PlaceSame, PoolSame
<1>20. GoodInv'
  BY <1>10, <1>11, <1>12, <1>13, <1>14, <1>15, <1>16, <1>18, <1>19, SelfGood
<1> QED
  BY <1>6, <1>20

LEMMA CreateReturnGood ==
  ASSUME BaseInv, GoodInv, wild = {}, NEW p \in Thread, CreateReturn(p)
  PROVE  GoodInv' /\ NoWildAccess'
<1>1. PICK t, r, first :
        /\ t = arg[p].who
        /\ r = [thr[t] EXCEPT !.parentcheck = TRUE,
                  !.mem = IF ChildGone(t) THEN "freed" ELSE @]
        /\ first = (~ChildGone(t) /\ ~thr[t].childrun)
  OBVIOUS
<1>2. /\ at[p] = "create" /\ LifeTypeOK /\ Goes(p, "run", Nobody) /\ Touches({t})
      /\ plist' = IF first THEN plist \cup {t} ELSE plist
      /\ UNCHANGED <<recycle, sema, sem_pool>>
  BY <1>1 DEF CreateReturn, BaseInv, semVars
<1>3. /\ t \in Thread /\ thr[t] \in ThreadRec /\ thr[t].kind \notin {"none", "old"}
  BY <1>1, <1>2 DEF BaseInv, StageInv, HandsAt, LifeTypeOK
<1>4. /\ FlagsAt(t) /\ ParentAt(t) /\ MemAt(t) /\ AwaitedAt(t) /\ NotifyAt(t)
      /\ FlagsAt(p)
  BY <1>3 DEF BaseInv, StageInv, GoodInv
<1>5. /\ ~thr[t].parentcheck /\ NewStyle(t)
      /\ t \notin Recycled
  <2>1. p \in Parents(t)
    BY <1>1, <1>2 DEF Parents
  <2> QED
    BY <1>3, <1>4, <2>1, ReapedFacts DEF ParentAt, NewStyle
<1>6. thr' = [thr EXCEPT ![t] = r]
  BY <1>1, <1>2, <1>3 DEF CreateReturn, LifeTypeOK
<1>7. /\ r \in ThreadRec /\ r.kind = thr[t].kind /\ r.joinable = thr[t].joinable
      /\ r.exited = thr[t].exited /\ r.parentcheck = TRUE
      /\ r.notify = thr[t].notify /\ r.kport = thr[t].kport
      /\ r.mem = IF ChildGone(t) THEN "freed" ELSE thr[t].mem
  BY <1>1, <1>3 DEF ThreadRec
<1>8. thr'[t] = r /\ \A u \in Thread : u # t => thr'[u] = thr[u] /\ Listed(u)
  BY <1>2, <1>3, <1>6, <1>7, ChangesThread DEF Listed
<1>9. /\ Others(p, t) /\ at'[p] = "run" /\ arg'[p] = Nobody
      /\ \A u \in Thread : u # p => Stays(u)
  BY <1>2, <1>3, <1>8, GoesOthers
<1>10. /\ at[p] \notin CallPoints /\ at'[p] \notin CallPoints
       /\ at[p] \notin {"wait", "reap"} /\ at'[p] # "wait"
  BY <1>2, <1>9 DEF CallPoints
<1>11. /\ at'[t] \in {"term", "dead"} <=> at[t] \in {"term", "dead"}
       /\ at'[t] \in {"term", "dead"} => at'[t] = at[t] /\ arg'[t] = arg[t]
       /\ at'[t] = "dead" <=> at[t] = "dead"
  BY <1>2, <1>3, <1>9 DEF Stays
<1>12. ChildGone(t) => at[t] \in {"term", "dead"} /\ ~thr[t].joinable
  BY <1>3, <1>4 DEF FlagsAt, ChildGone
<1>13. first => at[t] = "start" /\ thr[t].mem = "live" /\ ~thr[t].kport
                /\ ~ChildGone(t)
  <2>1. first => at[t] = "start" /\ ~thr[t].kport /\ ~ChildGone(t)
    BY <1>1, <1>3, <1>4 DEF FlagsAt
  <2> QED
    BY <1>3, <2>1, OnTheWay
<1>14. NoWildAccess'
  <2>1. CASE thr[t].mem = "live"
    BY <1>2, <2>1, Tame
  <2>2. CASE thr[t].mem # "live"
    <3>1. thr[t].mem = "freed"
      BY <1>3, <1>4, <2>2 DEF FlagsAt, ThreadRec
    <3>2. thr[t].kind = "user" /\ ~thr[t].joinable
      BY <1>4, <1>5, <3>1 DEF MemAt
    <3>3. wild' \subseteq {t}
      BY <1>2 DEF Touches
    <3> QED
      BY <1>7, <1>8, <3>2, <3>3 DEF NoWildAccess
  <2> QED
    BY <2>1, <2>2
<1>15. CallsOn(t) \subseteq {p} \/ CallFrame(t)
  <2>1. CASE first
    BY <1>3, <1>13, <2>1, NoCallsYet
  <2>2. CASE ~first
    BY <1>2, <1>7, <1>8, <1>12, <2>2 DEF CallFrame, Listed
  <2> QED
    BY <1>1, <2>1, <2>2
<1>16. CallAt(p)' /\ PrivAt(p)' /\ ~Private(p)'
  BY <1>9, <1>10 DEF CallAt, PrivAt, Private
<1>17. MemAt(t)'
  <2>1. t \in plist' => thr'[t].mem = "live"
    <3>1. CASE first
      BY <1>7, <1>8, <1>13, <3>1
    <3>2. CASE ~first
      BY <1>2, <1>4, <1>5, <1>7, <1>8, <1>12, <3>2 DEF MemAt
    <3> QED
      BY <1>1, <3>1, <3>2
  <2>2. thr'[t].mem = "freed" => at'[t] \in {"dead", "term"}
    BY <1>4, <1>7, <1>8, <1>11, <1>12 DEF MemAt
  <2>3. thr'[t].mem = "freed" /\ at'[t] = "term" => ~thr'[t].joinable
    BY <1>4, <1>7, <1>8, <1>11, <1>12 DEF MemAt
  <2>4. at'[t] \in {"term", "dead"} /\ ~thr'[t].joinable => t \notin plist'
    <3>1. at[t] \in {"term", "dead"} => plist' = plist
      BY <1>1, <1>2, <1>13
    <3> QED
      BY <1>4, <1>5, <1>7, <1>8, <1>11, <3>1 DEF MemAt
  <2>5. NewStyle(t)' /\ thr'[t].parentcheck /\ thr'[t].kind # "old"
    BY <1>3, <1>7, <1>8 DEF NewStyle
  <2> QED
    BY <2>1, <2>2, <2>3, <2>4, <2>5 DEF MemAt
<1>18. Waiters(t)' = Waiters(t)
  BY <1>9, <1>10, SelfWaiters
<1>19. (NewStyle(t)' <=> NewStyle(t)) /\ (Ended(t)' <=> Ended(t))
  BY <1>5, <1>7, <1>8, <1>11 DEF NewStyle, Ended
<1>20. AwaitedAt(t)'
  <2>1. /\ thr'[t].notify = thr[t].notify /\ thr'[t].joinable = thr[t].joinable
        /\ thr'[t].mem = "live" => thr[t].mem = "live"
        /\ sema' = sema
    BY <1>2, <1>7, <1>8
  <2> QED
    BY <1>4, <1>18, <1>19, <2>1 DEF AwaitedAt
<1>21. NotifyAt(t)'
  BY <1>3, <1>4, <1>5, <1>7, <1>8, <1>11, <1>19 DEF NotifyAt
<1>22. Recycled' \subseteq Recycled \cup {t} /\ t \notin Recycled'
  BY <1>2, <1>5 DEF Recycled
<1>23. Pooled' = Pooled /\ PoolDistinct' /\ sema' = sema
  BY <1>2, PoolUnchanged DEF GoodInv, PoolInv
<1>24. PlaceInv' /\ PoolInv'
  <2>1. Owns(t)' => Owns(t) /\ thr'[t].notify = thr[t].notify
    BY <1>7, <1>8 DEF Owns
  <2> QED
    BY <1>3, <1>9, <1>16, <1>23, <2>1, PlaceSame, PoolSame
<1>25. GoodInv'
  BY <1>3, <1>9, <1>10, <1>15, <1>16, <1>17, <1>20, <1>21, <1>22, <1>23, <1>24, GoodFrom
<1> QED
  BY <1>14, <1>25

\* The parent makes a structure for a thread that there was not.
LEMMA BornGood ==
  ASSUME BaseInv, GoodInv, NEW p \in Thread, NEW t \in Thread, NEW r \in ThreadRec,
         thr[t].kind = "none", at[p] = "run", thr' = [thr EXCEPT ![t] = r],
         r.kind # "none", r.mem = "live", r.notify = NULL, ~r.exited,
         r.kind = "old" => t \in plist',
         plist' \in {plist, plist \cup {t}},
         at'[p] \in {"run", "create"}, at'[t] = "start",
         \A u \in Thread : u # p /\ u # t => Stays(u),
         UNCHANGED <<recycle, sema, sem_pool>>
  PROVE  GoodInv'
<1>1. /\ at[t] = "none" /\ t \notin Recycled /\ CallsOn(t) = {} /\ p # t
  BY NewThread DEF CallsOn
<1>2. LifeTypeOK
  BY DEF BaseInv
<1>3. thr'[t] = r /\ \A u \in Thread : u # t => thr'[u] = thr[u]
  BY <1>2, ChangesThread
<1>4. Others(p, t)
  <2>1. \A u \in Thread : u # t => Alike(u) /\ Listed(u)
    BY <1>3 DEF Alike, Listed
  <2> QED
    BY <1>1, <2>1 DEF Others
<1>5. /\ at[p] \notin CallPoints /\ at'[p] \notin CallPoints
      /\ at[p] \notin {"wait", "reap"} /\ at'[p] # "wait"
  BY DEF CallPoints
<1>6. CallAt(p)' /\ PrivAt(p)' /\ ~Private(p)'
  BY <1>5 DEF CallAt, PrivAt, Private
<1>7. MemAt(t)'
  BY <1>3 DEF MemAt
<1>8. AwaitedAt(t)' /\ NotifyAt(t)' /\ ~Owns(t)'
  BY <1>3 DEF AwaitedAt, NotifyAt, Owns
<1>9. Recycled' \subseteq Recycled \cup {t} /\ t \notin Recycled'
  BY <1>1 DEF Recycled
<1>10. Pooled' = Pooled /\ PoolDistinct' /\ sema' = sema
  BY PoolUnchanged DEF GoodInv, PoolInv
<1>11. PlaceInv' /\ PoolInv'
  BY <1>4, <1>6, <1>8, <1>10, PlaceSame, PoolSame
<1> QED
  BY <1>1, <1>4, <1>5, <1>6, <1>7, <1>8, <1>9, <1>10, <1>11, GoodFrom

LEMMA CreateCallGood ==
  ASSUME BaseInv, GoodInv, wild = {}, NEW p \in Thread, NEW t \in Thread,
         NEW kind \in Kinds, NEW d \in BOOLEAN, CreateCall(p, t, kind, d)
  PROVE  GoodInv' /\ NoWildAccess'
<1>1. PICK r0, x, y : /\ r0 = [NoThread EXCEPT !.kind = kind, !.mem = "live"]
                      /\ x = [Nobody EXCEPT !.who = t]
                      /\ y = [Nobody EXCEPT !.flag = d]
  OBVIOUS
<1>2. PICK r : r = IF kind = "kernel" THEN r0 ELSE StructInit(r0, d)
  OBVIOUS
<1>3. /\ at[p] = "run" /\ thr[t].kind = "none" /\ kind \in Allocations \ {"old"}
      /\ thr' = [thr EXCEPT ![t] = r] /\ plist' = plist /\ wild' = wild
      /\ at' = [at EXCEPT ![p] = "create", ![t] = "start"]
      /\ arg' = [arg EXCEPT ![p] = x, ![t] = y]
      /\ UNCHANGED <<recycle, sema, sem_pool>>
  BY <1>1, <1>2, LifeAssumption DEF CreateCall, semVars
<1>4. /\ r0 \in ThreadRec /\ r0.kind = kind /\ r0.mem = "live" /\ r0.exited = FALSE
      /\ r0.notify = NULL
  BY <1>1, <1>3, NoThreadRec
<1>5. /\ r \in ThreadRec /\ r.kind = kind /\ r.mem = "live" /\ r.exited = FALSE
      /\ r.notify = NULL
  BY <1>2, <1>4, InitRec
<1>6. at[t] = "none" /\ p # t
  BY <1>3, NewThread
<1>7. /\ at'[p] = "create" /\ at'[t] = "start"
      /\ \A u \in Thread : u # p /\ u # t => Stays(u)
  BY <1>3, <1>6 DEF BaseInv, LifeTypeOK, Stays
<1>8. kind \notin {"none", "old"}
  BY <1>3 DEF Allocations
<1>9. GoodInv'
  BY <1>3, <1>5, <1>7, <1>8, BornGood
<1> QED
  BY <1>3, <1>9, TameSame

LEMMA CreateSuspendedGood ==
  ASSUME BaseInv, GoodInv, wild = {}, NEW p \in Thread, NEW t \in Thread,
         NEW d \in BOOLEAN, CreateSuspended(p, t, d)
  PROVE  GoodInv' /\ NoWildAccess'
<1>1. PICK r : r = [StructInit(NoThread, d) EXCEPT !.kind = "old", !.mem = "live",
                                                  !.kport = TRUE]
  OBVIOUS
<1>2. /\ at[p] = "run" /\ thr[t].kind = "none" /\ thr' = [thr EXCEPT ![t] = r]
      /\ plist' = plist \cup {t} /\ at' = [at EXCEPT ![t] = "start"]
      /\ UNCHANGED <<arg, recycle, wild, sema, sem_pool>>
  BY <1>1 DEF CreateSuspended, semVars
<1>3. /\ r \in ThreadRec /\ r.kind = "old" /\ r.mem = "live" /\ r.exited = FALSE
      /\ r.notify = NULL
  BY <1>1, OldRec
<1>4. at[t] = "none" /\ p # t
  BY <1>2, NewThread
<1>5. /\ at'[p] = "run" /\ at'[t] = "start"
      /\ \A u \in Thread : u # p /\ u # t => Stays(u)
  BY <1>2, <1>4 DEF BaseInv, LifeTypeOK, Stays
<1>6. GoodInv'
  BY <1>2, <1>3, <1>5, BornGood
<1> QED
  BY <1>2, <1>6, TameSame

---------------------------------------------------------------------------
(* Every step, and the initial state *)

\* What is spoiled stays spoiled.
LEMMA SpoiledStays ==
  ASSUME BaseInv, LifeNext, spoiled PROVE spoiled'
<1>1. ASSUME NEW t \in Thread, CreateStep(t) PROVE spoiled'
  BY <1>1 DEF CreateStep, CreateCall, CreateSuspended
<1>2. ASSUME NEW t \in Thread, Underway(t) PROVE spoiled'
  <2>1. CASE CreateReturn(t) \/ Start(t) \/ Body(t) \/ ExitLocked(t) \/ ExitFree(t)
             \/ Terminate(t) \/ ExitOld(t) \/ ExitOldFree(t)
    BY <2>1 DEF CreateReturn, Start, Body, ExitLocked, ExitFree, Terminate, ExitOld,
                ExitOldFree
  <2>2. CASE JoinRefused(t) \/ JoinLocked(t) \/ JoinReap(t) \/ JoinUnlink(t)
             \/ JoinReapOld(t) \/ JoinCanceled(t)
    BY <2>2 DEF JoinRefused, JoinLocked, JoinReap, JoinUnlink, JoinReapOld, JoinCanceled
  <2>3. CASE DetachLocked(t) \/ DetachSignal(t) \/ DetachJoin(t) \/ CancelLocked(t)
    BY <2>3 DEF DetachLocked, DetachSignal, DetachJoin, CancelLocked
  <2> QED
    BY <1>2, <2>1, <2>2, <2>3 DEF Underway
<1>3. ASSUME NEW t \in Thread, Exit(t) \/ TestCancel(t) PROVE spoiled'
  BY <1>3 DEF Exit, TestCancel, ExitBegin
<1>4. ASSUME NEW t \in Thread, NEW u \in Thread,
             JoinCall(t, u) \/ DetachCall(t, u) \/ CancelCall(t, u)
      PROVE  spoiled'
  BY <1>4 DEF JoinCall, DetachCall, CancelCall, Looks
<1> QED
  BY <1>1, <1>2, <1>3, <1>4 DEF LifeNext

LEMMA GoodStep ==
  ASSUME BaseInv, GoodInv, LifeNext, ~spoiled'
  PROVE  GoodInv' /\ NoWildAccess'
<1>1. wild = {}
  BY DEF LifeNext
<1>2. ASSUME NEW t \in Thread, CreateStep(t) PROVE GoodInv' /\ NoWildAccess'
  BY <1>1, <1>2, CreateCallGood, CreateSuspendedGood DEF CreateStep
<1>3. ASSUME NEW t \in Thread, Underway(t) PROVE GoodInv' /\ NoWildAccess'
  <2>1. CASE CreateReturn(t) \/ Start(t) \/ Body(t) \/ ExitLocked(t) \/ ExitFree(t)
             \/ Terminate(t) \/ ExitOld(t) \/ ExitOldFree(t)
    BY <1>1, <2>1, CreateReturnGood, StartGood, BodyGood, ExitLockedGood, ExitFreeGood,
       TerminateGood, ExitOldGood, ExitOldFreeGood
  <2>2. CASE JoinRefused(t) \/ JoinLocked(t) \/ JoinReap(t) \/ JoinUnlink(t)
             \/ JoinReapOld(t) \/ JoinCanceled(t)
    BY <1>1, <2>2, JoinRefusedGood, JoinLockedGood, JoinReapGood, JoinUnlinkGood,
       JoinReapOldGood, JoinCanceledGood
  <2>3. CASE DetachLocked(t) \/ DetachSignal(t) \/ DetachJoin(t) \/ CancelLocked(t)
    BY <1>1, <2>3, DetachLockedGood, DetachSignalGood, DetachJoinGood, CancelLockedGood
  <2> QED
    BY <1>3, <2>1, <2>2, <2>3 DEF Underway
<1>4. ASSUME NEW t \in Thread, Exit(t) \/ TestCancel(t)
      PROVE  GoodInv' /\ NoWildAccess'
  BY <1>1, <1>4, ExitBeginGood DEF Exit, TestCancel
<1>5. ASSUME NEW t \in Thread, NEW u \in Thread,
             JoinCall(t, u) \/ DetachCall(t, u) \/ CancelCall(t, u)
      PROVE  GoodInv' /\ NoWildAccess'
  BY <1>1, <1>5, JoinCallGood, PlainCallGood
<1> QED
  BY <1>2, <1>3, <1>4, <1>5 DEF LifeNext

LEMMA StutterGood ==
  ASSUME GoodInv, NoWildAccess, UNCHANGED <<lifeVars, semVars>>
  PROVE  GoodInv' /\ NoWildAccess'
<1>1. /\ thr' = thr /\ plist' = plist /\ at' = at /\ arg' = arg
      /\ recycle' = recycle /\ wild' = wild
      /\ spoiled' = spoiled /\ sema' = sema /\ sem_pool' = sem_pool
  BY DEF lifeVars, semVars
<1>2. NoWildAccess'
  BY <1>1 DEF NoWildAccess
<1>3. Pooled' = Pooled /\ Recycled' = Recycled /\ (PoolDistinct' <=> PoolDistinct)
  BY <1>1 DEF Pooled, Recycled, PoolDistinct
<1>4. ASSUME NEW t \in Thread
      PROVE  /\ NewStyle(t)' <=> NewStyle(t)
             /\ CallsOn(t)' = CallsOn(t) /\ Waiters(t)' = Waiters(t)
             /\ Private(t)' <=> Private(t)
             /\ Owns(t)' <=> Owns(t)
             /\ Touching(t)' <=> Touching(t)
  BY <1>1 DEF NewStyle, CallsOn, Waiters, Private, Owns, Touching
<1>5. ASSUME NEW t \in Thread PROVE Ended(t)' <=> Ended(t)
  BY <1>1, <1>4 DEF Ended
<1>6. ASSUME NEW t \in Thread PROVE CallAt(t)'
  <2>1. CallAt(t)
    BY DEF GoodInv
  <2> QED
    BY <1>1, <2>1 DEF CallAt, CallsOn, Touching, NewStyle
<1>7. ASSUME NEW t \in Thread
      PROVE  MemAt(t)' /\ PrivAt(t)' /\ NotifyAt(t)'
  <2>1. MemAt(t) /\ PrivAt(t) /\ NotifyAt(t)
    BY DEF GoodInv
  <2> QED
    BY <1>1, <1>4, <2>1 DEF MemAt, PrivAt, NotifyAt
<1>8. ASSUME NEW t \in Thread PROVE AwaitedAt(t)'
  <2>1. AwaitedAt(t)
    BY DEF GoodInv
  <2> QED
    BY <1>1, <1>4, <1>5, <2>1 DEF AwaitedAt
<1>9. PlaceInv'
  BY <1>1, <1>3, <1>4 DEF PlaceInv, GoodInv
<1>10. PoolInv' /\ RecycleInv'
  BY <1>1, <1>3 DEF PoolInv, RecycleInv, GoodInv
<1> QED
  BY <1>2, <1>6, <1>7, <1>8, <1>9, <1>10 DEF GoodInv

LEMMA InitGood == ASSUME LifeInit PROVE GoodInv /\ NoWildAccess
<1>1. PICK r : /\ r = [StructInit(NoThread, FALSE) EXCEPT
                         !.kind = "old", !.mem = "live", !.kport = TRUE]
  OBVIOUS
<1>2. /\ r.kind = "old" /\ r.mem = "live" /\ r.exited = FALSE /\ r.notify = NULL
      /\ r.kport = TRUE /\ r.joinable = ~FALSE
  BY <1>1, OldRec
<1>3. /\ \A t \in Thread : thr[t] = IF t = Main THEN r ELSE NoThread
      /\ \A t \in Thread : at[t] = IF t = Main THEN "run" ELSE "none"
      /\ plist = {Main} /\ recycle = <<>> /\ wild = {}
      /\ \A s \in Sem : sema[s] = Created
  BY <1>1 DEF LifeInit
<1>4. /\ NoThread.kind = "none" /\ NoThread.mem = "none" /\ NoThread.exited = FALSE
      /\ NoThread.notify = NULL /\ NoThread.kport = FALSE
  BY DEF NoThread
<1>5. ASSUME NEW t \in Thread
      PROVE  /\ at[t] \notin CallPoints /\ at[t] \in {"run", "none"}
             /\ thr[t].notify = NULL
             /\ t \in plist <=> thr[t].kind = "old"
             /\ t \in plist <=> thr[t].mem = "live"
             /\ thr[t].mem # "freed" /\ ~thr[t].exited
  BY <1>2, <1>3, <1>4 DEF CallPoints
<1>6. ASSUME NEW t \in Thread PROVE CallAt(t) /\ MemAt(t) /\ ~Private(t) /\ ~Owns(t)
  BY <1>5 DEF CallAt, MemAt, Private, Owns
<1>7. ASSUME NEW t \in Thread PROVE PrivAt(t) /\ AwaitedAt(t) /\ NotifyAt(t)
  BY <1>5, <1>6 DEF PrivAt, AwaitedAt, NotifyAt
<1>8. PlaceInv
  BY <1>6 DEF PlaceInv
<1>9. PoolInv
  <2>1. PoolDistinct
    BY InitPool DEF LifeInit, PoolDistinct
  <2> QED
    BY <1>3, <2>1 DEF PoolInv, Pooled
<1>10. RecycleInv
  BY <1>3 DEF RecycleInv, Recycled
<1> QED
  BY <1>3, <1>6, <1>7, <1>8, <1>9, <1>10 DEF GoodInv, NoWildAccess

LEMMA InitLife == ASSUME LifeInit PROVE LifeInv
BY InitBase, InitCount, InitGood DEF LifeInv, BaseInv

LEMMA LifeStep ==
  ASSUME LifeInv, [LifeNext]_<<lifeVars, semVars>>
  PROVE  LifeInv'
<1>1. BaseInv /\ CountInv
  BY DEF LifeInv, BaseInv
<1>2. BaseInv' /\ CountInv'
  BY <1>1, BaseStep, CountStep
<1>3. ASSUME ~spoiled' PROVE GoodInv' /\ NoWildAccess'
  <2>1. CASE UNCHANGED <<lifeVars, semVars>>
    <3>1. ~spoiled
      BY <1>3, <2>1 DEF lifeVars
    <3> QED
      BY <2>1, <3>1, StutterGood DEF LifeInv
  <2>2. CASE LifeNext
    <3>1. ~spoiled
      BY <1>1, <1>3, <2>2, SpoiledStays
    <3>2. GoodInv
      BY <3>1 DEF LifeInv
    <3> QED
      BY <1>1, <1>3, <2>2, <3>2, GoodStep
  <2> QED
    BY <2>1, <2>2
<1> QED
  BY <1>2, <1>3 DEF LifeInv, BaseInv

---------------------------------------------------------------------------
(* What follows *)

LEMMA InvNoWild == ASSUME LifeInv PROVE NoWildAccess
BY DEF LifeInv, NoWildAccess

LEMMA InvEnd == ASSUME LifeInv PROVE ThreadsEnd
<1>1. BaseInv /\ CountInv
  BY DEF LifeInv, BaseInv
<1>2. DetachedFreed /\ ExitsLast
  BY <1>1, FreedByOne, LastThread
<1>3. FreedWhenDead
  BY DEF LifeInv, GoodInv, MemAt, FreedWhenDead
<1> QED
  BY <1>2, <1>3 DEF ThreadsEnd, ThreadFreed

LEMMA InvJoin == ASSUME LifeInv PROVE JoinSound
<1>1. BaseInv
  BY DEF LifeInv, BaseInv
<1>2. ASSUME ~spoiled PROVE PoolClean
  <2>1. sem_pool \in Seq(Sem) /\ PoolInv
    BY <1>2 DEF LifeInv, LifeTypeOK, GoodInv
  <2>2. ASSUME NEW i \in 1..Len(sem_pool) PROVE sem_pool[i] \in Pooled
    BY <2>1 DEF Pooled
  <2> QED
    BY <2>1, <2>2 DEF PoolClean, PoolInv
<1>3. ASSUME ~spoiled, NEW j \in Thread, at[j] = "wait", at[arg[j].who] = "dead"
      PROVE  ~InQueue(j, arg[j].sem)
  <2>1. PICK t : t = arg[j].who
    OBVIOUS
  <2>2. t \in Thread /\ FlagsAt(t)
    <3>1. at[j] \in CallPoints
      BY <1>3 DEF CallPoints
    <3> QED
      BY <1>1, <2>1, <3>1, CallsWhom
  <2>3. Ended(t)
    BY <1>3, <2>1, <2>2 DEF Ended, FlagsAt
  <2>4. GoodInv
    BY <1>3 DEF LifeInv
  <2>5. sema[arg[j].sem] = [count |-> 0, queue |-> <<>>]
    BY <1>1, <1>3, <2>1, <2>2, <2>3, <2>4, WaiterFacts
  <2> QED
    BY <2>5 DEF InQueue
<1> QED
  BY <1>2, <1>3 DEF JoinSound, JoinPoolClean, JoinWoken

\* The structure of a thread is not accessed after it has been freed, whatever
\* the order in which parent and child, and the exiting thread and its joiner,
\* take the locks: for any number of threads, created in any of the ways, as
\* long as no two calls on one thread meet.
THEOREM NothingWild == LifeSpec => []NoWildAccess
<1>1. LifeInit => LifeInv
  BY InitLife
<1>2. LifeInv /\ [LifeNext]_<<lifeVars, semVars>> => LifeInv'
  BY LifeStep
<1>3. LifeInv => NoWildAccess
  BY InvNoWild
<1> QED
  BY <1>1, <1>2, <1>3, PTL DEF LifeSpec

\* A structure is freed when its thread has ended and not before, that of a
\* detached thread by whichever of parent and child comes last, and exit(0)
\* is called by the last thread and by no other.
THEOREM ThreadsEndWell == LifeSpec => []ThreadsEnd
<1>1. LifeInit => LifeInv
  BY InitLife
<1>2. LifeInv /\ [LifeNext]_<<lifeVars, semVars>> => LifeInv'
  BY LifeStep
<1>3. LifeInv => ThreadsEnd
  BY InvEnd
<1> QED
  BY <1>1, <1>2, <1>3, PTL DEF LifeSpec

\* pthread_join does not miss the end of the thread it waits for, and the
\* semaphore that it and the exiting thread agree on through joiner_notify
\* comes back to the pool with no signal and no waiter.
THEOREM JoinersAreWoken == LifeSpec => []JoinSound
<1>1. LifeInit => LifeInv
  BY InitLife
<1>2. LifeInv /\ [LifeNext]_<<lifeVars, semVars>> => LifeInv'
  BY LifeStep
<1>3. LifeInv => JoinSound
  BY InvJoin
<1> QED
  BY <1>1, <1>2, <1>3, PTL DEF LifeSpec
=============================================================================
