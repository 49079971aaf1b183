---------------------------- MODULE PthreadLife ----------------------------
(***************************************************************************)
(* The life of a thread (core/pthread.c, core/pthread_cancelable.c):       *)
(* creation, start, exit, join, detach and cancellation.                   *)
(*                                                                         *)
(* Parent and child meet in three flags of the new thread's structure:     *)
(* whoever takes the list lock first puts the thread on the list, and the  *)
(* last one to need the structure of a detached thread frees it.  A joiner *)
(* and an exiting thread meet in joiner_notify: the first of them gets a   *)
(* semaphore from the pool, the kernel signals it when the thread is gone, *)
(* and the joiner gives it back.                                           *)
(*                                                                         *)
(* A thread structure is never reused here, so that every access to one    *)
(* that has been freed, or through a null link, shows up in `wild'; a      *)
(* behaviour ends there.  What a thread does under one lock is one step.   *)
(* The pool always has a semaphore: Sem is large enough.                   *)
(***************************************************************************)
EXTENDS MachSemaphore, SequencesExt

CONSTANTS Main,          \* &_thread, the thread of the process
          Kinds,         \* the ways threads are created: see Allocations
          Careful        \* behaviours end when they are spoiled

\* kernel: the kernel allocates stack and structure (attrs->fastpath);
\* onstack: the parent does, in one piece; user: the stack is the program's
\* and the structure is malloc'ed; old: pthread_create_suspended_np.
Allocations == {"kernel", "onstack", "user", "old"}

ASSUME LifeAssumption == /\ Main \in Thread /\ Kinds \subseteq Allocations
                         /\ Careful \in BOOLEAN /\ IsFiniteSet(Sem)

VARIABLES thr,           \* the thread structures
          plist,         \* __pthread_head, as a set
          pcount,        \* _pthread_count
          at,            \* where each thread is
          arg,           \* the locals of its call: whom, a semaphore, a flag
          recycle,       \* messages of _pthread_become_available
          finished,      \* exit(0) has been called
          wild,          \* history: threads whose structure was accessed
                         \* when it was free or not linked
          spoiled        \* history: two calls on one thread met, or the
                         \* joiner of an old-style thread was cancelled

lifeVars == <<thr, plist, pcount, at, arg, recycle, finished, wild, spoiled>>

Nobody == [who |-> NULL, sem |-> NULL, flag |-> FALSE]

\* A structure of zeros; mem says whether there is one.  notify stands for
\* joiner_notify and, in old-style threads, for death.
NoThread ==
  [kind |-> "none", mem |-> "none", joinable |-> FALSE, exited |-> FALSE,
   parentcheck |-> FALSE, childrun |-> FALSE, childexit |-> FALSE,
   notify |-> NULL, joiner |-> NULL, kport |-> FALSE, enabled |-> FALSE,
   pending |-> FALSE]

\* _pthread_struct_init and, for the old style, _pthread_create.
StructInit(r, detached) ==
  [r EXCEPT !.joinable = ~detached, !.enabled = TRUE, !.pending = FALSE]

LifeInit ==
  /\ thr = [t \in Thread |->
              IF t = Main
              THEN [StructInit(NoThread, FALSE) EXCEPT
                      !.kind = "old", !.mem = "live", !.kport = TRUE]
              ELSE NoThread]
  /\ plist = {Main} /\ pcount = 1
  /\ at = [t \in Thread |-> IF t = Main THEN "run" ELSE "none"]
  /\ arg = [t \in Thread |-> Nobody]
  /\ recycle = <<>> /\ finished = FALSE /\ wild = {} /\ spoiled = FALSE
  /\ sema = [s \in Sem |-> Created]
  /\ sem_pool = SetToSeq(Sem)

NewStyle(t) == thr[t].kind # "old"
FreeStackOnExit(t) == thr[t].kind # "user"

Goes(t, l, a) ==
  /\ at' = [at EXCEPT ![t] = l]
  /\ arg' = [arg EXCEPT ![t] = a]

Touches(ts) ==
  wild' = wild \cup {t \in ts : thr[t].mem # "live"}

Freed(t) == [thr EXCEPT ![t].mem = "freed"]

---------------------------------------------------------------------------
(* Creation *)

\* _new_pthread_create_suspended up to __bsdthread_create, which succeeds.
\* A structure the kernel allocates is initialized by the child; flags says
\* that it is to be detached.
CreateCall(p, t, kind, detached) ==
  /\ at[p] = "run" /\ thr[t].kind = "none" /\ kind \in Kinds \ {"old"}
  /\ LET r == [NoThread EXCEPT !.kind = kind, !.mem = "live"] IN
       thr' = [thr EXCEPT ![t] = IF kind = "kernel" THEN r
                                 ELSE StructInit(r, detached)]
  /\ at' = [at EXCEPT ![p] = "create", ![t] = "start"]
  /\ arg' = [arg EXCEPT ![p] = [Nobody EXCEPT !.who = t],
                        ![t] = [Nobody EXCEPT !.flag = detached]]
  /\ UNCHANGED <<plist, pcount, recycle, finished, wild, spoiled, semVars>>

\* Mutant: the parent does not mop up.
ChildNeverGone(t) == FALSE

\* A detached child has left its structure to the parent.
ChildGone(t) == thr[t].childexit /\ ~thr[t].joinable

\* The rest: the parent takes the list lock, mops up after a detached child
\* that has exited, or inserts a child that does not run yet.
CreateReturn(p) ==
  /\ at[p] = "create"
  /\ LET t == arg[p].who
         gone == ChildGone(t)
         first == ~gone /\ ~thr[t].childrun IN
       /\ thr' = [thr EXCEPT ![t].parentcheck = TRUE,
                             ![t].mem = IF gone THEN "freed" ELSE @]
       /\ plist' = IF first THEN plist \cup {t} ELSE plist
       /\ pcount' = IF first THEN pcount + 1 ELSE pcount
       /\ Touches({t})
  /\ Goes(p, "run", Nobody)
  /\ UNCHANGED <<recycle, finished, spoiled, semVars>>

\* _pthread_start: the child takes the list lock.
Start(t) ==
  /\ at[t] = "start" /\ NewStyle(t)
  /\ LET r == IF thr[t].kind = "kernel" THEN StructInit(thr[t], arg[t].flag)
              ELSE thr[t] IN
       thr' = [thr EXCEPT ![t] = [r EXCEPT !.kport = TRUE, !.childrun = TRUE]]
  /\ plist' = IF thr[t].parentcheck THEN plist ELSE plist \cup {t}
  /\ pcount' = IF thr[t].parentcheck THEN pcount ELSE pcount + 1
  /\ Touches({t})
  /\ Goes(t, "run", Nobody)
  /\ UNCHANGED <<recycle, finished, spoiled, semVars>>

\* _pthread_create_suspended; the program then resumes the kernel thread,
\* which runs _pthread_body.
CreateSuspended(p, t, detached) ==
  /\ at[p] = "run" /\ thr[t].kind = "none" /\ "old" \in Kinds
  /\ thr' = [thr EXCEPT ![t] = [StructInit(NoThread, detached) EXCEPT
               !.kind = "old", !.mem = "live", !.kport = TRUE]]
  /\ plist' = plist \cup {t} /\ pcount' = pcount + 1
  /\ at' = [at EXCEPT ![t] = "start"]
  /\ UNCHANGED <<arg, recycle, finished, wild, spoiled, semVars>>

Body(t) ==
  /\ at[t] = "start" /\ ~NewStyle(t)
  /\ Goes(t, "run", Nobody)
  /\ UNCHANGED <<thr, plist, pcount, recycle, finished, wild, spoiled, semVars>>

---------------------------------------------------------------------------
(* Exit *)

\* _pthread_exit, from the return of the thread's function, pthread_exit, or
\* a cancellation point: cancellation is disabled, and an old-style thread
\* reaps what it finds dead on the recycle port, up to the first message of
\* a thread that is not dead yet, which goes back.
DeadPrefix ==
  CHOOSE n \in 0..Len(recycle) :
    /\ \A i \in 1..n : at[recycle[i]] = "dead"
    /\ n < Len(recycle) => at[recycle[n + 1]] # "dead"

PutBack(q) == IF q = <<>> THEN q ELSE Append(Tail(q), Head(q))

\* _pthread_reap_threads
ReapThreads(r) ==
  LET n == DeadPrefix IN
    /\ thr' = [u \in Thread |->
                 IF \E i \in 1..n : recycle[i] = u
                 THEN [r[u] EXCEPT !.mem = "freed"] ELSE r[u]]
    /\ recycle' = PutBack(SubSeq(recycle, n + 1, Len(recycle)))

Exiting(t) == [thr EXCEPT ![t].enabled = FALSE]

\* A new-style thread that is joinable and that nobody waits for takes a
\* semaphore, in case it is needed.
ExitBegin(t) ==
  LET fresh == NewStyle(t) /\ thr[t].notify = NULL /\ thr[t].joinable IN
    /\ IF NewStyle(t) THEN thr' = Exiting(t) /\ UNCHANGED recycle
       ELSE ReapThreads(Exiting(t))
    /\ fresh => InPool(1)
    /\ sem_pool' = IF fresh THEN Taken(1) ELSE sem_pool
    /\ Goes(t, "exit", [Nobody EXCEPT
                 !.sem = IF fresh THEN new_sem_from_pool(1) ELSE NULL])
    /\ Touches({t})
    /\ UNCHANGED <<plist, pcount, finished, spoiled>>

Exit(t) == at[t] = "run" /\ ExitBegin(t) /\ UNCHANGED sema

\* Mutant: no semaphore is left for a joiner that comes later.
LeavesNone(t) == FALSE

LeavesSem(t) == thr[t].joinable /\ thr[t].notify = NULL

\* The part under self->lock, new style.
ExitLocked(t) ==
  /\ at[t] = "exit" /\ NewStyle(t)
  /\ LET use == LeavesSem(t) IN
       /\ thr' = [thr EXCEPT ![t].exited = TRUE,
                             ![t].notify = IF use THEN arg[t].sem ELSE @]
       /\ sem_pool' = IF use \/ arg[t].sem = NULL THEN sem_pool
                      ELSE Restored(arg[t].sem)
  /\ Goes(t, "free", [Nobody EXCEPT !.flag = ~thr[t].joinable])
  /\ Touches({t})
  /\ UNCHANGED <<plist, pcount, recycle, finished, spoiled, sema>>

\* Mutant: the structure goes with the stack although the parent needs it.
ParentIgnored(t) == TRUE

ParentDone(t) == thr[t].parentcheck

CountOut(t) == pcount' = pcount - 1

\* _pthread_free_pthread_onstack(t, freestruct, 1) up to the system call.  A
\* malloc'ed structure is freed here; the others go with the stack, unless
\* the parent still needs them.
ExitFree(t) ==
  /\ at[t] = "free"
  /\ LET freestruct == arg[t].flag IN
       /\ thr' = [thr EXCEPT ![t].childexit = TRUE,
                    ![t].mem = IF freestruct /\ ~FreeStackOnExit(t)
                               THEN "freed" ELSE @]
       /\ plist' = IF freestruct THEN plist \ {t} ELSE plist
       /\ Goes(t, "term", [Nobody EXCEPT
            !.sem = thr[t].notify,
            !.flag = freestruct /\ FreeStackOnExit(t) /\ ParentDone(t)])
  /\ CountOut(t)
  /\ finished' = (pcount' <= 0)
  /\ Touches({t})
  /\ UNCHANGED <<recycle, spoiled, semVars>>

\* __bsdthread_terminate: the kernel frees the memory it was given, ends the
\* thread and signals the semaphore.
Terminate(t) ==
  /\ at[t] = "term" /\ ~finished
  /\ thr' = IF arg[t].flag THEN Freed(t) ELSE thr
  /\ sema' = IF arg[t].sem # NULL THEN Signalled(sema, arg[t].sem) ELSE sema
  /\ Goes(t, "dead", Nobody)
  /\ UNCHANGED <<plist, pcount, recycle, finished, wild, spoiled, sem_pool>>

\* Old style, under self->lock: a joinable thread leaves its value and
\* signals death, a detached one will be reaped from the recycle port.
ExitOld(t) ==
  /\ at[t] = "exit" /\ ~NewStyle(t)
  /\ thr' = [thr EXCEPT ![t].exited = TRUE]
  /\ sema' = IF thr[t].joinable /\ thr[t].notify # NULL
             THEN Signalled(sema, thr[t].notify) ELSE sema
  /\ Goes(t, "oldfree", [Nobody EXCEPT !.flag = ~thr[t].joinable])
  /\ Touches({t})
  /\ UNCHANGED <<plist, pcount, recycle, finished, spoiled, sem_pool>>

ExitOldFree(t) ==
  /\ at[t] = "oldfree"
  /\ plist' = IF arg[t].flag THEN plist \ {t} ELSE plist
  /\ wild' = IF arg[t].flag /\ (t = Main \/ t \notin plist)
             THEN wild \cup {t} ELSE wild
  /\ pcount' = pcount - 1
  /\ recycle' = IF arg[t].flag THEN Append(recycle, t) ELSE recycle
  /\ finished' = (pcount' <= 0)
  /\ Goes(t, "dead", Nobody)
  /\ UNCHANGED <<thr, spoiled, semVars>>

---------------------------------------------------------------------------
(* Join, detach, cancel *)

\* Calls on t that are in progress.
CallPoints == {"join", "wait", "reap", "detach", "signal", "rejoin", "cancel"}
CallsOn(t) == {u \in Thread : at[u] \in CallPoints /\ arg[u].who = t}

\* _pthread_lookup_thread by u: t is on the list, and its kernel thread is
\* known, otherwise _pthread_find_thread waits.  Calls that fail are not
\* steps.  A program knows t when its creation has returned, or is t.
Looks(u, t) ==
  /\ at[u] = "run" /\ t \in plist /\ thr[t].kport
  /\ u = t \/ \A p \in Thread : at[p] = "create" => arg[p].who # t
  /\ spoiled' = (spoiled \/ CallsOn(t) # {})
  /\ Touches({t})

\* pthread_join, before it takes thread->lock.  An old-style join always
\* takes a semaphore, the other one only if there is none yet.
JoinCall(j, t) ==
  LET fresh == ~NewStyle(t) \/ thr[t].notify = NULL IN
    /\ Looks(j, t) /\ thr[t].joinable
    /\ fresh => InPool(1)
    /\ sem_pool' = IF fresh THEN Taken(1) ELSE sem_pool
    /\ Goes(j, "join", [who |-> t, flag |-> FALSE,
                        sem |-> IF fresh THEN new_sem_from_pool(1) ELSE NULL])
    /\ UNCHANGED <<thr, plist, pcount, recycle, finished, sema>>

\* Under thread->lock: the join is refused if the thread is not joinable any
\* more, has a joiner, is the caller or waits for the caller.
CanJoin(j, t) ==
  /\ thr[t].joinable /\ t # j /\ thr[j].joiner # t
  /\ IF NewStyle(t) THEN thr[t].joiner = NULL ELSE thr[t].notify = NULL

JoinRefused(j) ==
  /\ at[j] = "join" /\ ~CanJoin(j, arg[j].who)
  /\ sem_pool' = IF arg[j].sem = NULL THEN sem_pool ELSE Restored(arg[j].sem)
  /\ Goes(j, "run", Nobody)
  /\ Touches({arg[j].who})
  /\ UNCHANGED <<thr, plist, pcount, recycle, finished, spoiled, sema>>

\* The semaphore to wait for.
JoinSem(t, s) == IF thr[t].notify = NULL THEN s ELSE thr[t].notify

\* Otherwise the semaphore is left in notify unless there is one already,
\* and the joiner waits for it.  An old-style thread that has exited is not
\* waited for.
JoinLocked(j) ==
  /\ at[j] = "join" /\ CanJoin(j, arg[j].who)
  /\ LET t == arg[j].who
         spare == thr[t].notify # NULL /\ arg[j].sem # NULL
         s == JoinSem(t, arg[j].sem) IN
       /\ thr' = [thr EXCEPT ![t].notify = s, ![t].joiner = j]
       /\ IF ~NewStyle(t) /\ thr[t].exited
          THEN sema' = sema /\ Goes(j, "reap", [arg[j] EXCEPT !.sem = s])
          ELSE /\ sema' = Waited(sema, s, j)
               /\ Goes(j, "wait", [arg[j] EXCEPT !.sem = s])
       /\ sem_pool' = IF spare THEN Restored(arg[j].sem) ELSE sem_pool
       /\ Touches({t})
  /\ UNCHANGED <<plist, pcount, recycle, finished, spoiled>>

\* The new-style joiner wakes up: it gives the semaphore back and, if the
\* thread is still on the list and joinable, removes it and frees its
\* structure (_pthread_join_cleanup).
JoinReap(j) ==
  /\ at[j] = "wait" /\ ~InQueue(j, arg[j].sem) /\ NewStyle(arg[j].who)
  /\ LET t == arg[j].who  found == t \in plist /\ thr[t].joinable IN
       /\ plist' = IF found THEN plist \ {t} ELSE plist
       /\ thr' = IF found THEN Freed(t) ELSE thr
       /\ Touches(IF t \in plist THEN {t} ELSE {})
  /\ sem_pool' = Restored(arg[j].sem)
  /\ Goes(j, "run", Nobody)
  /\ UNCHANGED <<pcount, recycle, finished, spoiled, sema>>

\* The old-style joiner removes the thread from the list (Main was linked
\* before its structure was cleared, and cannot be removed) ...
JoinUnlink(j) ==
  /\ at[j] \in {"wait", "reap"} /\ ~arg[j].flag /\ ~NewStyle(arg[j].who)
  /\ ~InQueue(j, arg[j].sem)
  /\ plist' = plist \ {arg[j].who}
  /\ wild' = IF arg[j].who = Main \/ arg[j].who \notin plist
             THEN wild \cup {arg[j].who} ELSE wild
  /\ Goes(j, "reap", [arg[j] EXCEPT !.flag = TRUE])
  /\ UNCHANGED <<thr, pcount, recycle, finished, spoiled, semVars>>

\* ... and waits until it is really dead (_pthread_reap_thread).
JoinReapOld(j) ==
  /\ at[j] = "reap" /\ arg[j].flag /\ at[arg[j].who] = "dead"
  /\ thr' = Freed(arg[j].who)
  /\ Touches({arg[j].who})
  /\ sem_pool' = Restored(arg[j].sem)
  /\ Goes(j, "run", Nobody)
  /\ UNCHANGED <<plist, pcount, recycle, finished, spoiled, sema>>

\* What a cancelled joiner gives back to the pool.
GiveBack(t, s) == IF NewStyle(t) THEN <<>> ELSE <<s>>

\* The joiner is cancelled in its wait: __posix_join_cleanup, then exit.
JoinCanceled(j) ==
  /\ at[j] = "wait" /\ InQueue(j, arg[j].sem)
  /\ thr[j].enabled /\ thr[j].pending
  /\ LET t == arg[j].who
         fresh == NewStyle(j) /\ thr[j].notify = NULL /\ thr[j].joinable IN
       /\ thr' = [thr EXCEPT ![t].joiner = NULL, ![j].enabled = FALSE]
       /\ Touches({j, t})
       /\ fresh => InPool(1)
       /\ sema' = Left(sema, arg[j].sem, j)
       /\ sem_pool' = GiveBack(t, arg[j].sem) \o
                        (IF fresh THEN Taken(1) ELSE sem_pool)
       /\ Goes(j, "exit", [Nobody EXCEPT
            !.sem = IF fresh THEN new_sem_from_pool(1) ELSE NULL])
       /\ spoiled' = (spoiled \/ ~NewStyle(t))
  /\ UNCHANGED <<plist, pcount, recycle, finished>>

\* pthread_detach; of a thread that has exited it is a join.
DetachCall(d, t) ==
  /\ Looks(d, t) /\ thr[t].joinable
  /\ Goes(d, "detach", [Nobody EXCEPT !.who = t])
  /\ UNCHANGED <<thr, plist, pcount, recycle, finished, semVars>>

DetachLocked(d) ==
  /\ at[d] = "detach"
  /\ LET t == arg[d].who IN
       /\ Touches({t})
       /\ IF thr[t].joinable /\ ~thr[t].exited
          THEN /\ thr' = [thr EXCEPT ![t].joinable = FALSE]
               /\ Goes(d, "signal", [arg[d] EXCEPT !.sem = thr[t].notify])
          ELSE /\ thr' = thr
               /\ Goes(d, IF thr[t].joinable THEN "rejoin" ELSE "run",
                       IF thr[t].joinable THEN arg[d] ELSE Nobody)
  /\ UNCHANGED <<plist, pcount, recycle, finished, spoiled, semVars>>

\* A joiner that waits is woken up.
DetachSignal(d) ==
  /\ at[d] = "signal"
  /\ sema' = IF arg[d].sem # NULL THEN Signalled(sema, arg[d].sem) ELSE sema
  /\ Goes(d, "run", Nobody)
  /\ UNCHANGED <<thr, plist, pcount, recycle, finished, wild, spoiled, sem_pool>>

\* pthread_join of an exited thread, from pthread_detach.
DetachJoin(d) ==
  /\ at[d] = "rejoin"
  /\ LET t == arg[d].who
         fresh == ~NewStyle(t) \/ thr[t].notify = NULL IN
       /\ spoiled' = (spoiled \/ CallsOn(t) # {d})
       /\ IF t \in plist /\ thr[t].joinable
          THEN /\ fresh => InPool(1)
               /\ sem_pool' = IF fresh THEN Taken(1) ELSE sem_pool
               /\ Goes(d, "join", [arg[d] EXCEPT !.sem =
                         IF fresh THEN new_sem_from_pool(1) ELSE NULL])
               /\ Touches({t})
          ELSE /\ sem_pool' = sem_pool /\ wild' = wild
               /\ Goes(d, "run", Nobody)
  /\ UNCHANGED <<thr, plist, pcount, recycle, finished, sema>>

\* pthread_cancel.  The program cancels only threads it has not detached.
CancelCall(c, t) ==
  /\ Looks(c, t) /\ thr[t].joinable /\ ~thr[t].pending
  /\ Goes(c, "cancel", [Nobody EXCEPT !.who = t])
  /\ UNCHANGED <<thr, plist, pcount, recycle, finished, semVars>>

CancelLocked(c) ==
  /\ at[c] = "cancel"
  /\ thr' = [thr EXCEPT ![arg[c].who].pending = TRUE]
  /\ Touches({arg[c].who})
  /\ Goes(c, "run", Nobody)
  /\ UNCHANGED <<plist, pcount, recycle, finished, spoiled, semVars>>

\* pthread_testcancel that acts.  A thread that has disabled cancellation
\* with pthread_setcancelstate is one that does not get to such a point.
TestCancel(t) ==
  /\ at[t] = "run" /\ thr[t].enabled /\ thr[t].pending
  /\ ExitBegin(t) /\ UNCHANGED sema

---------------------------------------------------------------------------
CreateStep(p) ==
  \/ \E t \in Thread, k \in Kinds, d \in BOOLEAN : CreateCall(p, t, k, d)
  \/ \E t \in Thread, d \in BOOLEAN : CreateSuspended(p, t, d)

\* Steps of a call or a thread that has begun.
Underway(t) ==
  \/ CreateReturn(t) \/ Start(t) \/ Body(t)
  \/ ExitLocked(t) \/ ExitFree(t) \/ Terminate(t) \/ ExitOld(t) \/ ExitOldFree(t)
  \/ JoinRefused(t) \/ JoinLocked(t) \/ JoinReap(t) \/ JoinUnlink(t)
  \/ JoinReapOld(t) \/ JoinCanceled(t)
  \/ DetachLocked(t) \/ DetachSignal(t) \/ DetachJoin(t) \/ CancelLocked(t)

LifeNext ==
  /\ ~finished /\ wild = {} /\ (Careful => ~spoiled)
  /\ \E t \in Thread :
       \/ CreateStep(t) \/ Underway(t)
       \/ Exit(t) \/ TestCancel(t)
       \/ \E u \in Thread : JoinCall(t, u) \/ DetachCall(t, u) \/ CancelCall(t, u)

LifeSpec == LifeInit /\ [][LifeNext]_<<lifeVars, semVars>>

---------------------------------------------------------------------------
(* Properties *)

Alive(t) == at[t] \notin {"none", "dead"}

\* The structure of a thread is not accessed after it has been freed,
\* whatever the order in which parent and child, and the exiting thread and
\* its joiner, take the locks.  Three things are left out: two calls on the
\* same thread at once; a detached thread on a stack of the program, whose
\* structure _pthread_free_pthread_onstack frees without asking for
\* parentcheck; and Main, which cannot be unlinked.
NoWildAccess ==
  ~spoiled =>
    \A t \in wild : t = Main \/ (thr[t].kind = "user" /\ ~thr[t].joinable)

\* A structure is freed only when its thread is gone, or is in the system
\* call that ends it.
FreedWhenDead ==
  ~spoiled =>
    \A t \in Thread : thr[t].mem = "freed" => at[t] \in {"dead", "term"}

\* The structure of a detached thread is freed in the end, by parent or
\* child: when the thread is dead and its creation has returned, it is gone.
DetachedFreed ==
  \A t \in Thread :
    /\ at[t] = "dead" /\ NewStyle(t) /\ ~thr[t].joinable
    /\ \A p \in Thread : at[p] = "create" => arg[p].who # t
    => thr[t].mem = "freed"

\* A thread is freed neither too early nor never, by whichever of the two
\* sides of _pthread_free_pthread_onstack and pthread_create comes last.
ThreadFreed == FreedWhenDead /\ DetachedFreed

\* exit(0) is called by the last thread and by no other: _pthread_count is
\* the number of threads on their way, although a child may be counted by
\* itself or by its parent.
ExitsLast ==
  /\ finished => \A t \in Thread : at[t] \in {"none", "dead", "term"}
  /\ wild = {} /\ (\A t \in Thread : ~Alive(t)) => finished

\* What the end of a thread owes the others: its structure is freed once and
\* in time (pthread.c:401-456), and the process ends with its last thread.
ThreadsEnd == ThreadFreed /\ ExitsLast

\* A semaphore of the pool has no signal and no waiter, unless two calls on
\* one thread met.
JoinPoolClean == ~spoiled => PoolClean

\* A join that has to wait does not miss the end of the thread: no joiner is
\* still asleep on the semaphore when the thread it waits for is dead.
JoinWoken ==
  ~spoiled =>
    \A j \in Thread :
      at[j] = "wait" /\ at[arg[j].who] = "dead" => ~InQueue(j, arg[j].sem)

\* The join semaphore, which joiner and exiting thread agree on through
\* joiner_notify, wakes the joiner and comes back to the pool as good as new.
JoinSound == JoinPoolClean /\ JoinWoken

===========================================================================
