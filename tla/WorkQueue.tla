----------------------------- MODULE WorkQueue -----------------------------
(***************************************************************************)
(* The work queues of core/pthread.c.  An item waits on the item_listhead  *)
(* of its queue until pick_nextworkqueue_droplock posts it to the kernel;  *)
(* the kernel runs it on a thread of its own, and that thread, when the    *)
(* item is done, picks again.  No more than KERNEL_WORKQ_ELEM_MAX items    *)
(* are in the kernel and not started at any time.                          *)
(*                                                                         *)
(* The list lock is dropped around the system call and around a malloc;    *)
(* kernel_workq_count is decremented by starting threads without it.  So   *)
(* the picking loop is a step per iteration.  `wqlock' is the thread that  *)
(* holds the lock across steps.  No function of the library sets the       *)
(* barrier, destroy and suspend flags, and no queue is ever freed: those   *)
(* branches are unreachable and left out.                                  *)
(***************************************************************************)
EXTENDS Integers, Sequences, SequencesExt, FiniteSets

CONSTANTS NONE,
          Adder, Worker,   \* threads of the program, and of the kernel's pool
          Job,             \* what there is to run; each is added once, and its
                           \*   item has its name
          PoolSize,        \* WORKITEM_POOL_SIZE
          Queue, Prio,     \* the queues, and the priority of each
          Prios,           \* WQ_NUM_PRIO_QS
          ElemMax          \* KERNEL_WORKQ_ELEM_MAX

ASSUME WorkQueueAssumption ==
  /\ Prio \in [Queue -> 0..Prios - 1] /\ ElemMax \in Nat \ {0}
  /\ Prios \in Nat /\ PoolSize \in Nat
  /\ NONE \notin Queue \cup Adder \cup Worker

VARIABLES wqhead,          \* the queues of each priority
          next_workq,      \* where picking goes on, for each priority
          wqreadyprio,
          listhead,        \* item_listhead of each queue
          kernhead,        \* item_kernhead, as a set
          kq_count,
          kcounted,        \* items with PTH_WQITEM_KERN_COUNT
          kernel_workq_count,
          itempool,        \* how many there are in __pthread_workitem_pool_head
          kernel,          \* items the kernel has and has not started
          wqlock,          \* who holds the list lock, or NONE
          act,             \* where each thread is, and its locals
          ran              \* history: how often each job has been started

wqVars == <<wqhead, next_workq, wqreadyprio, listhead, kernhead, kq_count,
            kcounted, kernel_workq_count, itempool, kernel,
            wqlock, act, ran>>

Actor == Adder \cup Worker
Resting == [at |-> "rest", i |-> 0, workq |-> NONE, nworkq |-> NONE,
            found |-> FALSE, val |-> FALSE, item |-> NONE]

\* _pthread_work_internal_init, up to the first queue.
WorkInit ==
  /\ wqhead = [p \in 0..Prios - 1 |-> <<>>]
  /\ next_workq = [p \in 0..Prios - 1 |-> NONE]
  /\ wqreadyprio = 0
  /\ listhead = [q \in Queue |-> <<>>] /\ kernhead = [q \in Queue |-> {}]
  /\ kq_count = [q \in Queue |-> 0] /\ kcounted = {}
  /\ kernel_workq_count = 0 /\ kernel = {}
  /\ itempool = PoolSize
  /\ wqlock = NONE
  /\ act = [a \in Actor |-> Resting]
  /\ ran = [j \in Job |-> 0]

Adding(j) == \E a \in Adder : act[a].at = "malloc" /\ act[a].item = j
Added(j) ==
  ran[j] > 0 \/ \E q \in Queue : Contains(listhead[q], j) \/ j \in kernhead[q]

At(a, l) == act[a].at = l
Becomes(a, r) == act' = [act EXCEPT ![a] = r]
To(a, l) == Becomes(a, [act[a] EXCEPT !.at = l])
Holds(a) == wqlock = a

\* pthread_workqueue_create_np
CreateQueue(q) ==
  /\ wqlock = NONE /\ \A p \in 0..Prios - 1 : ~Contains(wqhead[p], q)
  /\ wqhead' = [wqhead EXCEPT ![Prio[q]] = Append(@, q)]
  /\ next_workq' = [next_workq EXCEPT ![Prio[q]] =
                      IF @ = NONE THEN wqhead'[Prio[q]][1] ELSE @]
  /\ UNCHANGED <<wqreadyprio, listhead, kernhead, kq_count, kcounted,
                 kernel_workq_count, itempool, kernel, wqlock,
                 act, ran>>

Exists(q) == Contains(wqhead[Prio[q]], q)

\* The end of pthread_workqueue_additem_np, with the item in hand.
Enqueue(a, q, j) ==
  /\ listhead' = [listhead EXCEPT ![q] = Append(@, j)]
  /\ wqreadyprio' = IF Prio[q] < wqreadyprio THEN Prio[q] ELSE wqreadyprio
  /\ wqlock' = a
  /\ Becomes(a, [Resting EXCEPT !.at = "outer"])

\* pthread_workqueue_additem_np; alloc_workitem takes an item of the pool ...
AddItem(a, q, j) ==
  /\ At(a, "rest") /\ wqlock = NONE /\ Exists(q)
  /\ ~Added(j) /\ ~Adding(j) /\ itempool > 0
  /\ Enqueue(a, q, j)
  /\ itempool' = itempool - 1
  /\ UNCHANGED <<wqhead, next_workq, kernhead, kq_count, kcounted,
                 kernel_workq_count, kernel, ran>>

\* ... or drops the lock to get one from malloc.
AddItemMalloc(a, q, j) ==
  /\ At(a, "rest") /\ wqlock = NONE /\ Exists(q)
  /\ ~Added(j) /\ ~Adding(j) /\ itempool = 0
  /\ Becomes(a, [Resting EXCEPT !.at = "malloc", !.workq = q, !.item = j])
  /\ UNCHANGED <<wqhead, next_workq, wqreadyprio, listhead, kernhead,
                 kq_count, kcounted, kernel_workq_count, itempool, kernel, wqlock, ran>>

AddItemLocked(a) ==
  /\ At(a, "malloc") /\ wqlock = NONE
  /\ Enqueue(a, act[a].workq, act[a].item)
  /\ UNCHANGED <<wqhead, next_workq, kernhead, kq_count, kcounted,
                 kernel_workq_count, itempool, kernel, ran>>

---------------------------------------------------------------------------
(* pick_nextworkqueue_droplock: `outer' is its while loop, `prio' the for   *)
(* loop, `inner' the loop over the queues of one priority.                  *)

\* Mutant: the loop goes on with one item too many in the kernel.
RoomForOneMore == kernel_workq_count <= ElemMax

RoomInKernel == kernel_workq_count < ElemMax

LoopVars == <<wqhead, listhead, kernhead, kq_count, kcounted,
              kernel_workq_count, itempool, kernel, wqlock, ran>>

PickOuter(a) ==
  /\ Holds(a) /\ At(a, "outer")
  /\ Becomes(a, IF RoomInKernel
                THEN [act[a] EXCEPT !.at = "prio", !.i = 0, !.found = FALSE]
                ELSE [act[a] EXCEPT !.at = "unlock"])
  /\ UNCHANGED <<next_workq, wqreadyprio, LoopVars>>

FirstQueue(i) == IF next_workq[i] = NONE THEN wqhead[i][1] ELSE next_workq[i]

PickPrio(a) ==
  /\ Holds(a) /\ At(a, "prio")
  /\ LET i == act[a].i IN
       IF i = Prios
       THEN /\ To(a, IF act[a].found THEN "outer" ELSE "unlock")
            /\ UNCHANGED wqreadyprio
       ELSE /\ wqreadyprio' = i
            /\ Becomes(a, IF wqhead[i] = <<>> THEN [act[a] EXCEPT !.i = i + 1]
                          ELSE [act[a] EXCEPT !.at = "inner",
                                  !.workq = FirstQueue(i),
                                  !.nworkq = FirstQueue(i)])
  /\ UNCHANGED <<next_workq, LoopVars>>

\* The queue after q, round robin.
After(q) ==
  LET s == wqhead[Prio[q]]
      n == CHOOSE k \in DOMAIN s : s[k] = q
  IN s[(n % Len(s)) + 1]

\* An item is counted when it is posted for the first time.
CountPosted(q, x) ==
  kq_count' = IF x \in kcounted THEN kq_count ELSE [kq_count EXCEPT ![q] = @ + 1]

TakeFirst(q) == listhead' = [listhead EXCEPT ![q] = Tail(@)]

\* post_nextworkitem takes the first item of the queue and drops the lock.
PickPost(a) ==
  /\ Holds(a) /\ At(a, "inner") /\ RoomInKernel
  /\ LET q == act[a].workq  x == Head(listhead[q]) IN
       /\ listhead[q] # <<>>
       /\ next_workq' = [next_workq EXCEPT ![act[a].i] = After(q)]
       /\ TakeFirst(q)
       /\ kernhead' = [kernhead EXCEPT ![q] = @ \cup {x}]
       /\ CountPosted(q, x)
       /\ kcounted' = kcounted \cup {x}
       /\ kernel_workq_count' = kernel_workq_count + 1
       /\ wqlock' = NONE
       /\ Becomes(a, [act[a] EXCEPT !.at = "post", !.item = x])
  /\ UNCHANGED <<wqhead, wqreadyprio, itempool, kernel, ran>>

\* The queue has no items.  (The inner loop's own test of the limit never
\* fails: only who holds the list lock adds to the count.)
PickNothing(a) ==
  /\ Holds(a) /\ At(a, "inner") /\ RoomInKernel
  /\ listhead[act[a].workq] = <<>>
  /\ next_workq' = [next_workq EXCEPT ![act[a].i] = After(act[a].workq)]
  /\ Becomes(a, [act[a] EXCEPT !.at = "after", !.val = FALSE])
  /\ UNCHANGED <<wqreadyprio, LoopVars>>

\* __workq_kernreturn(WQOPS_QUEUE_ADD): the kernel takes the item, or not.
PostTaken(a) ==
  /\ At(a, "post")
  /\ kernel' = kernel \cup {act[a].item}
  /\ To(a, "posted")
  /\ UNCHANGED <<wqhead, next_workq, wqreadyprio, listhead, kernhead,
                 kq_count, kcounted, kernel_workq_count, itempool, wqlock, ran>>

PostRefused(a) ==
  /\ At(a, "post")
  /\ kernel_workq_count' = kernel_workq_count - 1
  /\ To(a, "refused")
  /\ UNCHANGED <<wqhead, next_workq, wqreadyprio, listhead, kernhead,
                 kq_count, kcounted, itempool, kernel, wqlock, ran>>

PostRelock(a) ==
  /\ At(a, "posted") /\ wqlock = NONE /\ wqlock' = a
  /\ Becomes(a, [act[a] EXCEPT !.at = "after", !.val = TRUE, !.item = NONE])
  /\ UNCHANGED <<wqhead, next_workq, wqreadyprio, listhead, kernhead,
                 kq_count, kcounted, kernel_workq_count, itempool, kernel, ran>>

PostRequeue(a) ==
  /\ At(a, "refused") /\ wqlock = NONE /\ wqlock' = a
  /\ LET q == act[a].workq  x == act[a].item IN
       /\ kernhead' = [kernhead EXCEPT ![q] = @ \ {x}]
       /\ listhead' = [listhead EXCEPT ![q] = <<x>> \o @]
  /\ Becomes(a, [act[a] EXCEPT !.at = "after", !.val = TRUE, !.item = NONE])
  /\ UNCHANGED <<wqhead, next_workq, wqreadyprio, kq_count, kcounted,
                 kernel_workq_count, itempool, kernel, ran>>

\* Where the inner loop goes after a post: the kernel is full; something of
\* higher priority has come; the queue we started from has come round; or on
\* to the next queue.
AfterPost(r) ==
  LET q == FirstQueue(r.i) IN
    IF r.val /\ ~RoomInKernel THEN [r EXCEPT !.at = "endinner"]
    ELSE IF r.val /\ wqreadyprio < Prio[r.workq] THEN [r EXCEPT !.at = "outer"]
    ELSE IF ~r.val /\ r.workq = next_workq[r.i] THEN [r EXCEPT !.at = "endinner"]
    ELSE [r EXCEPT !.workq = q,
                   !.nworkq = IF r.val THEN q ELSE @,
                   !.found = @ \/ r.val,
                   !.at = IF ~r.val /\ q = r.nworkq THEN "endinner" ELSE "inner"]

PickAfter(a) ==
  /\ Holds(a) /\ At(a, "after")
  /\ Becomes(a, AfterPost(act[a]))
  /\ UNCHANGED <<next_workq, wqreadyprio, LoopVars>>

\* The end of an iteration of the for loop; it is left when the kernel is
\* full.
PickEndPrio(a) ==
  /\ Holds(a) /\ At(a, "endinner")
  /\ Becomes(a, [act[a] EXCEPT !.at = "prio",
                   !.i = IF RoomInKernel THEN @ + 1 ELSE Prios])
  /\ UNCHANGED <<next_workq, wqreadyprio, LoopVars>>

PickUnlock(a) ==
  /\ Holds(a) /\ At(a, "unlock") /\ wqlock' = NONE
  /\ Becomes(a, Resting)
  /\ UNCHANGED <<wqhead, next_workq, wqreadyprio, listhead, kernhead,
                 kq_count, kcounted, kernel_workq_count, itempool, kernel, ran>>

---------------------------------------------------------------------------
(* _pthread_wqthread and workqueue_exit *)

\* The kernel starts an item of the highest priority on a thread.
WqStart(w, x) ==
  /\ At(w, "rest") /\ x \in kernel
  /\ \A y \in kernel : \A p, q \in Queue :
       x \in kernhead[p] /\ y \in kernhead[q] => Prio[p] <= Prio[q]
  /\ kernel' = kernel \ {x}
  /\ kernel_workq_count' = kernel_workq_count - 1
  /\ ran' = [ran EXCEPT ![x] = @ + 1]
  /\ \E q \in Queue : x \in kernhead[q] /\
       Becomes(w, [Resting EXCEPT !.at = "func", !.item = x, !.workq = q])
  /\ UNCHANGED <<wqhead, next_workq, wqreadyprio, listhead, kernhead,
                 kq_count, kcounted, itempool, wqlock>>

\* Mutant: the thread goes back to the kernel without picking.
RestAfterExit(w) == wqlock' = NONE /\ Becomes(w, Resting)

PickAfterExit(w) == wqlock' = w /\ Becomes(w, [Resting EXCEPT !.at = "outer"])

\* Its function has returned: the item goes back to the pool, and the thread
\* picks what is next.
WqExit(w) ==
  /\ At(w, "func") /\ wqlock = NONE
  /\ LET q == act[w].workq  x == act[w].item IN
       /\ kernhead' = [kernhead EXCEPT ![q] = @ \ {x}]
       /\ kq_count' = [kq_count EXCEPT ![q] = @ - 1]
       /\ kcounted' = kcounted \ {x}
  /\ itempool' = itempool + 1
  /\ PickAfterExit(w)
  /\ UNCHANGED <<wqhead, next_workq, wqreadyprio, listhead,
                 kernel_workq_count, kernel, ran>>

---------------------------------------------------------------------------
Picks(a) ==
  \/ PickOuter(a) \/ PickPrio(a) \/ PickPost(a) \/ PickNothing(a)
  \/ PostTaken(a) \/ PostRelock(a) \/ PostRequeue(a)
  \/ PickAfter(a) \/ PickEndPrio(a) \/ PickUnlock(a)

WorkNext ==
  \/ \E q \in Queue : CreateQueue(q)
  \/ \E a \in Adder : \/ AddItemLocked(a)
                      \/ \E q \in Queue, j \in Job :
                           AddItem(a, q, j) \/ AddItemMalloc(a, q, j)
  \/ \E a \in Actor : Picks(a) \/ PostRefused(a)
  \/ \E w \in Worker : WqExit(w) \/ \E x \in Job : WqStart(w, x)

WorkSpec == WorkInit /\ [][WorkNext]_wqVars

\* Every thread goes on, jobs end, the kernel has a thread for an item and
\* does not refuse an item for ever.  Waiting for the list lock is strongly
\* fair: the lock is free again and again.
WorkFairness ==
  /\ \A a \in Actor : /\ WF_wqVars(Picks(a))
                      /\ SF_wqVars(PostTaken(a))
                      /\ SF_wqVars(PostRelock(a) \/ PostRequeue(a))
  /\ \A a \in Adder : SF_wqVars(AddItemLocked(a))
  /\ \A w \in Worker : SF_wqVars(WqExit(w))
  /\ WF_wqVars(\E w \in Worker, x \in Job : WqStart(w, x))

---------------------------------------------------------------------------
(* Properties *)

\* kernel_workq_count is the number of items in the kernel that have not
\* started, those being posted included, although it is changed without the
\* lock; and it does not exceed the limit although the lock is dropped in
\* the middle of the loop.
KernelBound ==
  /\ kernel_workq_count =
       Cardinality(kernel) + Cardinality({a \in Actor : At(a, "post")})
  /\ kernel_workq_count <= ElemMax

\* kq_count of a queue is the number of its items that have ever been posted
\* and are not done, however often the kernel has refused them.
KqCountExact ==
  \A q \in Queue :
    kq_count[q] = Cardinality(kernhead[q]) +
      Cardinality({i \in DOMAIN listhead[q] : listhead[q][i] \in kcounted})

\* The two counters are exact whenever the list lock is free or not: the
\* limit of the kernel and the end of a queue are decided by them.
WorkCounts == KernelBound /\ KqCountExact

\* An item is in one place, and no job runs twice.
RunsOnce ==
  /\ \A j \in Job : ran[j] <= 1
  /\ \A x \in Job :
       Cardinality({q \in Queue : x \in kernhead[q]})
       + Cardinality({q \in Queue : Contains(listhead[q], x)}) <= 1

\* The counters are exact and items are neither lost nor run twice, wherever
\* pthread_workqueue_additem_np, post_nextworkitem and the exit of a worker
\* drop and take the list lock.
WorkSound == WorkCounts /\ RunsOnce

\* Every job that has been added is run.
EveryJobRuns == \A j \in Job : Added(j) ~> ran[j] > 0
===========================================================================
