-------------------------- MODULE WorkQueue_proofs --------------------------
(***************************************************************************)
(* Proofs about the work queues, for any number of threads, jobs, queues   *)
(* and priorities: their counters are exact wherever the list lock is      *)
(* dropped, and no item is lost or run twice.                              *)
(***************************************************************************)
EXTENDS WorkQueue, FunctionTheorems, FiniteSetTheorems, TLAPS

WqPlaces == {"rest", "malloc", "outer", "prio", "inner", "post", "posted",
             "refused", "after", "endinner", "unlock", "func"}

WqThread == [at : WqPlaces, i : Nat, workq : Queue \cup {NONE},
             nworkq : Queue \cup {NONE}, found : BOOLEAN, val : BOOLEAN,
             item : Job \cup {NONE}]

WqTypeOK ==
  /\ wqhead \in [0..Prios - 1 -> Seq(Queue)]
  /\ next_workq \in [0..Prios - 1 -> Queue \cup {NONE}]
  /\ wqreadyprio \in Int
  /\ listhead \in [Queue -> Seq(Job)] /\ kernhead \in [Queue -> SUBSET Job]
  /\ kq_count \in [Queue -> Int] /\ kcounted \in SUBSET Job
  /\ kernel_workq_count \in Int /\ itempool \in Int /\ kernel \in SUBSET Job
  /\ wqlock \in Actor \cup {NONE}
  /\ act \in [Actor -> WqThread]
  /\ ran \in [Job -> Nat]

\* The elements of a sequence.
Elems(s) == {s[k] : k \in DOMAIN s}

Distinct(s) == \A k, l \in DOMAIN s : s[k] = s[l] => k = l

\* The queues of each priority are what they are said to be, and a thread that
\* picks is at one of them.
QueuesInv ==
  /\ \A p \in 0..Prios - 1 :
       /\ \A q \in Elems(wqhead[p]) : Prio[q] = p
       /\ next_workq[p] # NONE => next_workq[p] \in Elems(wqhead[p])
  /\ \A a \in Actor :
       /\ act[a].at = "prio" => act[a].i \in 0..Prios
       /\ act[a].at \in {"inner", "post", "posted", "refused", "after", "endinner"} =>
            act[a].i \in 0..Prios - 1 /\ act[a].workq \in Elems(wqhead[act[a].i])

\* The items that wait on a queue.
OnList(q) == Elems(listhead[q])

\* A thread that has an item in its hands: it posts it, or runs it.
InHand(a) == act[a].at \in {"post", "refused", "func"}

\* An item is in one place only: on one queue, or in the kernel.
PlaceInv ==
  /\ \A q \in Queue : /\ Distinct(listhead[q])
                      /\ OnList(q) \cap kernhead[q] = {}
                      /\ kernhead[q] \subseteq kcounted
  /\ \A p, q \in Queue : p # q =>
       (OnList(p) \cup kernhead[p]) \cap (OnList(q) \cup kernhead[q]) = {}
  /\ \A x \in kcounted \cup kernel : \E q \in Queue : x \in OnList(q) \cup kernhead[q]
  /\ \A x \in kernel, q \in Queue : x \notin OnList(q)

\* No item has been started twice, and none that still waits has been started.
RanInv ==
  /\ \A x \in Job : ran[x] <= 1
  /\ \A q \in Queue : \A x \in OnList(q) : ran[x] = 0
  /\ \A x \in kernel : ran[x] = 0

\* An item in a thread's hands has been taken off its queue, is not with the
\* kernel, and no other thread has it; one to be added is nowhere yet.
HandInv ==
  \A a \in Actor :
    /\ InHand(a) =>
         /\ act[a].workq \in Queue /\ act[a].item \in kernhead[act[a].workq]
         /\ act[a].item \notin kernel
         /\ \A b \in Actor : InHand(b) /\ b # a => act[b].item # act[a].item
    /\ act[a].at \in {"post", "refused"} => ran[act[a].item] = 0
    /\ act[a].at = "malloc" =>
         /\ a \in Adder /\ act[a].workq \in Queue /\ act[a].item \in Job
         /\ ran[act[a].item] = 0
         /\ \A q \in Queue : act[a].item \notin OnList(q) \cup kernhead[q]
         /\ \A b \in Actor : act[b].at = "malloc" /\ b # a => act[b].item # act[a].item

Posting == {a \in Actor : At(a, "post")}

KernelCount ==
  /\ IsFiniteSet(kernel) /\ IsFiniteSet(Posting)
  /\ kernel_workq_count = Cardinality(kernel) + Cardinality(Posting)
  /\ kernel_workq_count <= ElemMax

QueueCount ==
  \A q \in Queue :
    /\ IsFiniteSet(kernhead[q])
    /\ kq_count[q] = Cardinality(kernhead[q]) + Cardinality(OnList(q) \cap kcounted)

WorkInv ==
  /\ WqTypeOK /\ QueuesInv /\ PlaceInv /\ RanInv /\ HandInv
  /\ KernelCount /\ QueueCount
---------------------------------------------------------------------------
(* Sequences without duplicates, as the sets of their elements *)

LEMMA ElemsContained ==
  ASSUME NEW S, NEW s \in Seq(S), NEW x PROVE Contains(s, x) <=> x \in Elems(s)
BY DEF Contains, Elems

\* An element more at the end, ...
LEMMA ElemsAppend ==
  ASSUME NEW S, NEW s \in Seq(S), NEW x \in S
  PROVE  /\ Append(s, x) \in Seq(S) /\ Append(s, x) # <<>>
         /\ Elems(Append(s, x)) = Elems(s) \cup {x}
         /\ Distinct(s) /\ x \notin Elems(s) => Distinct(Append(s, x))
<1> DEFINE u == Append(s, x)
<1>1. u \in Seq(S) /\ Len(u) = Len(s) + 1 /\ Len(s) \in Nat
  OBVIOUS
<1>2. \A k \in 1..Len(s) : u[k] = s[k]
  OBVIOUS
<1>3. u[Len(s) + 1] = x
  OBVIOUS
<1>4. DOMAIN u = DOMAIN s \cup {Len(s) + 1} /\ DOMAIN s = 1..Len(s)
  BY <1>1
<1> HIDE DEF u
<1>5. Elems(u) = Elems(s) \cup {x}
  BY <1>2, <1>3, <1>4 DEF Elems
<1>6. Distinct(s) /\ x \notin Elems(s) => Distinct(u)
  BY <1>1, <1>2, <1>3, <1>4 DEF Elems, Distinct
<1>7. u # <<>>
  BY <1>3, <1>4, <1>1
<1> QED
  BY <1>1, <1>5, <1>6, <1>7 DEF u

\* ... one less at the beginning, ...
LEMMA ElemsTail ==
  ASSUME NEW S, NEW s \in Seq(S), s # <<>>, Distinct(s)
  PROVE  /\ Head(s) \in Elems(s) /\ Head(s) \in S /\ Tail(s) \in Seq(S)
         /\ Elems(Tail(s)) = Elems(s) \ {Head(s)} /\ Distinct(Tail(s))
<1> DEFINE u == Tail(s)
<1>1. u \in Seq(S) /\ Len(u) = Len(s) - 1 /\ Len(s) \in Nat /\ Len(s) > 0
  OBVIOUS
<1>2. \A k \in 1..Len(s) - 1 : u[k] = s[k + 1]
  OBVIOUS
<1>3. Head(s) = s[1] /\ s[1] \in S
  BY <1>1
<1>4. DOMAIN u = 1..Len(s) - 1 /\ DOMAIN s = 1..Len(s)
  BY <1>1
<1> HIDE DEF u
<1>5. Elems(u) \subseteq Elems(s) \ {s[1]}
  <2> SUFFICES ASSUME NEW k \in 1..Len(s) - 1 PROVE u[k] \in Elems(s) /\ u[k] # s[1]
    BY <1>4 DEF Elems
  <2>1. k + 1 \in 1..Len(s) /\ 1 \in 1..Len(s) /\ k + 1 # 1
    BY <1>1
  <2> QED
    BY <1>2, <1>4, <2>1 DEF Elems, Distinct
<1>6. Elems(s) \ {s[1]} \subseteq Elems(u)
  <2> SUFFICES ASSUME NEW k \in 1..Len(s), s[k] # s[1] PROVE s[k] \in Elems(u)
    BY <1>4 DEF Elems
  <2>1. k - 1 \in 1..Len(s) - 1 /\ (k - 1) + 1 = k
    BY <1>1
  <2> QED
    BY <1>2, <1>4, <2>1 DEF Elems
<1>7. Distinct(u)
  <2> SUFFICES ASSUME NEW k \in 1..Len(s) - 1, NEW l \in 1..Len(s) - 1, u[k] = u[l] PROVE k = l
    BY <1>4 DEF Distinct
  <2>1. k + 1 \in DOMAIN s /\ l + 1 \in DOMAIN s /\ s[k + 1] = s[l + 1]
    BY <1>1, <1>2, <1>4
  <2>2. k + 1 = l + 1
    BY <2>1 DEF Distinct
  <2> QED
    BY <2>2
<1>8. s[1] \in Elems(s)
  BY <1>1, <1>4 DEF Elems
<1> QED
  BY <1>1, <1>3, <1>5, <1>6, <1>7, <1>8 DEF u

\* ... and one more there.
LEMMA ElemsPrepend ==
  ASSUME NEW S, NEW s \in Seq(S), NEW x \in S, Distinct(s), x \notin Elems(s)
  PROVE  /\ <<x>> \o s \in Seq(S) /\ Elems(<<x>> \o s) = Elems(s) \cup {x}
         /\ Distinct(<<x>> \o s)
<1> DEFINE u == <<x>> \o s
<1>1. u \in Seq(S) /\ Len(u) = Len(s) + 1 /\ Len(s) \in Nat
  OBVIOUS
<1>2. u[1] = x /\ \A k \in 2..Len(s) + 1 : u[k] = s[k - 1]
  OBVIOUS
<1>3. DOMAIN u = 1..Len(s) + 1 /\ DOMAIN s = 1..Len(s)
  BY <1>1
<1> HIDE DEF u
<1>4. Elems(u) \subseteq Elems(s) \cup {x}
  <2> SUFFICES ASSUME NEW k \in 1..Len(s) + 1 PROVE u[k] \in Elems(s) \cup {x}
    BY <1>3 DEF Elems
  <2>1. k = 1 \/ (k \in 2..Len(s) + 1 /\ k - 1 \in 1..Len(s))
    BY <1>1
  <2> QED
    BY <1>2, <1>3, <2>1 DEF Elems
<1>5. Elems(s) \subseteq Elems(u)
  <2> SUFFICES ASSUME NEW k \in 1..Len(s) PROVE s[k] \in Elems(u)
    BY <1>3 DEF Elems
  <2>1. k + 1 \in 2..Len(s) + 1 /\ (k + 1) - 1 = k /\ k + 1 \in 1..Len(s) + 1
    BY <1>1
  <2> QED
    BY <1>2, <1>3, <2>1 DEF Elems
<1>6. x \in Elems(u)
  BY <1>1, <1>2, <1>3 DEF Elems
<1>7. Distinct(u)
  <2> SUFFICES ASSUME NEW k \in 1..Len(s) + 1, NEW l \in 1..Len(s) + 1, u[k] = u[l] PROVE k = l
    BY <1>3 DEF Distinct
  <2>1. ASSUME NEW m \in 1..Len(s) + 1, m # 1
        PROVE  m \in 2..Len(s) + 1 /\ m - 1 \in 1..Len(s) /\ u[m] = s[m - 1] /\ u[m] # x
    <3>1. m \in 2..Len(s) + 1 /\ m - 1 \in 1..Len(s)
      BY <1>1, <2>1
    <3> QED
      BY <1>2, <1>3, <3>1 DEF Elems
  <2>2. CASE k # 1 /\ l # 1
    <3>1. s[k - 1] = s[l - 1] /\ k - 1 \in DOMAIN s /\ l - 1 \in DOMAIN s
      BY <1>3, <2>1, <2>2
    <3>2. k - 1 = l - 1
      BY <3>1 DEF Distinct
    <3> QED
      BY <3>2
  <2> QED
    BY <1>2, <2>1, <2>2
<1> QED
  BY <1>1, <1>4, <1>5, <1>6, <1>7 DEF u

\* The elements can be counted by their places.
LEMMA ElemsCount ==
  ASSUME NEW S, NEW s \in Seq(S), Distinct(s), NEW K
  PROVE  /\ IsFiniteSet(Elems(s))
         /\ Cardinality({k \in DOMAIN s : s[k] \in K}) = Cardinality(Elems(s) \cap K)
<1> DEFINE D == {k \in DOMAIN s : s[k] \in K}
           f == [k \in D |-> s[k]]
           g == [k \in DOMAIN s |-> s[k]]
<1>1. DOMAIN s = 1..Len(s) /\ Len(s) \in Nat
  OBVIOUS
<1>2. IsFiniteSet(DOMAIN s)
  BY <1>1, FS_Interval
<1>3. IsFiniteSet(D)
  BY <1>2, FS_Subset
<1>4. g \in Surjection(DOMAIN s, Elems(s))
  BY DEF Surjection, Elems
<1>5. IsFiniteSet(Elems(s))
  BY <1>2, <1>4, FS_Surjection
<1>6. f \in Surjection(D, Elems(s) \cap K)
  <2>1. f \in [D -> Elems(s) \cap K]
    BY DEF Elems
  <2>2. \A x \in Elems(s) \cap K : \E k \in D : f[k] = x
    BY DEF Elems
  <2> QED
    BY <2>1, <2>2 DEF Surjection
<1>7. f \in Injection(D, Elems(s) \cap K)
  <2>1. f \in [D -> Elems(s) \cap K]
    BY DEF Elems
  <2>2. \A k, l \in D : f[k] = f[l] => k = l
    BY DEF Distinct
  <2> QED
    BY <2>1, <2>2 DEF Injection, IsInjective
<1> HIDE DEF D, f
<1>8. Cardinality(Elems(s) \cap K) = Cardinality(D)
  BY <1>3, <1>6, <1>7, FS_Surjection
<1> QED
  BY <1>5, <1>8 DEF D
---------------------------------------------------------------------------
(* What a step makes of a thread's locals *)

Locals(l, i, w, n, f, v, x) ==
  [at |-> l, i |-> i, workq |-> w, nworkq |-> n, found |-> f, val |-> v, item |-> x]

LEMMA RestingType ==
  Resting \in WqThread /\ Resting.at = "rest"
BY DEF Resting, WqThread, WqPlaces

LEMMA Acts ==
  ASSUME act \in [Actor -> WqThread], NEW a \in Actor, NEW r \in WqThread, Becomes(a, r)
  PROVE  /\ act' \in [Actor -> WqThread] /\ act'[a] = r
         /\ \A b \in Actor : b # a => act'[b] = act[b]
BY DEF Becomes
---------------------------------------------------------------------------
(* Steps that leave the items where they are *)

ItemVars == <<listhead, kernhead, kq_count, kcounted, kernel_workq_count, kernel, ran>>

LEMMA SameItems ==
  ASSUME PlaceInv, RanInv, QueueCount, UNCHANGED ItemVars
  PROVE  PlaceInv' /\ RanInv' /\ QueueCount'
BY DEF PlaceInv, RanInv, QueueCount, ItemVars, OnList

\* ... nor does the thread that moves have or take one.
LEMMA QuietStep ==
  ASSUME WorkInv, UNCHANGED ItemVars, NEW a \in Actor, NEW r \in WqThread,
         Becomes(a, r), act[a].at \notin {"post", "refused", "func", "malloc"},
         r.at \notin {"post", "refused", "func", "malloc"}
  PROVE  PlaceInv' /\ RanInv' /\ HandInv' /\ KernelCount' /\ QueueCount'
<1>1. /\ act' \in [Actor -> WqThread] /\ act'[a] = r
      /\ \A b \in Actor : b # a => act'[b] = act[b]
  BY Acts DEF WorkInv, WqTypeOK
<1>2. HandInv'
  BY <1>1 DEF HandInv, WorkInv, InHand, OnList, ItemVars
<1>3. Posting' = Posting
  BY <1>1 DEF Posting, At
<1>4. KernelCount'
  BY <1>3 DEF KernelCount, ItemVars, WorkInv
<1> QED
  BY <1>2, <1>4, SameItems DEF WorkInv
---------------------------------------------------------------------------
(* The queues that picking goes round *)

Rounds == {"inner", "post", "posted", "refused", "after", "endinner"}

LEMMA RoundRobin ==
  ASSUME NEW n \in Nat, NEW l \in Nat, l > 0 PROVE (n % l) + 1 \in 1..l
<1> DEFINE m == n % l
<1>1. m \in 0..l - 1
  OBVIOUS
<1> HIDE DEF m
<1>2. m + 1 \in 1..l
  BY <1>1
<1> QED
  BY <1>2 DEF m

LEMMA AfterIsThere ==
  ASSUME WqTypeOK, QueuesInv, NEW i \in 0..Prios - 1, NEW q \in Elems(wqhead[i])
  PROVE  q \in Queue /\ Prio[q] = i /\ After(q) \in Elems(wqhead[i]) /\ After(q) \in Queue
<1> DEFINE s == wqhead[i]
           n == CHOOSE k \in DOMAIN s : s[k] = q
<1>1. s \in Seq(Queue) /\ Prio[q] = i
  BY DEF WqTypeOK, QueuesInv
<1>2. \A k \in DOMAIN s : s[k] \in Queue /\ s[k] \in Elems(s)
  BY <1>1 DEF Elems
<1>3. n \in DOMAIN s
  BY DEF Elems
<1>4. DOMAIN s = 1..Len(s) /\ Len(s) \in Nat
  BY <1>1
<1>5. n \in 1..Len(s) /\ Len(s) > 0
  BY <1>3, <1>4
<1>6. n \in Nat
  <2> HIDE DEF n
  <2> QED
    BY <1>5
<1>7. (n % Len(s)) + 1 \in DOMAIN s
  BY <1>4, <1>5, <1>6, RoundRobin
<1>8. After(q) = s[(n % Len(s)) + 1]
  BY <1>1 DEF After
<1>9. q \in Queue
  BY <1>2 DEF Elems
<1> HIDE DEF n
<1> QED
  BY <1>1, <1>2, <1>7, <1>8, <1>9

LEMMA FirstIsThere ==
  ASSUME WqTypeOK, QueuesInv, NEW i \in 0..Prios - 1, wqhead[i] # <<>>
  PROVE  FirstQueue(i) \in Elems(wqhead[i]) /\ FirstQueue(i) \in Queue
<1>1. wqhead[i] \in Seq(Queue) /\ next_workq[i] \in Queue \cup {NONE}
  BY DEF WqTypeOK
<1>2. 1 \in DOMAIN wqhead[i] /\ wqhead[i][1] \in Queue
  BY <1>1
<1> QED
  BY <1>1, <1>2 DEF FirstQueue, QueuesInv, Elems

\* A thread's step keeps it on the round it is on.
LEMMA RoundStep ==
  ASSUME WqTypeOK, QueuesInv, NEW a \in Actor, NEW r \in WqThread, Becomes(a, r),
         UNCHANGED wqhead, next_workq' \in [0..Prios - 1 -> Queue \cup {NONE}],
         \A p \in 0..Prios - 1 :
           next_workq'[p] # next_workq[p] => next_workq'[p] \in Elems(wqhead[p]),
         r.at = "prio" => r.i \in 0..Prios,
         r.at \in Rounds => r.i \in 0..Prios - 1 /\ r.workq \in Elems(wqhead[r.i])
  PROVE  QueuesInv'
<1>1. /\ act' \in [Actor -> WqThread] /\ act'[a] = r
      /\ \A b \in Actor : b # a => act'[b] = act[b]
  BY Acts DEF WqTypeOK
<1>2. ASSUME NEW p \in 0..Prios - 1
      PROVE  /\ \A q \in Elems(wqhead'[p]) : Prio[q] = p
             /\ next_workq'[p] # NONE => next_workq'[p] \in Elems(wqhead'[p])
  BY <1>2 DEF QueuesInv
<1>3. ASSUME NEW b \in Actor
      PROVE  /\ act'[b].at = "prio" => act'[b].i \in 0..Prios
             /\ act'[b].at \in Rounds =>
                  act'[b].i \in 0..Prios - 1 /\ act'[b].workq \in Elems(wqhead'[act'[b].i])
  <2>1. CASE b = a
    BY <1>1, <2>1
  <2>2. CASE b # a
    BY <1>1, <2>2 DEF QueuesInv, Rounds
  <2> QED
    BY <2>1, <2>2
<1> QED
  BY <1>2, <1>3 DEF QueuesInv, Rounds
---------------------------------------------------------------------------
(* The steps of the picking loop that move no item *)

InHands == {"post", "refused", "func", "malloc"}

LEMMA LoopStep ==
  ASSUME WorkInv, UNCHANGED ItemVars, UNCHANGED wqhead,
         NEW a \in Actor, NEW r \in WqThread, Becomes(a, r),
         act[a].at \notin InHands, r.at \notin InHands,
         next_workq' \in [0..Prios - 1 -> Queue \cup {NONE}],
         \A p \in 0..Prios - 1 :
           next_workq'[p] # next_workq[p] => next_workq'[p] \in Elems(wqhead[p]),
         wqreadyprio' \in Int, itempool' \in Int, wqlock' \in Actor \cup {NONE},
         r.at = "prio" => r.i \in 0..Prios,
         r.at \in Rounds => r.i \in 0..Prios - 1 /\ r.workq \in Elems(wqhead[r.i])
  PROVE  WorkInv'
<1>1. WqTypeOK'
  <2>1. act' \in [Actor -> WqThread]
    BY Acts DEF WorkInv, WqTypeOK
  <2> QED
    BY <2>1 DEF WorkInv, WqTypeOK, ItemVars
<1>2. QueuesInv'
  BY RoundStep DEF WorkInv
<1>3. PlaceInv' /\ RanInv' /\ HandInv' /\ KernelCount' /\ QueueCount'
  BY QuietStep DEF InHands
<1> QED
  BY <1>1, <1>2, <1>3 DEF WorkInv

LEMMA ActorState ==
  ASSUME WorkInv, NEW a \in Actor
  PROVE  /\ act[a] \in WqThread
         /\ act[a].at = "prio" => act[a].i \in 0..Prios
         /\ act[a].at \in Rounds =>
              act[a].i \in 0..Prios - 1 /\ act[a].workq \in Elems(wqhead[act[a].i])
BY DEF WorkInv, WqTypeOK, QueuesInv, Rounds

LEMMA PickOuterInv ==
  ASSUME WorkInv, NEW a \in Actor, PickOuter(a) PROVE WorkInv'
<1>1. act[a] \in WqThread /\ act[a].at = "outer"
  BY ActorState DEF PickOuter, At
<1>2. PICK r : /\ Becomes(a, r)
               /\ \/ r = [act[a] EXCEPT !.at = "unlock"]
                  \/ r = [act[a] EXCEPT !.at = "prio", !.i = 0, !.found = FALSE]
  BY DEF PickOuter
<1>3. r \in WqThread /\ (r.at = "unlock" \/ (r.at = "prio" /\ r.i = 0))
  <2>1. "unlock" \in WqPlaces /\ "prio" \in WqPlaces /\ 0 \in Nat /\ FALSE \in BOOLEAN
    BY DEF WqPlaces
  <2>2. CASE r = [act[a] EXCEPT !.at = "unlock"]
    <3> DEFINE q == act[a]
    <3>1. r = Locals("unlock", q.i, q.workq, q.nworkq, q.found, q.val, q.item)
      BY <1>1, <2>2 DEF WqThread, Locals
    <3> QED
      BY <1>1, <2>1, <3>1 DEF Locals, WqThread
  <2>3. CASE r = [act[a] EXCEPT !.at = "prio", !.i = 0, !.found = FALSE]
    <3> DEFINE q == act[a]
    <3>1. r = Locals("prio", 0, q.workq, q.nworkq, FALSE, q.val, q.item)
      BY <1>1, <2>3 DEF WqThread, Locals
    <3> QED
      BY <1>1, <2>1, <3>1 DEF Locals, WqThread
  <2> QED
    BY <1>2, <2>2, <2>3
<1>4. 0 \in 0..Prios
  BY WorkQueueAssumption
<1>5. /\ UNCHANGED ItemVars /\ UNCHANGED <<wqhead, next_workq, wqreadyprio, itempool, wqlock>>
      /\ next_workq \in [0..Prios - 1 -> Queue \cup {NONE}]
      /\ wqreadyprio \in Int /\ itempool \in Int /\ wqlock \in Actor \cup {NONE}
  BY DEF PickOuter, ItemVars, LoopVars, WorkInv, WqTypeOK
<1> QED
  BY <1>1, <1>2, <1>3, <1>4, <1>5, LoopStep DEF InHands, Rounds

LEMMA PickPrioInv ==
  ASSUME WorkInv, NEW a \in Actor, PickPrio(a) PROVE WorkInv'
<1> DEFINE q == act[a]
<1>1. q \in WqThread /\ q.at = "prio" /\ q.i \in 0..Prios
  BY ActorState DEF PickPrio, At
<1>2. /\ UNCHANGED ItemVars /\ UNCHANGED <<wqhead, next_workq, itempool, wqlock>>
      /\ next_workq \in [0..Prios - 1 -> Queue \cup {NONE}]
      /\ wqreadyprio \in Int /\ itempool \in Int /\ wqlock \in Actor \cup {NONE}
  BY DEF PickPrio, ItemVars, LoopVars, WorkInv, WqTypeOK
<1>3. wqreadyprio' \in Int
  BY <1>1, <1>2, WorkQueueAssumption DEF PickPrio
<1>4. CASE q.i = Prios
  <2>1. PICK l \in {"outer", "unlock"} : Becomes(a, [q EXCEPT !.at = l])
    BY <1>4 DEF PickPrio, To
  <2> DEFINE r == [q EXCEPT !.at = l]
  <2>2. r = Locals(l, q.i, q.workq, q.nworkq, q.found, q.val, q.item)
    BY <1>1 DEF WqThread, Locals
  <2>3. l \in WqPlaces
    BY DEF WqPlaces
  <2>4. r \in WqThread /\ r.at = l
    BY <1>1, <2>2, <2>3 DEF Locals, WqThread
  <2> HIDE DEF r
  <2> QED
    BY <1>1, <1>2, <1>3, <2>1, <2>4, LoopStep DEF InHands, Rounds, r
<1>5. CASE q.i # Prios /\ wqhead[q.i] = <<>>
  <2> DEFINE r == [q EXCEPT !.i = q.i + 1]
  <2>1. Becomes(a, r)
    BY <1>5 DEF PickPrio
  <2>2. r = Locals(q.at, q.i + 1, q.workq, q.nworkq, q.found, q.val, q.item)
    BY <1>1 DEF WqThread, Locals
  <2>3. r \in WqThread /\ r.at = "prio" /\ r.i = q.i + 1
    BY <1>1, <2>2 DEF Locals, WqThread
  <2>4. q.i + 1 \in 0..Prios
    BY <1>1, <1>5, WorkQueueAssumption
  <2> HIDE DEF r
  <2> QED
    BY <1>1, <1>2, <1>3, <2>1, <2>3, <2>4, LoopStep DEF InHands, Rounds
<1>6. CASE q.i # Prios /\ wqhead[q.i] # <<>>
  <2> DEFINE w == FirstQueue(q.i)
  <2>1. PICK r : Becomes(a, r) /\ r = [q EXCEPT !.at = "inner", !.workq = w, !.nworkq = w]
    BY <1>6 DEF PickPrio
  <2>2. q.i \in 0..Prios - 1
    BY <1>1, <1>6, WorkQueueAssumption
  <2>3. w \in Elems(wqhead[q.i]) /\ w \in Queue
    BY <1>6, <2>2, FirstIsThere DEF WorkInv
  <2> HIDE DEF w
  <2>4. r = Locals("inner", q.i, w, w, q.found, q.val, q.item)
    BY <1>1, <2>1 DEF WqThread, Locals
  <2>5. "inner" \in WqPlaces
    BY DEF WqPlaces
  <2>6. r \in WqThread /\ r.at = "inner" /\ r.i = q.i /\ r.workq = w
    BY <1>1, <2>3, <2>4, <2>5 DEF Locals, WqThread
  <2> QED
    BY <1>1, <1>2, <1>3, <2>1, <2>2, <2>3, <2>6, LoopStep DEF InHands
<1> QED
  BY <1>4, <1>5, <1>6

LEMMA PickNothingInv ==
  ASSUME WorkInv, NEW a \in Actor, PickNothing(a) PROVE WorkInv'
<1> DEFINE q == act[a]
<1>1. /\ q \in WqThread /\ q.at = "inner" /\ q.i \in 0..Prios - 1
      /\ q.workq \in Elems(wqhead[q.i])
  BY ActorState DEF PickNothing, At, Rounds
<1>2. /\ UNCHANGED ItemVars /\ UNCHANGED <<wqhead, wqreadyprio, itempool, wqlock>>
      /\ next_workq \in [0..Prios - 1 -> Queue \cup {NONE}]
      /\ wqreadyprio \in Int /\ itempool \in Int /\ wqlock \in Actor \cup {NONE}
  BY DEF PickNothing, ItemVars, LoopVars, WorkInv, WqTypeOK
<1>3. After(q.workq) \in Elems(wqhead[q.i]) /\ After(q.workq) \in Queue
  BY <1>1, AfterIsThere DEF WorkInv
<1>4. next_workq' = [next_workq EXCEPT ![q.i] = After(q.workq)]
  BY DEF PickNothing
<1>5. /\ next_workq' \in [0..Prios - 1 -> Queue \cup {NONE}]
      /\ \A p \in 0..Prios - 1 :
           next_workq'[p] # next_workq[p] => next_workq'[p] \in Elems(wqhead[p])
  BY <1>1, <1>2, <1>3, <1>4
<1>6. PICK r : Becomes(a, r) /\ r = [q EXCEPT !.at = "after", !.val = FALSE]
  BY DEF PickNothing
<1>7. r = Locals("after", q.i, q.workq, q.nworkq, q.found, FALSE, q.item)
  BY <1>1, <1>6 DEF WqThread, Locals
<1>8. "after" \in WqPlaces
  BY DEF WqPlaces
<1>9. r \in WqThread /\ r.at = "after" /\ r.i = q.i /\ r.workq = q.workq
  BY <1>1, <1>7, <1>8 DEF Locals, WqThread
<1> QED
  BY <1>1, <1>2, <1>5, <1>6, <1>9, LoopStep DEF InHands

LEMMA PostRelockInv ==
  ASSUME WorkInv, NEW a \in Actor, PostRelock(a) PROVE WorkInv'
<1> DEFINE q == act[a]
<1>1. /\ q \in WqThread /\ q.at = "posted" /\ q.i \in 0..Prios - 1
      /\ q.workq \in Elems(wqhead[q.i])
  BY ActorState DEF PostRelock, At, Rounds
<1>2. /\ UNCHANGED ItemVars /\ UNCHANGED <<wqhead, next_workq, wqreadyprio, itempool>>
      /\ next_workq \in [0..Prios - 1 -> Queue \cup {NONE}]
      /\ wqreadyprio \in Int /\ itempool \in Int /\ wqlock' \in Actor \cup {NONE}
  BY DEF PostRelock, ItemVars, WorkInv, WqTypeOK
<1>3. PICK r : Becomes(a, r) /\ r = [q EXCEPT !.at = "after", !.val = TRUE, !.item = NONE]
  BY DEF PostRelock
<1>4. r = Locals("after", q.i, q.workq, q.nworkq, q.found, TRUE, NONE)
  BY <1>1, <1>3 DEF WqThread, Locals
<1>5. "after" \in WqPlaces
  BY DEF WqPlaces
<1>6. r \in WqThread /\ r.at = "after" /\ r.i = q.i /\ r.workq = q.workq
  BY <1>1, <1>4, <1>5 DEF Locals, WqThread
<1> QED
  BY <1>1, <1>2, <1>3, <1>6, LoopStep DEF InHands

LEMMA PickEndPrioInv ==
  ASSUME WorkInv, NEW a \in Actor, PickEndPrio(a) PROVE WorkInv'
<1> DEFINE q == act[a]
<1>1. q \in WqThread /\ q.at = "endinner" /\ q.i \in 0..Prios - 1
  BY ActorState DEF PickEndPrio, At, Rounds
<1>2. /\ UNCHANGED ItemVars /\ UNCHANGED <<wqhead, next_workq, wqreadyprio, itempool, wqlock>>
      /\ next_workq \in [0..Prios - 1 -> Queue \cup {NONE}]
      /\ wqreadyprio \in Int /\ itempool \in Int /\ wqlock \in Actor \cup {NONE}
  BY DEF PickEndPrio, ItemVars, LoopVars, WorkInv, WqTypeOK
<1>3. PICK i, r : /\ i \in {q.i + 1, Prios} /\ Becomes(a, r)
                  /\ r = [q EXCEPT !.at = "prio", !.i = i]
  BY DEF PickEndPrio
<1>4. i \in 0..Prios /\ i \in Nat
  BY <1>1, <1>3, WorkQueueAssumption
<1>5. r = Locals("prio", i, q.workq, q.nworkq, q.found, q.val, q.item)
  BY <1>1, <1>3 DEF WqThread, Locals
<1>6. "prio" \in WqPlaces
  BY DEF WqPlaces
<1>7. r \in WqThread /\ r.at = "prio" /\ r.i = i
  BY <1>1, <1>4, <1>5, <1>6 DEF Locals, WqThread
<1> QED
  BY <1>1, <1>2, <1>3, <1>4, <1>7, LoopStep DEF InHands, Rounds

LEMMA PickUnlockInv ==
  ASSUME WorkInv, NEW a \in Actor, PickUnlock(a) PROVE WorkInv'
<1>1. /\ UNCHANGED ItemVars /\ UNCHANGED <<wqhead, next_workq, wqreadyprio, itempool>>
      /\ next_workq \in [0..Prios - 1 -> Queue \cup {NONE}]
      /\ wqreadyprio \in Int /\ itempool \in Int /\ wqlock' \in Actor \cup {NONE}
      /\ Becomes(a, Resting) /\ act[a].at = "unlock"
  BY DEF PickUnlock, At, ItemVars, WorkInv, WqTypeOK
<1> QED
  BY <1>1, RestingType, LoopStep DEF InHands, Rounds

LEMMA PickAfterInv ==
  ASSUME WorkInv, NEW a \in Actor, PickAfter(a) PROVE WorkInv'
<1> DEFINE q == act[a]
           w == FirstQueue(q.i)
<1>1. /\ q \in WqThread /\ q.at = "after" /\ q.i \in 0..Prios - 1
      /\ q.workq \in Elems(wqhead[q.i])
  BY ActorState DEF PickAfter, At, Rounds
<1>2. /\ UNCHANGED ItemVars /\ UNCHANGED <<wqhead, next_workq, wqreadyprio, itempool, wqlock>>
      /\ next_workq \in [0..Prios - 1 -> Queue \cup {NONE}]
      /\ wqreadyprio \in Int /\ itempool \in Int /\ wqlock \in Actor \cup {NONE}
  BY DEF PickAfter, ItemVars, LoopVars, WorkInv, WqTypeOK
<1>3. w \in Elems(wqhead[q.i]) /\ w \in Queue
  <2>1. wqhead[q.i] # <<>>
    BY <1>1 DEF Elems
  <2> QED
    BY <1>1, <2>1, FirstIsThere DEF WorkInv
<1> HIDE DEF w
<1>4. CASE \E l \in {"endinner", "outer"} : Becomes(a, [q EXCEPT !.at = l])
  <2>1. PICK l \in {"endinner", "outer"} : Becomes(a, [q EXCEPT !.at = l])
    BY <1>4
  <2> DEFINE r == [q EXCEPT !.at = l]
  <2>2. r = Locals(l, q.i, q.workq, q.nworkq, q.found, q.val, q.item)
    BY <1>1 DEF WqThread, Locals
  <2>3. l \in WqPlaces
    BY DEF WqPlaces
  <2>4. r \in WqThread /\ r.at = l /\ r.i = q.i /\ r.workq = q.workq
    BY <1>1, <2>2, <2>3 DEF Locals, WqThread
  <2>5. Becomes(a, r)
    BY <2>1
  <2> HIDE DEF r
  <2> QED
    BY <1>1, <1>2, <2>4, <2>5, LoopStep DEF InHands
<1>5. CASE \E n \in Queue \cup {NONE}, f \in BOOLEAN, l \in {"endinner", "inner"} :
             Becomes(a, [q EXCEPT !.workq = w, !.nworkq = n, !.found = f, !.at = l])
  <2>1. PICK n, f, l, r :
               /\ n \in Queue \cup {NONE} /\ f \in BOOLEAN /\ l \in {"endinner", "inner"}
               /\ Becomes(a, r) /\ r = [q EXCEPT !.workq = w, !.nworkq = n, !.found = f, !.at = l]
    BY <1>5
  <2>2. r = Locals(l, q.i, w, n, f, q.val, q.item)
    BY <1>1, <2>1 DEF WqThread, Locals
  <2>3. l \in WqPlaces
    BY <2>1 DEF WqPlaces
  <2>4. r \in WqThread /\ r.at = l /\ r.i = q.i /\ r.workq = w
    <3>1. n \in Queue \cup {NONE} /\ f \in BOOLEAN
      BY <2>1
    <3> QED
      BY <1>1, <1>3, <2>2, <2>3, <3>1 DEF Locals, WqThread
  <2> QED
    BY <1>1, <1>2, <1>3, <2>1, <2>4, LoopStep DEF InHands
<1>6. \/ \E l \in {"endinner", "outer"} : Becomes(a, [q EXCEPT !.at = l])
      \/ Becomes(a, [q EXCEPT !.workq = w, !.nworkq = IF q.val THEN w ELSE @,
                              !.found = @ \/ q.val,
                              !.at = IF ~q.val /\ w = q.nworkq THEN "endinner" ELSE "inner"])
  BY DEF PickAfter, AfterPost, w
<1>7. /\ (IF q.val THEN w ELSE q.nworkq) \in Queue \cup {NONE}
      /\ (q.found \/ q.val) \in BOOLEAN
      /\ (IF ~q.val /\ w = q.nworkq THEN "endinner" ELSE "inner") \in {"endinner", "inner"}
  BY <1>1, <1>3 DEF WqThread
<1> QED
  BY <1>4, <1>5, <1>6, <1>7
---------------------------------------------------------------------------
(* The steps that move an item *)

LEMMA CreateQueueInv ==
  ASSUME WorkInv, NEW q \in Queue, CreateQueue(q) PROVE WorkInv'
<1> DEFINE i == Prio[q]
<1>1. i \in 0..Prios - 1 /\ wqhead[i] \in Seq(Queue)
  BY WorkQueueAssumption DEF WorkInv, WqTypeOK
<1>2. /\ wqhead' = [wqhead EXCEPT ![i] = Append(wqhead[i], q)]
      /\ next_workq' = [next_workq EXCEPT ![i] = IF @ = NONE THEN wqhead'[i][1] ELSE @]
      /\ UNCHANGED <<act, ItemVars, wqreadyprio, itempool, wqlock>>
  BY DEF CreateQueue, ItemVars
<1>3. wqhead'[i] = Append(wqhead[i], q) /\ wqhead'[i] \in Seq(Queue) /\ wqhead'[i] # <<>>
  <2>1. wqhead'[i] = Append(wqhead[i], q)
    BY <1>1, <1>2 DEF WorkInv, WqTypeOK
  <2> QED
    BY <1>1, <2>1, ElemsAppend
<1>4. Elems(wqhead'[i]) = Elems(wqhead[i]) \cup {q}
  BY <1>1, <1>3, ElemsAppend
<1>5. wqhead'[i][1] \in Queue /\ wqhead'[i][1] \in Elems(wqhead'[i])
  BY <1>3 DEF Elems
<1>6. \A p \in 0..Prios - 1 : p # i => wqhead'[p] = wqhead[p] /\ next_workq'[p] = next_workq[p]
  BY <1>1, <1>2 DEF WorkInv, WqTypeOK
<1>7. wqhead' \in [0..Prios - 1 -> Seq(Queue)]
  BY <1>1, <1>2, <1>3 DEF WorkInv, WqTypeOK
<1>8. next_workq' \in [0..Prios - 1 -> Queue \cup {NONE}]
  BY <1>1, <1>2, <1>5 DEF WorkInv, WqTypeOK
<1>9. WqTypeOK'
  BY <1>2, <1>7, <1>8 DEF WorkInv, WqTypeOK, ItemVars
<1>10. \A p \in 0..Prios - 1 : Elems(wqhead[p]) \subseteq Elems(wqhead'[p])
  BY <1>4, <1>6
<1>11. QueuesInv'
  <2>1. ASSUME NEW p \in 0..Prios - 1
        PROVE  /\ \A r \in Elems(wqhead'[p]) : Prio[r] = p
               /\ next_workq'[p] # NONE => next_workq'[p] \in Elems(wqhead'[p])
    <3>1. CASE p = i
      <4>1. next_workq'[i] = IF next_workq[i] = NONE THEN wqhead'[i][1] ELSE next_workq[i]
        BY <1>1, <1>2 DEF WorkInv, WqTypeOK
      <4> QED
        BY <1>1, <1>4, <1>5, <3>1, <4>1 DEF WorkInv, QueuesInv
    <3>2. CASE p # i
      BY <1>6, <3>2 DEF WorkInv, QueuesInv
    <3> QED
      BY <3>1, <3>2
  <2> HIDE DEF i
  <2> QED
    BY <1>2, <1>10, <2>1 DEF WorkInv, QueuesInv
<1>12. HandInv' /\ KernelCount'
  BY <1>2 DEF WorkInv, HandInv, KernelCount, InHand, OnList, Posting, At, ItemVars
<1> QED
  BY <1>2, <1>9, <1>11, <1>12, SameItems DEF WorkInv

\* An item that is nowhere yet is put on a queue.
LEMMA EnqueueInv ==
  ASSUME WorkInv, NEW a \in Adder, NEW q \in Queue, NEW j \in Job, Enqueue(a, q, j),
         act[a].at \in {"rest", "malloc"}, ran[j] = 0,
         \A p \in Queue : j \notin OnList(p) \cup kernhead[p],
         \A b \in Actor : act[b].at = "malloc" /\ b # a => act[b].item # j,
         UNCHANGED <<wqhead, next_workq, kernhead, kq_count, kcounted,
                     kernel_workq_count, kernel, ran>>,
         itempool' \in Int
  PROVE  WorkInv'
<1>1. a \in Actor /\ act \in [Actor -> WqThread] /\ listhead \in [Queue -> Seq(Job)]
  BY DEF Actor, WorkInv, WqTypeOK
<1>2. PICK r : Becomes(a, r) /\ r = [Resting EXCEPT !.at = "outer"]
  BY DEF Enqueue
<1>3. r \in WqThread /\ r.at = "outer"
  <2>1. r = Locals("outer", 0, NONE, NONE, FALSE, FALSE, NONE)
    BY <1>2 DEF Resting, Locals
  <2> QED
    BY <2>1 DEF Locals, WqThread, WqPlaces
<1>4. /\ act' \in [Actor -> WqThread] /\ act'[a] = r
      /\ \A b \in Actor : b # a => act'[b] = act[b]
  BY <1>1, <1>2, <1>3, Acts
<1>5. listhead' = [listhead EXCEPT ![q] = Append(listhead[q], j)]
  BY DEF Enqueue
<1>6. /\ listhead'[q] \in Seq(Job) /\ Elems(listhead'[q]) = Elems(listhead[q]) \cup {j}
      /\ Distinct(listhead'[q])
  <2>1. Distinct(listhead[q]) /\ j \notin Elems(listhead[q]) /\ listhead[q] \in Seq(Job)
    BY <1>1 DEF WorkInv, PlaceInv, OnList
  <2> QED
    BY <1>1, <1>5, <2>1, ElemsAppend
<1>7. listhead' \in [Queue -> Seq(Job)] /\ \A p \in Queue : p # q => listhead'[p] = listhead[p]
  BY <1>1, <1>5, <1>6
<1>8. OnList(q)' = OnList(q) \cup {j} /\ \A p \in Queue : p # q => OnList(p)' = OnList(p)
  BY <1>6, <1>7 DEF OnList
<1>9. WqTypeOK'
  <2>1. wqreadyprio \in Int /\ Prio[q] \in Int
    BY WorkQueueAssumption DEF WorkInv, WqTypeOK
  <2>2. wqreadyprio' \in {Prio[q], wqreadyprio} /\ wqlock' = a
    BY DEF Enqueue
  <2> QED
    BY <1>1, <1>4, <1>7, <2>1, <2>2 DEF WorkInv, WqTypeOK
<1>10. QueuesInv'
  BY <1>1, <1>2, <1>3, RoundStep DEF WorkInv, WqTypeOK, Rounds
<1>11. j \notin kcounted /\ j \notin kernel
  BY DEF WorkInv, PlaceInv
<1>12. PlaceInv'
  <2>1. ASSUME NEW p \in Queue
        PROVE  /\ Distinct(listhead'[p]) /\ OnList(p)' \cap kernhead[p] = {}
               /\ kernhead[p] \subseteq kcounted
    BY <1>6, <1>7, <1>8 DEF WorkInv, PlaceInv
  <2>2. ASSUME NEW o \in Queue, NEW p \in Queue, o # p
        PROVE  (OnList(o)' \cup kernhead[o]) \cap (OnList(p)' \cup kernhead[p]) = {}
    BY <1>8, <2>2 DEF WorkInv, PlaceInv
  <2>3. \A x \in kcounted \cup kernel : \E p \in Queue : x \in OnList(p)' \cup kernhead[p]
    BY <1>8 DEF WorkInv, PlaceInv
  <2>4. \A x \in kernel, p \in Queue : x \notin OnList(p)'
    BY <1>8, <1>11 DEF WorkInv, PlaceInv
  <2> QED
    BY <2>1, <2>2, <2>3, <2>4 DEF PlaceInv
<1>13. RanInv'
  BY <1>8 DEF WorkInv, RanInv
<1>14. HandInv'
  BY <1>3, <1>4, <1>8 DEF WorkInv, HandInv, InHand
<1>15. KernelCount'
  <2>1. Posting' = Posting
    BY <1>3, <1>4 DEF Posting, At
  <2> QED
    BY <2>1 DEF WorkInv, KernelCount
<1>16. QueueCount'
  <2>1. \A p \in Queue : OnList(p)' \cap kcounted = OnList(p) \cap kcounted
    BY <1>8, <1>11
  <2> QED
    BY <2>1 DEF WorkInv, QueueCount
<1> QED
  BY <1>9, <1>10, <1>12, <1>13, <1>14, <1>15, <1>16 DEF WorkInv

\* What the test of pthread_workqueue_additem_np's caller says.
LEMMA NotAdded ==
  ASSUME WorkInv, NEW j \in Job, ~Added(j)
  PROVE  ran[j] = 0 /\ \A p \in Queue : j \notin OnList(p) \cup kernhead[p]
<1>1. ran[j] = 0
  BY DEF WorkInv, WqTypeOK, Added
<1>2. ASSUME NEW p \in Queue PROVE j \notin OnList(p) \cup kernhead[p]
  <2>1. listhead[p] \in Seq(Job)
    BY DEF WorkInv, WqTypeOK
  <2>2. ~Contains(listhead[p], j) /\ j \notin kernhead[p]
    BY DEF Added
  <2> QED
    BY <2>1, <2>2, ElemsContained DEF OnList
<1> QED
  BY <1>1, <1>2

LEMMA AddItemInv ==
  ASSUME WorkInv, NEW a \in Adder, NEW q \in Queue, NEW j \in Job, AddItem(a, q, j)
  PROVE  WorkInv'
<1>1. Enqueue(a, q, j) /\ act[a].at = "rest" /\ ~Added(j) /\ ~Adding(j)
  BY DEF AddItem, At
<1>2. /\ UNCHANGED <<wqhead, next_workq, kernhead, kq_count, kcounted,
                     kernel_workq_count, kernel, ran>>
      /\ itempool' \in Int
  BY DEF AddItem, WorkInv, WqTypeOK
<1>3. \A b \in Actor : act[b].at = "malloc" => act[b].item # j
  BY <1>1 DEF Adding, WorkInv, HandInv
<1> QED
  BY <1>1, <1>2, <1>3, NotAdded, EnqueueInv

LEMMA AddItemLockedInv ==
  ASSUME WorkInv, NEW a \in Adder, AddItemLocked(a) PROVE WorkInv'
<1> DEFINE q == act[a].workq
           j == act[a].item
<1>1. Enqueue(a, q, j) /\ act[a].at = "malloc"
  BY DEF AddItemLocked, At
<1>2. /\ UNCHANGED <<wqhead, next_workq, kernhead, kq_count, kcounted,
                     kernel_workq_count, kernel, ran>>
      /\ itempool' \in Int
  BY DEF AddItemLocked, WorkInv, WqTypeOK
<1>3. /\ q \in Queue /\ j \in Job /\ ran[j] = 0
      /\ \A p \in Queue : j \notin OnList(p) \cup kernhead[p]
      /\ \A b \in Actor : act[b].at = "malloc" /\ b # a => act[b].item # j
  <2>1. a \in Actor
    BY DEF Actor
  <2> QED
    BY <1>1, <2>1 DEF WorkInv, HandInv
<1> HIDE DEF q, j
<1> QED
  BY <1>1, <1>2, <1>3, EnqueueInv

LEMMA AddItemMallocInv ==
  ASSUME WorkInv, NEW a \in Adder, NEW q \in Queue, NEW j \in Job, AddItemMalloc(a, q, j)
  PROVE  WorkInv'
<1>1. a \in Actor /\ act \in [Actor -> WqThread] /\ act[a].at = "rest"
  BY DEF Actor, WorkInv, WqTypeOK, AddItemMalloc, At
<1>2. PICK r : Becomes(a, r) /\ r = [Resting EXCEPT !.at = "malloc", !.workq = q, !.item = j]
  BY DEF AddItemMalloc
<1>3. r \in WqThread /\ r.at = "malloc" /\ r.workq = q /\ r.item = j
  <2>1. r = Locals("malloc", 0, q, NONE, FALSE, FALSE, j)
    BY <1>2 DEF Resting, Locals
  <2> QED
    BY <2>1 DEF Locals, WqThread, WqPlaces
<1>4. /\ act' \in [Actor -> WqThread] /\ act'[a] = r
      /\ \A b \in Actor : b # a => act'[b] = act[b]
  BY <1>1, <1>2, <1>3, Acts
<1>5. UNCHANGED <<ItemVars, wqhead, next_workq, wqreadyprio, itempool, wqlock>>
  BY DEF AddItemMalloc, ItemVars
<1>6. WqTypeOK'
  BY <1>4, <1>5 DEF WorkInv, WqTypeOK, ItemVars
<1>7. QueuesInv'
  BY <1>1, <1>2, <1>3, <1>5, RoundStep DEF WorkInv, WqTypeOK, Rounds
<1>8. PlaceInv' /\ RanInv' /\ QueueCount'
  BY <1>5, SameItems DEF WorkInv
<1>9. KernelCount'
  <2>1. Posting' = Posting
    BY <1>1, <1>3, <1>4 DEF Posting, At
  <2> QED
    BY <1>5, <2>1 DEF WorkInv, KernelCount, ItemVars
<1>10. HandInv'
  <2>1. \A p \in Queue : OnList(p)' = OnList(p)
    BY <1>5 DEF OnList, ItemVars
  <2>2. ran[j] = 0 /\ \A p \in Queue : j \notin OnList(p) \cup kernhead[p]
    BY NotAdded DEF AddItemMalloc
  <2>3. \A b \in Actor : act[b].at = "malloc" => act[b].item # j
    BY DEF AddItemMalloc, Adding, WorkInv, HandInv
  <2> QED
    BY <1>3, <1>4, <1>5, <2>1, <2>2, <2>3 DEF WorkInv, HandInv, InHand, ItemVars
<1> QED
  BY <1>6, <1>7, <1>8, <1>9, <1>10 DEF WorkInv

\* The thread that posts is one of the threads that post, until it is not.
LEMMA NoLongerPosting ==
  ASSUME WorkInv, NEW a \in Actor, act[a].at = "post", NEW r \in WqThread,
         r.at # "post", Becomes(a, r)
  PROVE  /\ Posting' = Posting \ {a} /\ IsFiniteSet(Posting')
         /\ Cardinality(Posting') = Cardinality(Posting) - 1
         /\ Cardinality(Posting') \in Nat
<1>1. /\ act'[a] = r /\ \A b \in Actor : b # a => act'[b] = act[b]
  BY Acts DEF WorkInv, WqTypeOK
<1>2. Posting' = Posting \ {a} /\ a \in Posting
  BY <1>1 DEF Posting, At
<1>3. IsFiniteSet(Posting)
  BY DEF WorkInv, KernelCount
<1> QED
  BY <1>2, <1>3, FS_RemoveElement, FS_CardinalityType

LEMMA PostTakenInv ==
  ASSUME WorkInv, NEW a \in Actor, PostTaken(a) PROVE WorkInv'
<1> DEFINE q == act[a].workq
           x == act[a].item
<1>1. act[a] \in WqThread /\ act[a].at = "post" /\ act \in [Actor -> WqThread]
  BY ActorState DEF PostTaken, At, WorkInv, WqTypeOK
<1>2. /\ q \in Queue /\ x \in kernhead[q] /\ x \notin kernel /\ ran[x] = 0
      /\ \A b \in Actor : InHand(b) /\ b # a => act[b].item # x
  BY <1>1 DEF WorkInv, HandInv, InHand
<1>3. /\ kernel' = kernel \cup {x} /\ x \in Job
      /\ UNCHANGED <<wqhead, next_workq, wqreadyprio, listhead, kernhead, kq_count,
                     kcounted, kernel_workq_count, itempool, wqlock, ran>>
  BY <1>1, <1>2 DEF PostTaken, WorkInv, WqTypeOK
<1>4. PICK r : Becomes(a, r) /\ r = [act[a] EXCEPT !.at = "posted"]
  BY DEF PostTaken, To
<1>5. /\ r \in WqThread /\ r.at = "posted" /\ r.i = act[a].i /\ r.workq = act[a].workq
  <2> DEFINE c == act[a]
  <2>1. r = Locals("posted", c.i, c.workq, c.nworkq, c.found, c.val, c.item)
    BY <1>1, <1>4 DEF WqThread, Locals
  <2> QED
    BY <1>1, <2>1 DEF Locals, WqThread, WqPlaces
<1>6. /\ act' \in [Actor -> WqThread] /\ act'[a] = r
      /\ \A b \in Actor : b # a => act'[b] = act[b]
  BY <1>1, <1>4, <1>5, Acts
<1>7. \A p \in Queue : OnList(p)' = OnList(p)
  BY <1>3 DEF OnList
<1> HIDE DEF q, x
<1>8. WqTypeOK'
  BY <1>3, <1>6 DEF WorkInv, WqTypeOK
<1>9. QueuesInv'
  <2>1. act[a].i \in 0..Prios - 1 /\ act[a].workq \in Elems(wqhead[act[a].i])
    BY <1>1, ActorState DEF Rounds
  <2> QED
    BY <1>1, <1>3, <1>4, <1>5, <2>1, RoundStep DEF WorkInv, WqTypeOK
<1>10. PlaceInv'
  BY <1>2, <1>3, <1>7 DEF WorkInv, PlaceInv
<1>11. RanInv'
  BY <1>2, <1>3, <1>7 DEF WorkInv, RanInv
<1>12. HandInv'
  BY <1>2, <1>3, <1>5, <1>6, <1>7 DEF WorkInv, HandInv, InHand
<1>13. KernelCount'
  <2>1. IsFiniteSet(kernel') /\ Cardinality(kernel') = Cardinality(kernel) + 1
    BY <1>2, <1>3, FS_AddElement DEF WorkInv, KernelCount
  <2>2. Cardinality(kernel) \in Nat /\ Cardinality(Posting) \in Nat
    BY FS_CardinalityType DEF WorkInv, KernelCount
  <2>3. /\ IsFiniteSet(Posting') /\ Cardinality(Posting') = Cardinality(Posting) - 1
    BY <1>1, <1>4, <1>5, NoLongerPosting
  <2>4. /\ kernel_workq_count = Cardinality(kernel) + Cardinality(Posting)
        /\ kernel_workq_count <= ElemMax
    BY DEF WorkInv, KernelCount
  <2> QED
    BY <1>3, <2>1, <2>2, <2>3, <2>4 DEF KernelCount
<1>14. QueueCount'
  BY <1>3, <1>7 DEF WorkInv, QueueCount
<1> QED
  BY <1>8, <1>9, <1>10, <1>11, <1>12, <1>13, <1>14 DEF WorkInv

LEMMA PostRefusedInv ==
  ASSUME WorkInv, NEW a \in Actor, PostRefused(a) PROVE WorkInv'
<1>1. act[a] \in WqThread /\ act[a].at = "post" /\ act \in [Actor -> WqThread]
  BY ActorState DEF PostRefused, At, WorkInv, WqTypeOK
<1>2. /\ kernel_workq_count' = kernel_workq_count - 1
      /\ UNCHANGED <<wqhead, next_workq, wqreadyprio, listhead, kernhead, kq_count,
                     kcounted, kernel, itempool, wqlock, ran>>
  BY DEF PostRefused
<1>3. PICK r : Becomes(a, r) /\ r = [act[a] EXCEPT !.at = "refused"]
  BY DEF PostRefused, To
<1>4. /\ r \in WqThread /\ r.at = "refused" /\ r.i = act[a].i
      /\ r.workq = act[a].workq /\ r.item = act[a].item
  <2> DEFINE c == act[a]
  <2>1. r = Locals("refused", c.i, c.workq, c.nworkq, c.found, c.val, c.item)
    BY <1>1, <1>3 DEF WqThread, Locals
  <2> QED
    BY <1>1, <2>1 DEF Locals, WqThread, WqPlaces
<1>5. /\ act' \in [Actor -> WqThread] /\ act'[a] = r
      /\ \A b \in Actor : b # a => act'[b] = act[b]
  BY <1>1, <1>3, <1>4, Acts
<1>6. \A p \in Queue : OnList(p)' = OnList(p)
  BY <1>2 DEF OnList
<1>7. WqTypeOK'
  BY <1>2, <1>5 DEF WorkInv, WqTypeOK
<1>8. QueuesInv'
  <2>1. act[a].i \in 0..Prios - 1 /\ act[a].workq \in Elems(wqhead[act[a].i])
    BY <1>1, ActorState DEF Rounds
  <2> QED
    BY <1>1, <1>2, <1>3, <1>4, <2>1, RoundStep DEF WorkInv, WqTypeOK
<1>9. PlaceInv' /\ RanInv' /\ QueueCount'
  BY <1>2, <1>6 DEF WorkInv, PlaceInv, RanInv, QueueCount
<1>10. HandInv'
  BY <1>1, <1>2, <1>4, <1>5, <1>6 DEF WorkInv, HandInv, InHand
<1>11. KernelCount'
  <2>1. Cardinality(kernel) \in Nat /\ Cardinality(Posting) \in Nat
    BY FS_CardinalityType DEF WorkInv, KernelCount
  <2>2. /\ IsFiniteSet(Posting') /\ Cardinality(Posting') = Cardinality(Posting) - 1
    BY <1>1, <1>3, <1>4, NoLongerPosting
  <2>3. /\ kernel_workq_count = Cardinality(kernel) + Cardinality(Posting)
        /\ kernel_workq_count <= ElemMax /\ IsFiniteSet(kernel) /\ ElemMax \in Nat
    BY WorkQueueAssumption DEF WorkInv, KernelCount
  <2> QED
    BY <1>2, <2>1, <2>2, <2>3 DEF KernelCount
<1> QED
  BY <1>7, <1>8, <1>9, <1>10, <1>11 DEF WorkInv

LEMMA PickPostInv ==
  ASSUME WorkInv, NEW a \in Actor, PickPost(a) PROVE WorkInv'
<1>0. PICK i, q, x : i = act[a].i /\ q = act[a].workq /\ x = Head(listhead[q])
  OBVIOUS
<1>1. /\ act[a] \in WqThread /\ act[a].at = "inner" /\ act \in [Actor -> WqThread]
      /\ i \in 0..Prios - 1 /\ q \in Elems(wqhead[i])
  BY <1>0, ActorState DEF PickPost, At, Rounds, WorkInv, WqTypeOK
<1>2. q \in Queue /\ After(q) \in Elems(wqhead[i]) /\ After(q) \in Queue
  BY <1>1, AfterIsThere DEF WorkInv
<1>3. /\ listhead[q] # <<>> /\ RoomInKernel
      /\ next_workq' = [next_workq EXCEPT ![i] = After(q)]
      /\ listhead' = [listhead EXCEPT ![q] = Tail(listhead[q])]
      /\ kernhead' = [kernhead EXCEPT ![q] = kernhead[q] \cup {x}]
      /\ kq_count' = IF x \in kcounted THEN kq_count ELSE [kq_count EXCEPT ![q] = @ + 1]
      /\ kcounted' = kcounted \cup {x}
      /\ kernel_workq_count' = kernel_workq_count + 1 /\ wqlock' = NONE
      /\ UNCHANGED <<wqhead, wqreadyprio, itempool, kernel, ran>>
  BY <1>0 DEF PickPost, TakeFirst, CountPosted
<1>4. PICK r : Becomes(a, r) /\ r = [act[a] EXCEPT !.at = "post", !.item = x]
  BY <1>0 DEF PickPost
<1>5. /\ listhead \in [Queue -> Seq(Job)] /\ kernhead \in [Queue -> SUBSET Job]
      /\ kcounted \in SUBSET Job /\ kq_count \in [Queue -> Int]
      /\ listhead[q] \in Seq(Job) /\ Distinct(listhead[q])
  BY <1>2 DEF WorkInv, WqTypeOK, PlaceInv
<1>6. /\ x \in Elems(listhead[q]) /\ x \in Job /\ Tail(listhead[q]) \in Seq(Job)
      /\ Elems(Tail(listhead[q])) = Elems(listhead[q]) \ {x} /\ Distinct(Tail(listhead[q]))
  BY <1>0, <1>3, <1>5, ElemsTail
<1>7. /\ r \in WqThread /\ r.at = "post" /\ r.i = i /\ r.workq = q /\ r.item = x
  <2> DEFINE c == act[a]
  <2>1. r = Locals("post", c.i, c.workq, c.nworkq, c.found, c.val, x)
    BY <1>1, <1>4 DEF WqThread, Locals
  <2> QED
    BY <1>0, <1>1, <1>6, <2>1 DEF Locals, WqThread, WqPlaces
<1>8. /\ act' \in [Actor -> WqThread] /\ act'[a] = r
      /\ \A b \in Actor : b # a => act'[b] = act[b]
  BY <1>1, <1>4, <1>7, Acts
<1>9. /\ OnList(q)' = OnList(q) \ {x} /\ x \in OnList(q)
      /\ \A p \in Queue : p # q => OnList(p)' = OnList(p)
  BY <1>2, <1>3, <1>5, <1>6 DEF OnList
<1>10. /\ kernhead'[q] = kernhead[q] \cup {x}
       /\ \A p \in Queue : p # q => kernhead'[p] = kernhead[p]
  BY <1>2, <1>3, <1>5
<1>11. /\ \A p \in Queue : x \notin kernhead[p] /\ (p # q => x \notin OnList(p))
       /\ x \notin kernel /\ ran[x] = 0
  BY <1>2, <1>9 DEF WorkInv, PlaceInv, RanInv
<1>12. WqTypeOK'
  <2>1. listhead' \in [Queue -> Seq(Job)] /\ kernhead' \in [Queue -> SUBSET Job]
    BY <1>2, <1>3, <1>5, <1>6
  <2>2. next_workq' \in [0..Prios - 1 -> Queue \cup {NONE}]
    BY <1>1, <1>2, <1>3 DEF WorkInv, WqTypeOK
  <2>3. kq_count' \in [Queue -> Int] /\ kcounted' \in SUBSET Job
    BY <1>2, <1>3, <1>5, <1>6
  <2> QED
    BY <1>3, <1>8, <2>1, <2>2, <2>3 DEF WorkInv, WqTypeOK
<1>13. QueuesInv'
  <2>1. /\ next_workq' \in [0..Prios - 1 -> Queue \cup {NONE}]
        /\ \A p \in 0..Prios - 1 :
             next_workq'[p] # next_workq[p] => next_workq'[p] \in Elems(wqhead[p])
    BY <1>1, <1>2, <1>3 DEF WorkInv, WqTypeOK
  <2> QED
    BY <1>1, <1>3, <1>4, <1>7, <2>1, RoundStep DEF WorkInv
<1>14. PlaceInv'
  <2>1. ASSUME NEW p \in Queue
        PROVE  /\ Distinct(listhead'[p]) /\ OnList(p)' \cap kernhead'[p] = {}
               /\ kernhead'[p] \subseteq kcounted'
    <3>1. Distinct(listhead'[p])
      BY <1>2, <1>3, <1>5, <1>6 DEF WorkInv, PlaceInv
    <3> QED
      BY <1>3, <1>9, <1>10, <1>11, <3>1 DEF WorkInv, PlaceInv
  <2>2. ASSUME NEW o \in Queue, NEW p \in Queue, o # p
        PROVE  (OnList(o)' \cup kernhead'[o]) \cap (OnList(p)' \cup kernhead'[p]) = {}
    BY <1>9, <1>10, <1>11, <2>2 DEF WorkInv, PlaceInv
  <2>3. \A y \in kcounted' \cup kernel' : \E p \in Queue : y \in OnList(p)' \cup kernhead'[p]
    BY <1>2, <1>3, <1>9, <1>10 DEF WorkInv, PlaceInv
  <2>4. \A y \in kernel', p \in Queue : y \notin OnList(p)'
    BY <1>3, <1>9 DEF WorkInv, PlaceInv
  <2> QED
    BY <2>1, <2>2, <2>3, <2>4 DEF PlaceInv
<1>15. RanInv'
  BY <1>3, <1>9 DEF WorkInv, RanInv
<1>16. HandInv'
  <2>1. ASSUME NEW b \in Actor, b # a, InHand(b) PROVE act[b].item # x
    BY <1>11, <2>1 DEF WorkInv, HandInv
  <2>2. ASSUME NEW b \in Actor, act[b].at = "malloc" PROVE act[b].item # x
    BY <1>2, <1>9, <2>2 DEF WorkInv, HandInv
  <2>3. \A p \in Queue : OnList(p)' \subseteq OnList(p) /\ kernhead[p] \subseteq kernhead'[p]
                         /\ kernhead'[p] \subseteq kernhead[p] \cup {x}
    BY <1>9, <1>10
  <2> QED
    BY <1>2, <1>3, <1>7, <1>8, <1>10, <1>11, <2>1, <2>2, <2>3 DEF WorkInv, HandInv, InHand
<1>17. KernelCount'
  <2>1. Posting' = Posting \cup {a} /\ a \notin Posting
    BY <1>1, <1>7, <1>8 DEF Posting, At
  <2>2. /\ kernel_workq_count = Cardinality(kernel) + Cardinality(Posting)
        /\ kernel_workq_count < ElemMax /\ IsFiniteSet(kernel) /\ IsFiniteSet(Posting)
        /\ ElemMax \in Nat
    BY <1>3, WorkQueueAssumption DEF WorkInv, KernelCount, RoomInKernel
  <2>3. IsFiniteSet(Posting') /\ Cardinality(Posting') = Cardinality(Posting) + 1
    BY <2>1, <2>2, FS_AddElement
  <2>4. Cardinality(kernel) \in Nat /\ Cardinality(Posting) \in Nat
    BY <2>2, FS_CardinalityType
  <2> QED
    BY <1>3, <2>2, <2>3, <2>4 DEF KernelCount
<1>18. QueueCount'
  <2> SUFFICES ASSUME NEW p \in Queue
               PROVE  /\ IsFiniteSet(kernhead'[p])
                      /\ kq_count'[p] = Cardinality(kernhead'[p])
                                        + Cardinality(OnList(p)' \cap kcounted')
    BY DEF QueueCount
  <2>1. /\ IsFiniteSet(kernhead[p])
        /\ kq_count[p] = Cardinality(kernhead[p]) + Cardinality(OnList(p) \cap kcounted)
    BY DEF WorkInv, QueueCount
  <2>2. CASE p # q
    <3>1. OnList(p)' \cap kcounted' = OnList(p) \cap kcounted
      BY <1>3, <1>9, <1>11, <2>2
    <3>2. kernhead'[p] = kernhead[p] /\ kq_count'[p] = kq_count[p]
      BY <1>3, <1>5, <1>10, <2>2
    <3> QED
      BY <2>1, <3>1, <3>2
  <2>3. CASE p = q
    <3>1. /\ IsFiniteSet(kernhead'[q]) /\ Cardinality(kernhead'[q]) = Cardinality(kernhead[q]) + 1
          /\ Cardinality(kernhead[q]) \in Nat
      BY <1>10, <1>11, <2>1, <2>3, FS_AddElement, FS_CardinalityType
    <3>2. IsFiniteSet(OnList(q) \cap kcounted)
      BY <1>5, ElemsCount, FS_Subset DEF OnList
    <3>3. Cardinality(OnList(q) \cap kcounted) \in Nat
      BY <3>2, FS_CardinalityType
    <3>4. CASE x \in kcounted
      <4>1. /\ OnList(q)' \cap kcounted' = (OnList(q) \cap kcounted) \ {x}
            /\ x \in OnList(q) \cap kcounted
        BY <1>3, <1>9, <3>4
      <4>2. Cardinality(OnList(q)' \cap kcounted') = Cardinality(OnList(q) \cap kcounted) - 1
        BY <3>2, <4>1, FS_RemoveElement
      <4>3. kq_count' = kq_count
        BY <1>3, <3>4
      <4> QED
        BY <2>1, <2>3, <3>1, <3>3, <4>2, <4>3
    <3>5. CASE x \notin kcounted
      <4>1. OnList(q)' \cap kcounted' = OnList(q) \cap kcounted
        BY <1>3, <1>9, <3>5
      <4>2. kq_count'[q] = kq_count[q] + 1
        BY <1>2, <1>3, <1>5, <3>5
      <4>3. kq_count[q] = Cardinality(kernhead[q]) + Cardinality(OnList(q) \cap kcounted)
        BY <2>1, <2>3
      <4>4. kq_count'[q] = Cardinality(kernhead'[q]) + Cardinality(OnList(q) \cap kcounted)
        BY <3>1, <3>3, <4>2, <4>3
      <4> QED
        BY <2>3, <3>1, <4>1, <4>4
    <3> QED
      BY <3>4, <3>5
  <2> QED
    BY <2>2, <2>3
<1> QED
  BY <1>12, <1>13, <1>14, <1>15, <1>16, <1>17, <1>18 DEF WorkInv

LEMMA PostRequeueInv ==
  ASSUME WorkInv, NEW a \in Actor, PostRequeue(a) PROVE WorkInv'
<1>0. PICK i, q, x : i = act[a].i /\ q = act[a].workq /\ x = act[a].item
  OBVIOUS
<1>1. /\ act[a] \in WqThread /\ act[a].at = "refused" /\ act \in [Actor -> WqThread]
      /\ i \in 0..Prios - 1 /\ q \in Elems(wqhead[i])
  BY <1>0, ActorState DEF PostRequeue, At, Rounds, WorkInv, WqTypeOK
<1>2. /\ q \in Queue /\ x \in kernhead[q] /\ x \notin kernel /\ ran[x] = 0
      /\ \A b \in Actor : InHand(b) /\ b # a => act[b].item # x
  BY <1>0, <1>1 DEF WorkInv, HandInv, InHand
<1>3. /\ kernhead' = [kernhead EXCEPT ![q] = kernhead[q] \ {x}]
      /\ listhead' = [listhead EXCEPT ![q] = <<x>> \o listhead[q]]
      /\ UNCHANGED <<wqhead, next_workq, wqreadyprio, kq_count, kcounted,
                     kernel_workq_count, itempool, kernel, ran>>
      /\ wqlock' = a
  BY <1>0 DEF PostRequeue
<1>4. PICK r : Becomes(a, r) /\ r = [act[a] EXCEPT !.at = "after", !.val = TRUE, !.item = NONE]
  BY DEF PostRequeue
<1>5. /\ r \in WqThread /\ r.at = "after" /\ r.i = i /\ r.workq = q
  <2> DEFINE c == act[a]
  <2>1. r = Locals("after", c.i, c.workq, c.nworkq, c.found, TRUE, NONE)
    BY <1>1, <1>4 DEF WqThread, Locals
  <2> QED
    BY <1>0, <1>1, <2>1 DEF Locals, WqThread, WqPlaces
<1>6. /\ act' \in [Actor -> WqThread] /\ act'[a] = r
      /\ \A b \in Actor : b # a => act'[b] = act[b]
  BY <1>1, <1>4, <1>5, Acts
<1>7. /\ listhead \in [Queue -> Seq(Job)] /\ kernhead \in [Queue -> SUBSET Job]
      /\ listhead[q] \in Seq(Job) /\ Distinct(listhead[q]) /\ x \in Job
      /\ x \in kcounted /\ x \notin Elems(listhead[q])
  BY <1>2 DEF WorkInv, WqTypeOK, PlaceInv, OnList
<1>8. /\ <<x>> \o listhead[q] \in Seq(Job) /\ Distinct(<<x>> \o listhead[q])
      /\ Elems(<<x>> \o listhead[q]) = Elems(listhead[q]) \cup {x}
  BY <1>7, ElemsPrepend
<1>9. /\ listhead'[q] = <<x>> \o listhead[q] /\ kernhead'[q] = kernhead[q] \ {x}
      /\ \A p \in Queue : p # q => listhead'[p] = listhead[p] /\ kernhead'[p] = kernhead[p]
  BY <1>2, <1>3, <1>7
<1>10. /\ OnList(q)' = OnList(q) \cup {x} /\ x \notin OnList(q)
       /\ \A p \in Queue : p # q => OnList(p)' = OnList(p)
  BY <1>7, <1>8, <1>9 DEF OnList
<1>11. WqTypeOK'
  <2>1. listhead' \in [Queue -> Seq(Job)] /\ kernhead' \in [Queue -> SUBSET Job]
    BY <1>2, <1>3, <1>7, <1>8
  <2> QED
    BY <1>3, <1>6, <2>1 DEF WorkInv, WqTypeOK
<1>12. QueuesInv'
  BY <1>1, <1>3, <1>4, <1>5, RoundStep DEF WorkInv, WqTypeOK
<1>13. PlaceInv'
  <2>1. ASSUME NEW p \in Queue
        PROVE  /\ Distinct(listhead'[p]) /\ OnList(p)' \cap kernhead'[p] = {}
               /\ kernhead'[p] \subseteq kcounted'
    <3>1. Distinct(listhead'[p])
      BY <1>8, <1>9 DEF WorkInv, PlaceInv
    <3> QED
      BY <1>3, <1>9, <1>10, <3>1 DEF WorkInv, PlaceInv
  <2>2. ASSUME NEW o \in Queue, NEW p \in Queue, o # p
        PROVE  (OnList(o)' \cup kernhead'[o]) \cap (OnList(p)' \cup kernhead'[p]) = {}
    BY <1>2, <1>9, <1>10, <2>2 DEF WorkInv, PlaceInv
  <2>3. \A y \in kcounted' \cup kernel' : \E p \in Queue : y \in OnList(p)' \cup kernhead'[p]
    BY <1>2, <1>3, <1>9, <1>10 DEF WorkInv, PlaceInv
  <2>4. \A y \in kernel', p \in Queue : y \notin OnList(p)'
    BY <1>2, <1>3, <1>10 DEF WorkInv, PlaceInv
  <2> QED
    BY <2>1, <2>2, <2>3, <2>4 DEF PlaceInv
<1>14. RanInv'
  BY <1>2, <1>3, <1>10 DEF WorkInv, RanInv
<1>15. HandInv'
  <2>1. ASSUME NEW b \in Actor, act[b].at = "malloc" PROVE act[b].item # x
    BY <1>2, <2>1 DEF WorkInv, HandInv
  <2>2. \A p \in Queue : /\ OnList(p)' \subseteq OnList(p) \cup {x}
                         /\ kernhead'[p] \subseteq kernhead[p]
                         /\ kernhead[p] \subseteq kernhead'[p] \cup {x}
    BY <1>9, <1>10
  <2> QED
    BY <1>2, <1>3, <1>5, <1>6, <2>1, <2>2 DEF WorkInv, HandInv, InHand
<1>16. KernelCount'
  <2>1. Posting' = Posting
    BY <1>1, <1>5, <1>6 DEF Posting, At
  <2> QED
    BY <1>3, <2>1 DEF WorkInv, KernelCount
<1>17. QueueCount'
  <2> SUFFICES ASSUME NEW p \in Queue
               PROVE  /\ IsFiniteSet(kernhead'[p])
                      /\ kq_count'[p] = Cardinality(kernhead'[p])
                                        + Cardinality(OnList(p)' \cap kcounted')
    BY DEF QueueCount
  <2>1. /\ IsFiniteSet(kernhead[p])
        /\ kq_count[p] = Cardinality(kernhead[p]) + Cardinality(OnList(p) \cap kcounted)
    BY DEF WorkInv, QueueCount
  <2>2. CASE p # q
    <3>1. OnList(p)' \cap kcounted' = OnList(p) \cap kcounted
      BY <1>3, <1>10, <2>2
    <3>2. kernhead'[p] = kernhead[p] /\ kq_count'[p] = kq_count[p]
      BY <1>3, <1>9, <2>2
    <3> QED
      BY <2>1, <3>1, <3>2
  <2>3. CASE p = q
    <3>1. kq_count[q] = Cardinality(kernhead[q]) + Cardinality(OnList(q) \cap kcounted)
      BY <2>1, <2>3
    <3>2. /\ IsFiniteSet(kernhead'[q]) /\ Cardinality(kernhead'[q]) = Cardinality(kernhead[q]) - 1
          /\ Cardinality(kernhead[q]) \in Nat
      BY <1>2, <1>9, <2>1, <2>3, FS_RemoveElement, FS_CardinalityType
    <3>3. IsFiniteSet(OnList(q) \cap kcounted)
      BY <1>7, ElemsCount, FS_Subset DEF OnList
    <3>4. OnList(q)' \cap kcounted' = (OnList(q) \cap kcounted) \cup {x}
      BY <1>3, <1>7, <1>10
    <3>5. /\ Cardinality(OnList(q)' \cap kcounted') = Cardinality(OnList(q) \cap kcounted) + 1
          /\ Cardinality(OnList(q) \cap kcounted) \in Nat
      BY <1>10, <3>3, <3>4, FS_AddElement, FS_CardinalityType
    <3>6. kq_count'[q] = Cardinality(kernhead'[q]) + Cardinality(OnList(q)' \cap kcounted')
      BY <1>3, <3>1, <3>2, <3>5
    <3> QED
      BY <2>3, <3>2, <3>6
  <2> QED
    BY <2>2, <2>3
<1> QED
  BY <1>11, <1>12, <1>13, <1>14, <1>15, <1>16, <1>17 DEF WorkInv

LEMMA WqStartInv ==
  ASSUME WorkInv, NEW w \in Worker, NEW x \in Job, WqStart(w, x) PROVE WorkInv'
<1>1. w \in Actor /\ act \in [Actor -> WqThread] /\ act[w].at = "rest" /\ x \in kernel
  BY DEF Actor, WqStart, At, WorkInv, WqTypeOK
<1>2. /\ kernel' = kernel \ {x} /\ kernel_workq_count' = kernel_workq_count - 1
      /\ ran' = [ran EXCEPT ![x] = ran[x] + 1]
      /\ UNCHANGED <<wqhead, next_workq, wqreadyprio, listhead, kernhead,
                     kq_count, kcounted, itempool, wqlock>>
  BY DEF WqStart
<1>3. PICK q, r : /\ q \in Queue /\ x \in kernhead[q] /\ Becomes(w, r)
                  /\ r = [Resting EXCEPT !.at = "func", !.item = x, !.workq = q]
  BY DEF WqStart
<1>4. r \in WqThread /\ r.at = "func" /\ r.workq = q /\ r.item = x
  <2>1. r = Locals("func", 0, q, NONE, FALSE, FALSE, x)
    BY <1>3 DEF Resting, Locals
  <2>2. q \in Queue
    BY <1>3
  <2> QED
    BY <2>1, <2>2 DEF Locals, WqThread, WqPlaces
<1>5. /\ act' \in [Actor -> WqThread] /\ act'[w] = r
      /\ \A b \in Actor : b # w => act'[b] = act[b]
  BY <1>1, <1>3, <1>4, Acts
<1>6. \A p \in Queue : OnList(p)' = OnList(p)
  BY <1>2 DEF OnList
<1>7. /\ ran[x] = 0 /\ ran' \in [Job -> Nat] /\ ran'[x] = 1
      /\ \A y \in Job : y # x => ran'[y] = ran[y]
  BY <1>1, <1>2 DEF WorkInv, WqTypeOK, RanInv
<1>8. \A p \in Queue : x \notin OnList(p)
  BY <1>1 DEF WorkInv, PlaceInv
<1>9. WqTypeOK'
  BY <1>2, <1>5, <1>7 DEF WorkInv, WqTypeOK
<1>10. QueuesInv'
  BY <1>1, <1>2, <1>3, <1>4, RoundStep DEF WorkInv, WqTypeOK, Rounds
<1>11. PlaceInv'
  BY <1>2, <1>6 DEF WorkInv, PlaceInv
<1>12. RanInv'
  <2>1. \A p \in Queue : OnList(p) \subseteq Job
    BY DEF WorkInv, WqTypeOK, OnList, Elems
  <2>2. kernel \subseteq Job /\ \A y \in Job : ran[y] \in Nat
    BY DEF WorkInv, WqTypeOK
  <2> QED
    BY <1>2, <1>6, <1>7, <1>8, <2>1, <2>2 DEF WorkInv, RanInv
<1>13. HandInv'
  <2>1. ASSUME NEW b \in Actor, InHand(b) PROVE act[b].item # x
    BY <1>1, <2>1 DEF WorkInv, HandInv
  <2>2. ASSUME NEW b \in Actor, act[b].at = "malloc" PROVE act[b].item # x
    BY <1>3, <2>2 DEF WorkInv, HandInv
  <2>3. ASSUME NEW b \in Actor, b # w, act[b].at \in {"post", "refused", "malloc"}
        PROVE  ran'[act[b].item] = 0
    <3>1. act[b].item \in Job /\ ran[act[b].item] = 0 /\ act[b].item # x
      BY <2>1, <2>2, <2>3 DEF WorkInv, WqTypeOK, HandInv, InHand
    <3> QED
      BY <1>7, <3>1
  <2> DEFINE H(b) ==
        /\ InHand(b)' =>
             /\ act'[b].workq \in Queue /\ act'[b].item \in kernhead'[act'[b].workq]
             /\ act'[b].item \notin kernel'
             /\ \A c \in Actor : InHand(c)' /\ c # b => act'[c].item # act'[b].item
        /\ act'[b].at \in {"post", "refused"} => ran'[act'[b].item] = 0
        /\ act'[b].at = "malloc" =>
             /\ b \in Adder /\ act'[b].workq \in Queue /\ act'[b].item \in Job
             /\ ran'[act'[b].item] = 0
             /\ \A p \in Queue : act'[b].item \notin OnList(p)' \cup kernhead'[p]
             /\ \A c \in Actor : act'[c].at = "malloc" /\ c # b => act'[c].item # act'[b].item
  <2>4. ASSUME NEW b \in Actor PROVE InHand(b)' <=> b = w \/ InHand(b)
    BY <1>1, <1>4, <1>5 DEF InHand
  <2>5. H(w)
    BY <1>1, <1>2, <1>3, <1>4, <1>5, <2>1, <2>4
  <2>6. ASSUME NEW b \in Actor, b # w PROVE H(b)
    <3>1. act'[b] = act[b] /\ kernhead' = kernhead /\ kernel' \subseteq kernel
      BY <1>2, <1>5, <2>6
    <3>2. InHand(b)' => /\ act[b].workq \in Queue /\ act[b].item \in kernhead[act[b].workq]
                        /\ act[b].item \notin kernel
      BY <2>4, <2>6 DEF WorkInv, HandInv
    <3>3. ASSUME InHand(b)', NEW c \in Actor, InHand(c)', c # b
          PROVE  act'[c].item # act'[b].item
      <4>1. InHand(b) /\ (c = w \/ (InHand(c) /\ act'[c] = act[c]))
        BY <1>5, <2>4, <2>6, <3>3
      <4> QED
        BY <1>4, <1>5, <2>1, <3>1, <3>3, <4>1 DEF WorkInv, HandInv
    <3>4. ASSUME act[b].at = "malloc"
          PROVE  /\ b \in Adder /\ act[b].workq \in Queue /\ act[b].item \in Job
                 /\ \A p \in Queue : act[b].item \notin OnList(p) \cup kernhead[p]
                 /\ \A c \in Actor : act'[c].at = "malloc" /\ c # b => act'[c].item # act[b].item
      BY <1>4, <1>5, <3>4 DEF WorkInv, HandInv
    <3> QED
      BY <1>6, <2>3, <2>6, <3>1, <3>2, <3>3, <3>4
  <2>7. \A b \in Actor : H(b)
    BY <2>5, <2>6
  <2> QED
    BY <2>7 DEF HandInv
<1>14. KernelCount'
  <2>1. Posting' = Posting
    BY <1>1, <1>4, <1>5 DEF Posting, At
  <2>2. /\ kernel_workq_count = Cardinality(kernel) + Cardinality(Posting)
        /\ kernel_workq_count <= ElemMax /\ IsFiniteSet(kernel) /\ IsFiniteSet(Posting)
        /\ ElemMax \in Nat
    BY WorkQueueAssumption DEF WorkInv, KernelCount
  <2>3. IsFiniteSet(kernel') /\ Cardinality(kernel') = Cardinality(kernel) - 1
    BY <1>1, <1>2, <2>2, FS_RemoveElement
  <2>4. Cardinality(kernel) \in Nat /\ Cardinality(Posting) \in Nat
    BY <2>2, FS_CardinalityType
  <2> QED
    BY <1>2, <2>1, <2>2, <2>3, <2>4 DEF KernelCount
<1>15. QueueCount'
  BY <1>2, <1>6 DEF WorkInv, QueueCount
<1> QED
  BY <1>9, <1>10, <1>11, <1>12, <1>13, <1>14, <1>15 DEF WorkInv

LEMMA WqExitInv ==
  ASSUME WorkInv, NEW w \in Worker, WqExit(w) PROVE WorkInv'
<1>0. PICK q, x : q = act[w].workq /\ x = act[w].item
  OBVIOUS
<1>1. w \in Actor /\ act \in [Actor -> WqThread] /\ act[w].at = "func"
  BY DEF Actor, WqExit, At, WorkInv, WqTypeOK
<1>2. /\ q \in Queue /\ x \in kernhead[q] /\ x \notin kernel
      /\ \A b \in Actor : InHand(b) /\ b # w => act[b].item # x
  BY <1>0, <1>1 DEF WorkInv, HandInv, InHand
<1>3. /\ kernhead' = [kernhead EXCEPT ![q] = kernhead[q] \ {x}]
      /\ kq_count' = [kq_count EXCEPT ![q] = kq_count[q] - 1]
      /\ kcounted' = kcounted \ {x} /\ itempool' = itempool + 1 /\ wqlock' = w
      /\ UNCHANGED <<wqhead, next_workq, wqreadyprio, listhead, kernel_workq_count, kernel, ran>>
  BY <1>0 DEF WqExit, PickAfterExit
<1>4. PICK r : Becomes(w, r) /\ r = [Resting EXCEPT !.at = "outer"]
  BY DEF WqExit, PickAfterExit
<1>5. r \in WqThread /\ r.at = "outer"
  <2>1. r = Locals("outer", 0, NONE, NONE, FALSE, FALSE, NONE)
    BY <1>4 DEF Resting, Locals
  <2> QED
    BY <2>1 DEF Locals, WqThread, WqPlaces
<1>6. /\ act' \in [Actor -> WqThread] /\ act'[w] = r
      /\ \A b \in Actor : b # w => act'[b] = act[b]
  BY <1>1, <1>4, <1>5, Acts
<1>7. /\ kernhead \in [Queue -> SUBSET Job] /\ kq_count \in [Queue -> Int]
      /\ kernhead'[q] = kernhead[q] \ {x} /\ kq_count'[q] = kq_count[q] - 1
      /\ \A p \in Queue : p # q => kernhead'[p] = kernhead[p] /\ kq_count'[p] = kq_count[p]
  BY <1>2, <1>3 DEF WorkInv, WqTypeOK
<1>8. \A p \in Queue : OnList(p)' = OnList(p) /\ x \notin OnList(p)
  BY <1>2, <1>3 DEF OnList, WorkInv, PlaceInv
<1>9. WqTypeOK'
  <2>1. kernhead' \in [Queue -> SUBSET Job] /\ kq_count' \in [Queue -> Int]
    BY <1>2, <1>3, <1>7
  <2> QED
    BY <1>1, <1>3, <1>6, <2>1 DEF WorkInv, WqTypeOK
<1>10. QueuesInv'
  BY <1>1, <1>3, <1>4, <1>5, RoundStep DEF WorkInv, WqTypeOK, Rounds
<1>11. PlaceInv'
  <2>1. ASSUME NEW p \in Queue
        PROVE  /\ Distinct(listhead'[p]) /\ OnList(p)' \cap kernhead'[p] = {}
               /\ kernhead'[p] \subseteq kcounted'
    <3>1. kernhead'[p] \subseteq kernhead[p] /\ x \notin kernhead'[p]
      BY <1>2, <1>7 DEF WorkInv, PlaceInv
    <3> QED
      BY <1>3, <1>8, <3>1 DEF WorkInv, PlaceInv
  <2>2. ASSUME NEW o \in Queue, NEW p \in Queue, o # p
        PROVE  (OnList(o)' \cup kernhead'[o]) \cap (OnList(p)' \cup kernhead'[p]) = {}
    BY <1>7, <1>8, <2>2 DEF WorkInv, PlaceInv
  <2>3. \A y \in kcounted' \cup kernel' : \E p \in Queue : y \in OnList(p)' \cup kernhead'[p]
    BY <1>2, <1>3, <1>7, <1>8 DEF WorkInv, PlaceInv
  <2>4. \A y \in kernel', p \in Queue : y \notin OnList(p)'
    BY <1>3, <1>8 DEF WorkInv, PlaceInv
  <2> QED
    BY <2>1, <2>2, <2>3, <2>4 DEF PlaceInv
<1>12. RanInv'
  BY <1>3, <1>8 DEF WorkInv, RanInv
<1>13. HandInv'
  <2>1. \A p \in Queue : /\ kernhead'[p] \subseteq kernhead[p]
                         /\ kernhead[p] \subseteq kernhead'[p] \cup {x}
    BY <1>7
  <2> QED
    BY <1>2, <1>3, <1>5, <1>6, <1>8, <2>1 DEF WorkInv, HandInv, InHand
<1>14. KernelCount'
  <2>1. Posting' = Posting
    BY <1>1, <1>5, <1>6 DEF Posting, At
  <2> QED
    BY <1>3, <2>1 DEF WorkInv, KernelCount
<1>15. QueueCount'
  <2> SUFFICES ASSUME NEW p \in Queue
               PROVE  /\ IsFiniteSet(kernhead'[p])
                      /\ kq_count'[p] = Cardinality(kernhead'[p])
                                        + Cardinality(OnList(p)' \cap kcounted')
    BY DEF QueueCount
  <2>1. /\ IsFiniteSet(kernhead[p])
        /\ kq_count[p] = Cardinality(kernhead[p]) + Cardinality(OnList(p) \cap kcounted)
    BY DEF WorkInv, QueueCount
  <2>2. OnList(p)' \cap kcounted' = OnList(p) \cap kcounted
    BY <1>3, <1>8
  <2>3. CASE p # q
    BY <1>7, <2>1, <2>2, <2>3
  <2>4. CASE p = q
    <3>1. kq_count[q] = Cardinality(kernhead[q]) + Cardinality(OnList(q) \cap kcounted)
      BY <2>1, <2>4
    <3>2. /\ IsFiniteSet(kernhead'[q]) /\ Cardinality(kernhead'[q]) = Cardinality(kernhead[q]) - 1
          /\ Cardinality(kernhead[q]) \in Nat
      BY <1>2, <1>7, <2>1, <2>4, FS_RemoveElement, FS_CardinalityType
    <3>3. Cardinality(OnList(q) \cap kcounted) \in Nat
      <4>1. listhead[q] \in Seq(Job) /\ Distinct(listhead[q])
        BY <1>2 DEF WorkInv, WqTypeOK, PlaceInv
      <4>2. IsFiniteSet(OnList(q) \cap kcounted)
        BY <4>1, ElemsCount, FS_Subset DEF OnList
      <4> QED
        BY <4>2, FS_CardinalityType
    <3>4. kq_count'[q] = Cardinality(kernhead'[q]) + Cardinality(OnList(q) \cap kcounted)
      BY <1>7, <3>1, <3>2, <3>3
    <3> QED
      BY <2>2, <2>4, <3>2, <3>4
  <2> QED
    BY <2>3, <2>4
<1> QED
  BY <1>9, <1>10, <1>11, <1>12, <1>13, <1>14, <1>15 DEF WorkInv
---------------------------------------------------------------------------
(* The theorem *)

LEMMA WorkInit_Inv ==
  ASSUME WorkInit PROVE WorkInv
<1>1. \A b \in Actor : act[b] = Resting
  BY DEF WorkInit
<1>2. \A q \in Queue : listhead[q] = <<>> /\ kernhead[q] = {} /\ OnList(q) = {}
  BY DEF WorkInit, OnList, Elems
<1>3. WqTypeOK
  <2>1. act \in [Actor -> WqThread]
    BY RestingType DEF WorkInit
  <2> QED
    BY <2>1, WorkQueueAssumption DEF WorkInit, WqTypeOK
<1>4. QueuesInv
  BY <1>1, RestingType DEF WorkInit, QueuesInv, Elems
<1>5. PlaceInv /\ RanInv
  <2>1. kcounted = {} /\ kernel = {} /\ \A x \in Job : ran[x] = 0
    BY DEF WorkInit
  <2>2. \A q \in Queue : Distinct(listhead[q])
    BY <1>2 DEF Distinct
  <2> QED
    BY <1>2, <2>1, <2>2 DEF PlaceInv, RanInv
<1>6. HandInv
  BY <1>1, RestingType DEF HandInv, InHand
<1>7. KernelCount
  <2>1. Posting = {} /\ kernel = {} /\ kernel_workq_count = 0 /\ ElemMax \in Nat
    BY <1>1, RestingType, WorkQueueAssumption DEF Posting, At, WorkInit
  <2> QED
    BY <2>1, FS_EmptySet DEF KernelCount
<1>8. QueueCount
  <2>1. \A q \in Queue : kq_count[q] = 0 /\ OnList(q) \cap kcounted = {}
    BY <1>2 DEF WorkInit
  <2>2. IsFiniteSet({}) /\ Cardinality({}) = 0
    BY FS_EmptySet
  <2>3. ASSUME NEW q \in Queue
        PROVE  /\ IsFiniteSet(kernhead[q])
               /\ kq_count[q] = Cardinality(kernhead[q]) + Cardinality(OnList(q) \cap kcounted)
    <3>1. kernhead[q] = {} /\ OnList(q) \cap kcounted = {} /\ kq_count[q] = 0
      BY <1>2, <2>1
    <3> QED
      BY <2>2, <3>1
  <2> QED
    BY <2>3 DEF QueueCount
<1> QED
  BY <1>3, <1>4, <1>5, <1>6, <1>7, <1>8 DEF WorkInv

LEMMA WorkNext_Inv ==
  ASSUME WorkInv, [WorkNext]_wqVars PROVE WorkInv'
<1>1. CASE UNCHANGED wqVars
  BY <1>1 DEF wqVars, WorkInv, WqTypeOK, QueuesInv, PlaceInv, RanInv, HandInv, InHand,
              KernelCount, QueueCount, OnList, Posting, At
<1>2. ASSUME NEW q \in Queue, CreateQueue(q) PROVE WorkInv'
  BY <1>2, CreateQueueInv
<1>3. ASSUME NEW a \in Adder, AddItemLocked(a) PROVE WorkInv'
  BY <1>3, AddItemLockedInv
<1>4. ASSUME NEW a \in Adder, NEW q \in Queue, NEW j \in Job, AddItem(a, q, j) PROVE WorkInv'
  BY <1>4, AddItemInv
<1>5. ASSUME NEW a \in Adder, NEW q \in Queue, NEW j \in Job, AddItemMalloc(a, q, j)
      PROVE  WorkInv'
  BY <1>5, AddItemMallocInv
<1>6. ASSUME NEW a \in Actor, Picks(a) PROVE WorkInv'
  BY <1>6, PickOuterInv, PickPrioInv, PickPostInv, PickNothingInv, PostTakenInv,
     PostRelockInv, PostRequeueInv, PickAfterInv, PickEndPrioInv, PickUnlockInv DEF Picks
<1>7. ASSUME NEW a \in Actor, PostRefused(a) PROVE WorkInv'
  BY <1>7, PostRefusedInv
<1>8. ASSUME NEW w \in Worker, WqExit(w) PROVE WorkInv'
  BY <1>8, WqExitInv
<1>9. ASSUME NEW w \in Worker, NEW x \in Job, WqStart(w, x) PROVE WorkInv'
  BY <1>9, WqStartInv
<1> QED
  BY <1>1, <1>2, <1>3, <1>4, <1>5, <1>6, <1>7, <1>8, <1>9 DEF WorkNext

LEMMA WorkInvIsSound ==
  ASSUME WorkInv PROVE WorkSound
<1>1. KernelBound
  BY DEF WorkInv, KernelCount, Posting, KernelBound
<1>2. ASSUME NEW q \in Queue PROVE listhead[q] \in Seq(Job) /\ Distinct(listhead[q])
  BY DEF WorkInv, WqTypeOK, PlaceInv
<1>3. KqCountExact
  <2> SUFFICES ASSUME NEW q \in Queue
               PROVE  kq_count[q] = Cardinality(kernhead[q]) +
                        Cardinality({i \in DOMAIN listhead[q] : listhead[q][i] \in kcounted})
    BY DEF KqCountExact
  <2>1. Cardinality({i \in DOMAIN listhead[q] : listhead[q][i] \in kcounted})
          = Cardinality(Elems(listhead[q]) \cap kcounted)
    BY <1>2, ElemsCount
  <2> QED
    BY <2>1 DEF WorkInv, QueueCount, OnList
<1>4. ASSUME NEW x \in Job
      PROVE  Cardinality({q \in Queue : x \in kernhead[q]})
             + Cardinality({q \in Queue : Contains(listhead[q], x)}) <= 1
  <2> DEFINE K == {q \in Queue : x \in kernhead[q]}
             L == {q \in Queue : Contains(listhead[q], x)}
  <2>1. \A q \in Queue : Contains(listhead[q], x) <=> x \in OnList(q)
    BY <1>2, ElemsContained DEF OnList
  <2>2. \/ K = {} /\ L = {}
        \/ \E q \in Queue : (K = {q} /\ L = {}) \/ (K = {} /\ L = {q})
    <3>1. CASE K = {}
      BY <2>1, <3>1 DEF WorkInv, PlaceInv
    <3>2. CASE K # {}
      <4>1. PICK q \in Queue : x \in kernhead[q]
        BY <3>2
      <4>2. K = {q} /\ L = {}
        BY <2>1, <4>1 DEF WorkInv, PlaceInv
      <4> QED
        BY <4>2
    <3> QED
      BY <3>1, <3>2
  <2>3. /\ Cardinality({}) = 0 /\ \A q \in Queue : Cardinality({q}) = 1
    BY FS_EmptySet, FS_Singleton
  <2> HIDE DEF K, L
  <2>4. Cardinality(K) + Cardinality(L) <= 1
    BY <2>2, <2>3
  <2> QED
    BY <2>4 DEF K, L
<1> QED
  BY <1>1, <1>3, <1>4 DEF WorkSound, WorkCounts, RunsOnce, WorkInv, RanInv

\* kernel_workq_count and the kq_counts of pthread.c are exact and no item is
\* lost or run twice, wherever pthread_workqueue_additem_np, post_nextworkitem
\* and workqueue_exit drop and retake the list lock, whatever the number of
\* threads, queues and items, and however often the kernel refuses an item.
THEOREM WorkIsSound == WorkSpec => []WorkSound
<1>1. WorkInit => WorkInv
  BY WorkInit_Inv
<1>2. WorkInv /\ [WorkNext]_wqVars => WorkInv'
  BY WorkNext_Inv
<1>3. WorkInv => WorkSound
  BY WorkInvIsSound
<1> QED
  BY <1>1, <1>2, <1>3, PTL DEF WorkSpec
============================================================================
