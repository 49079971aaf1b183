------------------------------ MODULE Sorting ------------------------------
(***************************************************************************)
(* qsort (src/core/qsort.c), mergesort (merge-fbsd.c) and bsearch          *)
(* (bsearch.c).  An element is a key and a tag that the comparison does    *)
(* not see; a place in an array is counted from 0, as in the code.  The    *)
(* thresholds of the code are constants, so that short arrays pass them.   *)
(***************************************************************************)
EXTENDS Question, SequencesExt, FiniteSets, Functions

CONSTANTS QSmall,          \* below this qsort inserts (7)
          QNinther,        \* above this it takes a median of medians (40)
          QStep,           \* the part of the array between its candidates (8)
          RunThreshold,    \* pairs in one direction that make a run (16)
          Patience,        \* steps before the search in mergesort doubles them (6)
          KeyLists         \* the arrays sorted, as sequences of keys

ElemAt(a, i) == a[i + 1]

Cmp(x, y) == x[1] - y[1]

CmpAt(a, i, j) == Cmp(ElemAt(a, i), ElemAt(a, j))

SwapAt(a, i, j) == [a EXCEPT ![i + 1] = a[j + 1], ![j + 1] = a[i + 1]]

\* Insert each element of lo .. lo + n - 1 among those before it.
RECURSIVE SinkAt(_, _, _)
SinkAt(a, lo, i) ==
  IF i > lo /\ CmpAt(a, i - 1, i) > 0 THEN SinkAt(SwapAt(a, i, i - 1), lo, i - 1) ELSE a

insertionsort(a, lo, n) ==
  FoldLeft(LAMBDA acc, i : SinkAt(acc, lo, lo + i), a, [i \in 1 .. n - 1 |-> i])
-----------------------------------------------------------------------------
med3(a, i, j, k) ==
  IF CmpAt(a, i, j) < 0
    THEN IF CmpAt(a, j, k) < 0 THEN j ELSE IF CmpAt(a, i, k) < 0 THEN k ELSE i
    ELSE IF CmpAt(a, j, k) > 0 THEN j ELSE IF CmpAt(a, i, k) < 0 THEN i ELSE k

\* The place of the element to divide by.
Pivot(a, lo, n) ==
  LET mid == lo + n \div 2
      hi == lo + n - 1
      d == n \div QStep
  IN  IF n <= QSmall THEN mid
      ELSE IF n <= QNinther THEN med3(a, lo, mid, hi)
      ELSE med3(a, med3(a, lo, lo + d, lo + 2 * d), med3(a, mid - d, mid, mid + d),
                   med3(a, hi - 2 * d, hi - d, hi))

\* Dividing: equal elements gather at both ends, before pa and after pd, smaller ones before
\* pb, greater ones after pc.
RECURSIVE FromLeft(_, _)
FromLeft(s, lo) ==
  IF s.pb > s.pc \/ CmpAt(s.a, s.pb, lo) > 0 THEN s
  ELSE IF CmpAt(s.a, s.pb, lo) = 0
    THEN FromLeft([s EXCEPT !.a = SwapAt(@, s.pa, s.pb), !.pa = @ + 1, !.pb = @ + 1, !.swapped = TRUE], lo)
  ELSE FromLeft([s EXCEPT !.pb = @ + 1], lo)

RECURSIVE FromRight(_, _)
FromRight(s, lo) ==
  IF s.pb > s.pc \/ CmpAt(s.a, s.pc, lo) < 0 THEN s
  ELSE IF CmpAt(s.a, s.pc, lo) = 0
    THEN FromRight([s EXCEPT !.a = SwapAt(@, s.pc, s.pd), !.pd = @ - 1, !.pc = @ - 1, !.swapped = TRUE], lo)
  ELSE FromRight([s EXCEPT !.pc = @ - 1], lo)

RECURSIVE Divide(_, _)
Divide(s, lo) ==
  LET t == FromRight(FromLeft(s, lo), lo)
  IN  IF t.pb > t.pc THEN t
      ELSE Divide([t EXCEPT !.a = SwapAt(@, t.pb, t.pc), !.pb = @ + 1, !.pc = @ - 1, !.swapped = TRUE], lo)

\* Exchange of r elements from i and from j on.
VecSwap(a, i, j, r) ==
  FoldLeft(LAMBDA acc, k : SwapAt(acc, i + k - 1, j + k - 1), a, [k \in 1 .. r |-> k])

Least2(x, y) == IF x < y THEN x ELSE y

RECURSIVE QsortPart(_, _, _)

\* Parts of one element need no sorting.
QsortIf(a, lo, n) == IF n > 1 THEN QsortPart(a, lo, n) ELSE a

QsortHalves(a, lo, less, pn, more) ==
  QsortIf(QsortIf(a, lo, less), pn - more, more)

\* s: what dividing lo .. pn - 1 came to.  The equal elements move to the middle.
QsortDivided(s, lo, pn) ==
  LET r1 == Least2(s.pa - lo, s.pb - s.pa)
      r2 == Least2(s.pd - s.pc, pn - s.pd - 1)
  IN  IF ~s.swapped THEN insertionsort(s.a, lo, pn - lo)
      ELSE QsortHalves(VecSwap(VecSwap(s.a, lo, s.pb - r1, r1), s.pb, pn - r2, r2),
                       lo, s.pb - s.pa, pn, s.pd - s.pc)

QsortPart(a, lo, n) ==
  IF n < QSmall THEN insertionsort(a, lo, n)
  ELSE QsortDivided(Divide([a |-> SwapAt(a, lo, Pivot(a, lo, n)), pa |-> lo + 1, pb |-> lo + 1,
                            pc |-> lo + n - 1, pd |-> lo + n - 1, swapped |-> FALSE], lo), lo, lo + n)

qsort(a) == QsortPart(a, 0, Len(a))
-----------------------------------------------------------------------------
\* mergesort.  `ends' is the list through list2: the place where each run ends.
ReverseRun(a, lo, hi) == [k \in DOMAIN a |-> IF k - 1 \in lo .. hi THEN a[lo + hi + 2 - k] ELSE a[k]]

Descends(a, i) == CmpAt(a, i, i + 1) > 0

\* The natural part: the runs within lo .. top - 1, all pairs of which go in direction sense.
\* A run ends where two neighbouring pairs do not.
NaturalRuns(s, lo, top, last, n, sense) ==
  LET cuts == {f \in lo + 2 .. top - 1 : (f - lo) % 2 = 0 /\ Descends(s.a, f - 1) # sense}
      starts == SetToSortSeq(cuts \cup {lo, top}, <)
      turned == IF ~sense THEN s.a
                ELSE FoldLeft(LAMBDA acc, k : ReverseRun(acc, starts[k], starts[k + 1] - 1), s.a,
                              [k \in 1 .. Len(starts) - 1 |-> k])
      joins == top >= last /\ ~(CmpAt(turned, top - 1, top) > 0)
  IN  [a |-> turned, ends |-> s.ends \o SubSeq(starts, 2, Len(starts) - 1)
                              \o <<IF joins THEN n ELSE top>>, at |-> top]

\* Pairs that are too few for a run are put in order one by one.
PairRuns(s, lo, top, sense) ==
  LET pairs == [k \in 1 .. (top - lo) \div 2 |-> lo + 2 * (k - 1)]
  IN  [a |-> IF sense THEN FoldLeft(LAMBDA acc, f : SwapAt(acc, f, f + 1), s.a, pairs) ELSE s.a,
       ends |-> s.ends \o [k \in DOMAIN pairs |-> pairs[k] + 2], at |-> top]

RECURSIVE SetupFrom(_, _, _, _)
SetupFrom(s, sense, last, n) ==
  IF s.at >= last THEN s
  ELSE LET breaks == {f \in s.at + 2 .. last - 1 : (f - s.at) % 2 = 0 /\ Descends(s.a, f) # sense}
           top == IF breaks = {} THEN last ELSE CHOOSE f \in breaks : \A g \in breaks : f <= g
           t == IF top - s.at < RunThreshold THEN PairRuns(s, s.at, top, sense)
                ELSE NaturalRuns(s, s.at, top, last, n, sense)
       IN  SetupFrom(t, ~sense, last, n)

\* The last four or five elements are a run of their own.
SetupRuns(b, n, i) == SetupFrom([a |-> b, ends |-> <<>>, at |-> 0], Descends(b, 0), n - i, n)

WithLast(s, n) == [a |-> s.a, ends |-> IF s.ends[Len(s.ends)] = n THEN s.ends ELSE Append(s.ends, n)]

setup(a) ==
  LET n == Len(a)
      i == 4 + (n % 2)
  IN  IF n <= 5 THEN [a |-> insertionsort(a, 0, n), ends |-> <<n>>]
      ELSE WithLast(SetupRuns(insertionsort(a, n - i, i), n, i), n)

\* Whether q goes before the element at p of the other run: at or before it when q is of the
\* first run, before it otherwise.
Stops(a, q, p, sense) == CmpAt(a, q, p) <= sense

\* The search for the place of q in b + 1 .. t, one by one at first.
RECURSIVE Halve(_, _, _, _, _)
Halve(a, q, b, t, sense) ==
  IF t <= b + 1 THEN t
  ELSE LET p == b + (t - b) \div 2
       IN  IF Stops(a, q, p, sense) THEN Halve(a, q, b, p, sense) ELSE Halve(a, q, p, t, sense)

RECURSIVE HalveStep(_, _, _, _, _, _)
HalveStep(a, q, b, t, i, sense) ==
  IF i <= 1 THEN t
  ELSE LET p == b + i \div 2
       IN  IF Stops(a, q, p, sense) THEN HalveStep(a, q, b, p, i \div 2, sense)
           ELSE HalveStep(a, q, p, t, i \div 2, sense)

RECURSIVE Exponential(_, _, _, _, _, _)
Exponential(a, q, b, t, i, sense) ==
  LET p == b + i
  IN  IF p >= t
        THEN [at |-> IF t - 1 > b /\ Stops(a, q, t - 1, sense) THEN Halve(a, q, b, t - 1, sense) ELSE t, big |-> TRUE]
      ELSE IF Stops(a, q, p, sense)
        THEN [at |-> HalveStep(a, q, b, p, i, sense), big |-> i # 1]
      ELSE Exponential(a, q, p, t, 2 * i, sense)

RECURSIVE OneByOne(_, _, _, _, _, _)
OneByOne(a, q, b, t, i, sense) ==
  IF b + 1 >= t \/ Stops(a, q, b + 1, sense) THEN [at |-> b + 1, big |-> FALSE]
  ELSE IF i + 1 = Patience THEN Exponential(a, q, b + 1, t, 1, sense)
  ELSE OneByOne(a, q, b + 1, t, i + 1, sense)

\* The place a run of elements that go before q ends.
PlaceFor(a, q, b, t, sense, big) ==
  IF big THEN Exponential(a, q, b, t, 1, sense) ELSE OneByOne(a, q, b, t, 0, sense)

\* Two runs, f1 .. l1 - 1 and f2 .. l2 - 1, into out.
RECURSIVE MergeRuns(_, _, _, _, _, _, _)
MergeRuns(a, f1, l1, f2, l2, out, big) ==
  IF ~(f1 < l1 /\ f2 < l2)
    THEN [out |-> out \o SubSeq(a, f1 + 1, l1) \o SubSeq(a, f2 + 1, l2), big |-> big]
  ELSE IF CmpAt(a, f1, f2) <= 0
    THEN LET s == PlaceFor(a, f2, f1, l1, -1, big)
         IN  MergeRuns(a, s.at, l1, f2 + 1, l2, out \o SubSeq(a, f1 + 1, s.at) \o <<a[f2 + 1]>>, s.big)
  ELSE LET s == PlaceFor(a, f1, f2, l2, 0, big)
       IN  MergeRuns(a, f1 + 1, l1, s.at, l2, out \o SubSeq(a, f2 + 1, s.at) \o <<a[f1 + 1]>>, s.big)

\* One pass merges runs two by two.
RECURSIVE MergePass(_, _, _, _)
MergePass(s, k, out, ends) ==
  IF k > Len(s.ends) THEN [a |-> out, ends |-> ends, big |-> s.big]
  ELSE LET from == IF k = 1 THEN 0 ELSE s.ends[k - 1]
           l1 == s.ends[k]
           l2 == IF k < Len(s.ends) THEN s.ends[k + 1] ELSE l1
           m == MergeRuns(s.a, from, l1, l1, l2, <<>>, s.big)
       IN  MergePass([s EXCEPT !.big = m.big], k + 2, out \o m.out, Append(ends, l2))

RECURSIVE MergePasses(_)
MergePasses(s) == IF Len(s.ends) = 1 THEN s.a ELSE MergePasses(MergePass(s, 1, <<>>, <<>>))

MergeSetup(s) == MergePasses([a |-> s.a, ends |-> s.ends, big |-> FALSE])

mergesort(a) == IF a = <<>> THEN a ELSE MergeSetup(setup(a))
-----------------------------------------------------------------------------
\* The place of key in an ordered array, -1 for none.
RECURSIVE SearchFrom(_, _, _, _)
SearchFrom(key, a, base, lim) ==
  IF lim = 0 THEN -1
  ELSE LET p == base + lim \div 2
           c == key - ElemAt(a, p)[1]
       IN  IF c = 0 THEN p
           ELSE IF c > 0 THEN SearchFrom(key, a, p + 1, (lim - 1) \div 2)
           ELSE SearchFrom(key, a, base, lim \div 2)

bsearch(key, a) == SearchFrom(key, a, 0, Len(a))
-----------------------------------------------------------------------------
SortInit == (\E keys \in KeyLists : question = <<"sort", keys>>) /\ Unanswered

Tagged(keys) == [i \in DOMAIN keys |-> <<keys[i], i>>]

SortedBy(a, sorted) ==
  [quick |-> qsort(a), merge |-> sorted, found |-> [key \in 0 .. 4 |-> bsearch(key, sorted)]]

SortAnswer(q) == SortedBy(Tagged(q[2]), mergesort(Tagged(q[2])))

SortCompute == question[1] = "sort" /\ Ask(SortAnswer)

\* qsort (qsort.c:84) and mergesort (merge-fbsd.c:95) give the elements in order, each once;
\* mergesort keeps those that compare equal in the order they had, through runs that are
\* found or reversed, pairs, and searches that double their steps; bsearch (bsearch.c:49)
\* finds a key just if it is there.
SortExact ==
  question[1] = "sort" /\ ~Unanswered =>
    LET n == Len(question[2])
        ordered(a) == \A i \in 1 .. n - 1 : a[i][1] <= a[i + 1][1]
        whole(a) == Len(a) = n /\ ToSet(a) = ToSet(Tagged(question[2]))
    IN  /\ ordered(answer.quick) /\ whole(answer.quick)
        /\ ordered(answer.merge) /\ whole(answer.merge)
        /\ \A i \in 1 .. n - 1 : answer.merge[i][1] = answer.merge[i + 1][1] => answer.merge[i][2] < answer.merge[i + 1][2]
        /\ \A key \in 0 .. 4 :
             IF answer.found[key] = -1 THEN key \notin ToSet(question[2])
             ELSE ElemAt(answer.merge, answer.found[key])[1] = key
=============================================================================
