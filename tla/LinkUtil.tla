------------------------------ MODULE LinkUtil ------------------------------
(***************************************************************************)
(* How the linker reads the tables of an image: the two binary searches of *)
(* a classic symbol table, the walk of the export trie, and the variable   *)
(* length integers.  A name is a sequence of letters; comparing two names  *)
(* is strcmp.                                                              *)
(***************************************************************************)
EXTENDS Question, FiniteSets, SequencesExt

CONSTANTS Names,         \* the names there may be in a table
          Slice,         \* payload bits of a byte (7)
          IntBits,       \* bits of the accumulator (64)
          PtrBits,       \* bits of uintptr_t (32)
          MaxBytes       \* bound on the bytes fed to a reader

\* strcmp: -1, 0 or 1.  The end of a name is below every letter.
RECURSIVE strcmp(_, _)
strcmp(s, t) ==
  CASE s = <<>> /\ t = <<>> -> 0
    [] s = <<>> /\ t # <<>> -> -1
    [] s # <<>> /\ t = <<>> -> 1
    [] OTHER -> IF Head(s) < Head(t) THEN -1
                ELSE IF Head(s) > Head(t) THEN 1
                ELSE strcmp(Tail(s), Tail(t))

\* The loop of binary_search_toc over low, high and mid, zero based; the
\* answer is an index or -1.
RECURSIVE TocLoop(_, _, _, _, _)
TocLoop(key, toc, low, high, mid) ==
  IF low > high THEN -1
  ELSE LET cmp == strcmp(key, toc[mid + 1])
       IN  CASE cmp = 0 -> mid
             [] cmp > 0 -> TocLoop(key, toc, mid + 1, high,
                                   (mid + 1 + high) \div 2)
             [] cmp < 0 -> TocLoop(key, toc, low, mid - 1,
                                   (low + mid - 1) \div 2)

\* The search starts at a hint when it is in range.
StartAt(hint, n) == IF hint >= n THEN n \div 2 ELSE hint

binary_search_toc(key, toc, hint) ==
  TocLoop(key, toc, 0, Len(toc) - 1, StartAt(hint, Len(toc)))

\* Halving without a low bound: above the pivot both halves shrink by one.
Remaining(n, above) == IF above THEN (n - 1) \div 2 ELSE n \div 2

RECURSIVE SearchLoop(_, _, _, _)
SearchLoop(key, symbols, base, n) ==
  IF n = 0 THEN -1
  ELSE LET pivot == base + n \div 2
           cmp == strcmp(key, symbols[pivot + 1])
       IN  IF cmp = 0 THEN pivot
           ELSE SearchLoop(key, symbols, IF cmp > 0 THEN pivot + 1 ELSE base,
                           Remaining(n, cmp > 0))

binary_search(key, symbols) == SearchLoop(key, symbols, 0, Len(symbols))

\* A set of names as the static linker sorts it.
RECURSIVE Sorted(_)
Sorted(names) ==
  IF names = {} THEN <<>>
  ELSE LET least == CHOOSE n \in names : \A m \in names : strcmp(n, m) <= 0
       IN  <<least>> \o Sorted(names \ {least})
-----------------------------------------------------------------------------
\* The export trie the static linker writes for a set of names: a node is
\* the prefix that leads to it, kept where a name ends or names part.
Nodes(names) ==
  LET prefixes == UNION {{SubSeq(n, 1, k) : k \in 0 .. Len(n)} : n \in names}
      next(p)  == {n[Len(p) + 1] : n \in {m \in names : IsStrictPrefix(p, m)}}
  IN  {<<>>} \cup {p \in prefixes : p \in names \/ Cardinality(next(p)) > 1}

\* The edges out of a node, each the letters up to the nearest node below.
Edges(names, p) ==
  LET below == {q \in Nodes(names) : IsStrictPrefix(p, q)}
      near  == {q \in below : ~\E r \in below : IsStrictPrefix(r, q)}
  IN  Sorted({SubSeq(q, Len(p) + 1, Len(q)) : q \in near})

\* The first child whose whole edge the rest of the symbol starts with.
MatchingEdge(edges, s) ==
  LET hits == {i \in DOMAIN edges : IsPrefix(edges[i], s)}
  IN  IF hits = {} THEN <<>> ELSE edges[CHOOSE i \in hits : \A j \in hits : i <= j]

\* The node a terminal was found in, or NONE.
RECURSIVE trie_walk(_, _, _)
trie_walk(names, p, s) ==
  IF s = <<>> /\ p \in names THEN p
  ELSE LET e == MatchingEdge(Edges(names, p), s)
       IN  IF e = <<>> THEN NONE
           ELSE trie_walk(names, p \o e, SubSeq(s, Len(e) + 1, Len(s)))
-----------------------------------------------------------------------------
More(byte) == byte >= 2^Slice

\* [value, next] or "halt": value is what the function returns, next how
\* many bytes it took.
Taken(value, n) == [value |-> value % 2^PtrBits, next |-> n]

Malformed == [value |-> -1, next |-> 0]

RECURSIVE UlebLoop(_, _, _, _)
UlebLoop(bytes, i, bit, result) ==
  IF i = Len(bytes) \/ bit > IntBits - 1 THEN Malformed
  ELSE LET byte == bytes[i + 1]
           sum  == (result + (byte % 2^Slice) * 2^bit) % 2^IntBits
       IN  IF More(byte) THEN UlebLoop(bytes, i + 1, bit + Slice, sum)
           ELSE Taken(sum, i + 1)

read_uleb128(bytes) == UlebLoop(bytes, 0, 0, 0)

\* The slice is shifted as an int: past PtrBits bits its value is undefined,
\* and no encoding of a pointer is that long.
SlebFits(bytes, i) == i * Slice < PtrBits

\* The bits above the last slice are those of its sign.
SignExtend(byte, bit, sum) ==
  IF byte % 2^Slice >= 2^(Slice - 1) THEN sum - 2^bit ELSE sum

RECURSIVE SlebLoop(_, _, _, _)
SlebLoop(bytes, i, bit, result) ==
  IF i = Len(bytes) THEN Malformed
  ELSE LET byte == bytes[i + 1]
           sum  == result + (byte % 2^Slice) * 2^bit
       IN  IF More(byte) THEN SlebLoop(bytes, i + 1, bit + Slice, sum)
           ELSE Taken(SignExtend(byte, bit + Slice, sum), i + 1)

read_sleb128(bytes) == SlebLoop(bytes, 0, 0, 0)
-----------------------------------------------------------------------------
UtilKinds == {"toc", "symbols", "trie", "leb"}

LebBytes == 0 .. 2^(Slice + 1) - 1

UtilInit ==
  /\ Unanswered
  /\ \/ \E t \in SUBSET Names, k \in Names, h \in 0 .. Cardinality(Names) :
          question = <<"toc", t, k, h>>
     \/ \E t \in SUBSET Names, k \in Names : question = <<"symbols", t, k>>
     \/ \E t \in SUBSET (Names \ {<<>>}), k \in Names :
          question = <<"trie", t, k>>
     \/ \E n \in 0 .. MaxBytes : \E b \in [1 .. n -> LebBytes] :
          question = <<"leb", b>>

UtilAnswer(q) ==
  CASE q[1] = "toc"     -> binary_search_toc(q[3], Sorted(q[2]), q[4])
    [] q[1] = "symbols" -> binary_search(q[3], Sorted(q[2]))
    [] q[1] = "trie"    -> <<trie_walk(q[2], <<>>, q[3])>>
    [] q[1] = "leb"     -> <<read_uleb128(q[2]), read_sleb128(q[2])>>

LinkCompute == question[1] \in UtilKinds /\ Ask(UtilAnswer)

\* Where a sorted table has the key: as many names are below it.
PlaceOf(names, key) ==
  IF key \in names THEN Cardinality({n \in names : strcmp(n, key) < 0}) ELSE -1

\* The number a byte string stands for, as the sum of its slices.
RECURSIVE SliceSum(_, _)
SliceSum(bytes, n) ==
  IF n = 0 THEN 0
  ELSE SliceSum(bytes, n - 1) + (bytes[n] % 2^Slice) * 2^(Slice * (n - 1))

LebRight(bytes, u, s) ==
  LET ends == {i \in DOMAIN bytes : bytes[i] < 2^Slice}
      last == CHOOSE i \in ends : \A j \in ends : i <= j
      sum  == SliceSum(bytes, last)
      signed == IF 2 * sum >= 2^(Slice * last) THEN sum - 2^(Slice * last)
                ELSE sum
  IN  IF ends = {} THEN u = Malformed /\ s = Malformed
      ELSE /\ u = (IF (last - 1) * Slice < IntBits
                   THEN Taken(sum % 2^IntBits, last) ELSE Malformed)
           /\ SlebFits(bytes, last - 1) => s = Taken(signed, last)

(***************************************************************************)
(* A search finds a name exactly when the table has it, at its place, from *)
(* every hint; the trie walk ends at the name or nowhere, for every way    *)
(* names share prefixes; a variable length integer is the number its       *)
(* slices spell and takes the bytes up to the last, and one that is cut    *)
(* short is refused.                                                       *)
(***************************************************************************)
TablesExact ==
  answer # NONE /\ question[1] \in UtilKinds =>
    CASE question[1] \in {"toc", "symbols"} ->
           answer = PlaceOf(question[2], question[3])
      [] question[1] = "trie" ->
           answer = IF question[3] \in question[2] THEN <<question[3]>>
                    ELSE <<NONE>>
      [] question[1] = "leb" -> LebRight(question[2], answer[1], answer[2])
=============================================================================
