------------------------------ MODULE Dlmalloc ------------------------------
(***************************************************************************)
(* dlmalloc, the allocator under malloc_zone: boundary tags, small bins,   *)
(* tree bins, the designated victim (dv), the top chunk, segments got with *)
(* mmap, and blocks mapped on their own.  Sizes and addresses are those of *)
(* a 32-bit build with fewer bits: the granularity, the thresholds and the *)
(* number of bins are constants.                                           *)
(*                                                                         *)
(* An operation is a function from a heap and what the system answers to a *)
(* heap and a chunk, 0 when it fails; an action applies it.  A chunk's     *)
(* address stands for the block in it, 8 bytes on.                         *)
(***************************************************************************)
EXTENDS Integers, SequencesExt, FiniteSets, TLC

(***************************************************************************)
(* The tree bins of dlmalloc: free chunks of at least MIN_LARGE_SIZE, in   *)
(* bitwise tries, one for each half of a power of two.  A node has the     *)
(* chunks of one size: the tree chunk itself, then those chained to it in  *)
(* the order they came.  Scaled down: SIZE_T_BITSIZE, TREEBIN_SHIFT and    *)
(* NTREEBINS are constants.                                                *)
(***************************************************************************)
CONSTANTS SIZE_T_BITSIZE, TREEBIN_SHIFT, NTREEBINS

MAX_SIZE_T == 2^SIZE_T_BITSIZE - 1

Unsigned(n) == n % 2^SIZE_T_BITSIZE

Log2(x) == CHOOSE k \in 0 .. SIZE_T_BITSIZE : 2^k <= x /\ x < 2^(k + 1)

compute_tree_index(s) ==
  LET x == s \div 2^TREEBIN_SHIFT    k == Log2(x)
  IN  IF x = 0 THEN 0
      ELSE IF x > 2^(NTREEBINS \div 2) - 1 THEN NTREEBINS - 1
      ELSE 2 * k + ((s \div 2^(k + TREEBIN_SHIFT - 1)) % 2)

\* The first bit of a size that tells children apart in bin i.
FirstBit(i) ==
  IF i = NTREEBINS - 1 THEN SIZE_T_BITSIZE - 1
  ELSE (i \div 2) + TREEBIN_SHIFT - 2

BitOf(s, b) == IF b < 0 THEN 0 ELSE (s \div 2^b) % 2

NoTree == <<>>

Leaf(s, x) == [size |-> s, ring |-> <<x>>, child |-> <<NoTree, NoTree>>]

\* insert_large_chunk from node t on, b the bit that chooses the child.
RECURSIVE TreeInsert(_, _, _, _)
TreeInsert(t, x, s, b) ==
  IF t = NoTree THEN Leaf(s, x)
  ELSE IF t.size = s THEN [t EXCEPT !.ring = Append(@, x)]
  ELSE [t EXCEPT !.child[BitOf(s, b) + 1] = TreeInsert(@, x, s, b - 1)]

\* The side on which the replacement of a node is looked for.
RightFirst(t) == IF t.child[2] # NoTree THEN 2 ELSE 1

RECURSIVE Rightmost(_)
Rightmost(t) ==
  IF t.child = <<NoTree, NoTree>> THEN t ELSE Rightmost(t.child[RightFirst(t)])

RECURSIVE WithoutRightmost(_)
WithoutRightmost(t) ==
  IF t.child = <<NoTree, NoTree>> THEN NoTree
  ELSE [t EXCEPT !.child[RightFirst(t)] = WithoutRightmost(@)]

\* A child moves up in the place of its parent, whatever its bits.
ReplaceByChild(t) ==
  IF t.child = <<NoTree, NoTree>> THEN NoTree
  ELSE LET r == t.child[RightFirst(t)]
       IN  [r EXCEPT !.child[1] = IF RightFirst(t) = 2 THEN t.child[1] ELSE @]

\* A node that loses its last chunk is replaced by a leaf below it, so that
\* every size stays where its bits lead.
ReplaceByLeaf(t) ==
  IF t.child = <<NoTree, NoTree>> THEN NoTree
  ELSE LET r == Rightmost(t)
       IN  [WithoutRightmost(t) EXCEPT !.size = r.size, !.ring = r.ring]

\* unlink_large_chunk.  The code has the address of the node; here its size
\* leads to it.
RECURSIVE TreeUnlink(_, _, _, _)
TreeUnlink(t, x, s, b) ==
  IF t.size # s THEN [t EXCEPT !.child[BitOf(s, b) + 1] = TreeUnlink(@, x, s, b - 1)]
  ELSE IF Len(t.ring) > 1 THEN [t EXCEPT !.ring = SelectSeq(@, LAMBDA y : y # x)]
  ELSE ReplaceByLeaf(t)

\* The better of a candidate and node t, for a request of nb.
Better(best, t, nb) ==
  LET trem == Unsigned(t.size - nb)
  IN  IF trem < best.rsize THEN [v |-> t.ring[1], rsize |-> trem] ELSE best

NoFit(nb) == [v |-> 0, rsize |-> Unsigned(-nb)]

\* The first loop of tmalloc_large: down the path of nb, to an exact fit or
\* the end; `rst' is the deepest right subtree not taken.
RECURSIVE SearchPath(_, _, _, _, _)
SearchPath(t, nb, b, best, rst) ==
  LET best2 == Better(best, t, nb)
      next  == t.child[BitOf(nb, b) + 1]
      rst2  == IF t.child[2] # NoTree /\ BitOf(nb, b) = 0 THEN t.child[2] ELSE rst
  IN  IF best2.v # 0 /\ best2.rsize = 0 THEN [best |-> best2, t |-> t]
      ELSE IF next = NoTree THEN [best |-> best2, t |-> rst2]
      ELSE SearchPath(next, nb, b - 1, best2, rst2)

\* The smallest of a subtree is on its leftmost path.
RECURSIVE SearchLeft(_, _, _)
SearchLeft(t, nb, best) ==
  IF t = NoTree THEN best
  ELSE SearchLeft(IF t.child[1] # NoTree THEN t.child[1] ELSE t.child[2], nb,
                  Better(best, t, nb))

\* The first marked bin from i on.
NextBin(trees, i) ==
  LET marked == {j \in i .. NTREEBINS - 1 : trees[j] # NoTree}
  IN  IF marked = {} THEN NoTree
      ELSE trees[CHOOSE j \in marked : \A k \in marked : j <= k]

\* The second half of tmalloc_large: what the path left to look at, or the next bin.
BestFrom(trees, nb, idx, first) ==
  SearchLeft(IF first.t = NoTree /\ first.best.v = 0 THEN NextBin(trees, idx + 1) ELSE first.t,
             nb, first.best)

\* The chunk tmalloc_large finds: [v, rsize], v = 0 when there is none.
BestFit(trees, nb) ==
  LET idx == compute_tree_index(nb)
  IN  BestFrom(trees, nb, idx,
               IF trees[idx] = NoTree THEN [best |-> NoFit(nb), t |-> NoTree]
               ELSE SearchPath(trees[idx], nb, FirstBit(idx), NoFit(nb), NoTree))

\* The chunk tmalloc_small finds: the smallest there is.
LeastFit(trees, nb) == SearchLeft(NextBin(trees, 0), nb, NoFit(nb))

\* All chunks of a tree, as pairs of address and size.
RECURSIVE TreeChunks(_)
TreeChunks(t) ==
  IF t = NoTree THEN {}
  ELSE {<<x, t.size>> : x \in Range(t.ring)}
       \cup TreeChunks(t.child[1]) \cup TreeChunks(t.child[2])
-----------------------------------------------------------------------------

CONSTANTS Granularity,       \* mparams.granularity, and the page size
          MmapThreshold, TrimThreshold, MaxReleaseChecks,
          Answers,           \* what the system may answer: see below
          Warmups,           \* sequences of sizes allocated at the start
          Requests,          \* sizes asked for
          Alignments,        \* of memalign
          MaxCalls           \* bound on the calls of a behaviour

VARIABLES heap,    \* malloc_state and the chunks' heads and feet
          live,    \* the blocks in use: chunk -> bytes asked for
          half,    \* the calls between two holds of the lock
          calls    \* calls made

dlVars == <<heap, live, half, calls>>

MIN_CHUNK_SIZE == 16

MIN_LARGE_SIZE == 2^TREEBIN_SHIFT

MAX_REQUEST == MAX_SIZE_T + 1 - 4 * MIN_CHUNK_SIZE

SEGMENT_SIZE == 24       \* pad_request(sizeof(struct malloc_segment))

TOP_FOOT_SIZE == SEGMENT_SIZE + MIN_CHUNK_SIZE

MMAP_FOOT_PAD == 16

Align(n, a) == ((n + a - 1) \div a) * a

pad_request(bytes) == Align(bytes + 4, 8)

request2size(bytes) == IF bytes < 11 THEN MIN_CHUNK_SIZE ELSE pad_request(bytes)

is_small(s) == s < MIN_LARGE_SIZE

\* malloc_state before the first call.  A segment is [base, size, rec], rec
\* the chunk that has its record (0: in malloc_state).  `lost' are mappings
\* that could not be unmapped, `raced' a note, for HeapSound, of ComallocCut.
EmptyHeap ==
  [segs |-> <<>>, head |-> <<>>, foot |-> <<>>,
   small |-> [i \in 0 .. MIN_LARGE_SIZE \div 8 - 1 |-> <<>>],
   tree |-> [i \in 0 .. NTREEBINS - 1 |-> NoTree],
   dv |-> 0, dvsize |-> 0, top |-> 0, topsize |-> 0,
   footprint |-> 0, trim |-> 0, checks |-> 0, mapped |-> <<>>, lost |-> {},
   raced |-> FALSE]

Failed(h) == [h |-> h, p |-> 0]

Got(h, p) == [h |-> h, p |-> p]
-----------------------------------------------------------------------------
\* The heads and feet of chunks.  A head is [size, c, p]: its own in-use bit
\* and the one of the chunk before it; a foot repeats the size of a free
\* chunk in front of the next one.
Tag(size, c, p) == [size |-> size, c |-> c, p |-> p]

SetHead(h, p, head) == [h EXCEPT !.head = (p :> head) @@ @]

\* The word at p, garbage unless it is a head.
HeadAt(h, p) == IF p \in DOMAIN h.head THEN h.head[p] ELSE Tag(0, FALSE, FALSE)

SetPinuse(h, p, bit) == SetHead(h, p, [HeadAt(h, p) EXCEPT !.p = bit])

set_inuse(h, p, s) ==
  SetPinuse(SetHead(h, p, Tag(s, TRUE, HeadAt(h, p).p)), p + s, TRUE)

set_inuse_and_pinuse(h, p, s) ==
  SetPinuse(SetHead(h, p, Tag(s, TRUE, TRUE)), p + s, TRUE)

set_size_and_pinuse_of_inuse_chunk(h, p, s) == SetHead(h, p, Tag(s, TRUE, TRUE))

set_size_and_pinuse_of_free_chunk(h, p, s) ==
  [SetHead(h, p, Tag(s, FALSE, TRUE)) EXCEPT !.foot = ((p + s) :> s) @@ @]

set_free_with_pinuse(h, p, s, next) ==
  set_size_and_pinuse_of_free_chunk(SetPinuse(h, next, FALSE), p, s)

chunksize(h, p) == h.head[p].size

is_mmapped(h, p) == ~h.head[p].c /\ ~h.head[p].p

\* What a block can hold: overhead_for is a word, or two when mapped.
UsableSize(h, p) == chunksize(h, p) - (IF is_mmapped(h, p) THEN 8 ELSE 4)
-----------------------------------------------------------------------------
insert_chunk(h, p, s) ==
  IF is_small(s) THEN [h EXCEPT !.small[s \div 8] = <<p>> \o @]
  ELSE LET i == compute_tree_index(s)
       IN  [h EXCEPT !.tree[i] = TreeInsert(@, p, s, FirstBit(i))]

unlink_chunk(h, p, s) ==
  IF is_small(s) THEN [h EXCEPT !.small[s \div 8] = SelectSeq(@, LAMBDA q : q # p)]
  ELSE LET i == compute_tree_index(s)
       IN  [h EXCEPT !.tree[i] = TreeUnlink(@, p, s, FirstBit(i))]

SetDv(h, p, s) == [h EXCEPT !.dv = p, !.dvsize = s]

replace_dv(h, p, s) ==
  SetDv(IF h.dvsize # 0 THEN insert_chunk(h, h.dv, h.dvsize) ELSE h, p, s)

\* top, whose head says that what is before it is in use.
SetTop(h, p, s) ==
  SetHead([h EXCEPT !.top = p, !.topsize = s], p, Tag(s, FALSE, TRUE))

init_top(h, p, s) == [SetTop(h, p, s) EXCEPT !.trim = TrimThreshold]

\* Give nb bytes at the front of the free chunk p of nb + rsize bytes; a
\* remainder too small to be a chunk goes along, any other goes to a
\* bin, becomes the dv in place of another one, or stays the dv.
Split(h, p, nb, rsize, goes) ==
  LET g == set_size_and_pinuse_of_free_chunk(
             set_size_and_pinuse_of_inuse_chunk(h, p, nb), p + nb, rsize)
  IN  CASE rsize < MIN_CHUNK_SIZE -> set_inuse_and_pinuse(h, p, nb + rsize)
        [] goes = "to a bin" -> insert_chunk(g, p + nb, rsize)
        [] goes = "replaces dv" -> replace_dv(g, p + nb, rsize)
        [] goes = "stays dv" -> SetDv(g, p + nb, rsize)
-----------------------------------------------------------------------------
\* The system.  mmap gives the spot it chooses, if the range is free there.
Ranges(h) ==
  {<<h.segs[i].base, h.segs[i].size>> : i \in DOMAIN h.segs}
  \cup {<<h.mapped[p].mm, h.mapped[p].size>> : p \in DOMAIN h.mapped}
  \cup h.lost

Overlap(r, s) == r[1] < s[1] + s[2] /\ s[1] < r[1] + r[2]

Maps(h, n, os) ==
  /\ os.at # 0 /\ os.at + n - 1 <= MAX_SIZE_T
  /\ \A r \in Ranges(h) : ~Overlap(r, <<os.at, n>>)

\* A block of its own.
mmap_alloc(h, nb, os) ==
  LET mmsize == Align(Unsigned(nb + 31), Granularity)
  IN  IF mmsize > nb /\ os.direct /\ Maps(h, mmsize, os)
      THEN Got([SetHead(h, os.at, Tag(mmsize - MMAP_FOOT_PAD, FALSE, FALSE))
                EXCEPT !.mapped = (os.at :> [mm |-> os.at, size |-> mmsize]) @@ @,
                       !.footprint = @ + mmsize], os.at)
      ELSE Failed(h)

\* Without mremap a mapped block is kept when it is big enough and not too
\* big, and given up otherwise.
mmap_resize(h, p, nb) ==
  IF ~is_small(nb) /\ chunksize(h, p) >= nb + 4
     /\ chunksize(h, p) - nb <= 2 * Granularity
  THEN p ELSE 0

\* munmap of a block of its own; one that fails leaves the range lost.
Unmap(h, p, os) ==
  LET r == h.mapped[p]
      g == [h EXCEPT !.mapped = [q \in DOMAIN @ \ {p} |-> @[q]]]
  IN  IF os.unmap THEN [g EXCEPT !.footprint = @ - r.size]
      ELSE [g EXCEPT !.lost = @ \cup {<<r.mm, r.size>>}]
-----------------------------------------------------------------------------
\* New memory in front of a segment: the block first, the rest with what
\* the segment started with.
prepend_alloc(h, newbase, oldbase, nb) ==
  LET q     == newbase + nb
      qsize == oldbase - q
      g     == set_size_and_pinuse_of_inuse_chunk(h, newbase, nb)
      osize == chunksize(h, oldbase)
  IN  CASE oldbase = h.top -> SetTop(g, q, h.topsize + qsize)
        [] oldbase # h.top /\ oldbase = h.dv ->
             set_size_and_pinuse_of_free_chunk(SetDv(g, q, h.dvsize + qsize), q,
                                               h.dvsize + qsize)
        [] oldbase # h.top /\ oldbase # h.dv ->
             IF h.head[oldbase].c
             THEN insert_chunk(set_free_with_pinuse(g, q, qsize, oldbase), q, qsize)
             ELSE insert_chunk(set_free_with_pinuse(unlink_chunk(g, oldbase, osize),
                                 q, qsize + osize, oldbase + osize),
                               q, qsize + osize)

\* A segment of its own: the record of the one before goes into the end of
\* the old top, fenceposts behind it, and the rest of that top is binned.
add_segment(h, tbase, tsize) ==
  LET old  == h.segs[1]
      end  == old.base + old.size
      asp  == end - TOP_FOOT_SIZE
      csp  == IF asp < h.top + MIN_CHUNK_SIZE THEN h.top ELSE asp
      tnext == csp + SEGMENT_SIZE
      h1 == init_top([h EXCEPT !.segs = <<[base |-> tbase, size |-> tsize, rec |-> 0],
                                           [old EXCEPT !.rec = csp]>> \o Tail(@)],
                     tbase, tsize - TOP_FOOT_SIZE)
      h2 == SetHead(set_size_and_pinuse_of_inuse_chunk(h1, csp, SEGMENT_SIZE),
                    tnext, Tag(end - tnext, TRUE, TRUE))
  IN  IF csp = h.top THEN h2
      ELSE insert_chunk(set_free_with_pinuse(h2, h.top, csp - h.top, csp),
                        h.top, csp - h.top)

AllocFromTop(h, nb) ==
  IF nb < h.topsize
  THEN Got(set_size_and_pinuse_of_inuse_chunk(SetTop(h, h.top + nb, h.topsize - nb),
                                              h.top, nb), h.top)
  ELSE Failed(h)

\* The walk of the segments stops at the first that will do; 0 when there is none.
FirstSegment(hits) ==
  IF hits = {} THEN 0 ELSE CHOOSE i \in hits : \A j \in hits : i <= j

Holds(seg, a) == seg.base <= a /\ a < seg.base + seg.size

\* More memory from mmap: the first segment, or one that lengthens the top's
\* segment, goes in front of a segment, or stands alone.
MoreCore(h, nb, tbase, tsize) ==
  LET g     == [h EXCEPT !.footprint = @ + tsize]
      after == FirstSegment({i \in DOMAIN h.segs : h.segs[i].base + h.segs[i].size = tbase})
      before == FirstSegment({i \in DOMAIN h.segs : h.segs[i].base = tbase + tsize})
  IN  IF h.top = 0
      THEN AllocFromTop(init_top([g EXCEPT !.segs = <<[base |-> tbase, size |-> tsize,
                                                      rec |-> 0]>>,
                                           !.checks = MaxReleaseChecks],
                                 tbase, tsize - TOP_FOOT_SIZE), nb)
      ELSE IF after # 0 /\ Holds(h.segs[after], h.top)
      THEN AllocFromTop(init_top([g EXCEPT !.segs[after].size = @ + tsize],
                                 h.top, h.topsize + tsize), nb)
      ELSE IF before # 0
      THEN Got(prepend_alloc([g EXCEPT !.segs[before].base = tbase,
                                       !.segs[before].size = @ + tsize],
                             tbase, tbase + tsize, nb), tbase)
      ELSE AllocFromTop(add_segment(g, tbase, tsize), nb)

sys_alloc(h, nb, os) ==
  LET asize  == Align(Unsigned(nb + TOP_FOOT_SIZE + 8), Granularity)
      direct == IF nb >= MmapThreshold /\ h.topsize # 0 THEN mmap_alloc(h, nb, os)
                ELSE Failed(h)
  IN  IF direct.p # 0 THEN direct
      ELSE IF asize <= nb \/ ~Maps(h, asize, os) THEN Failed(h)
      ELSE MoreCore(h, nb, os.at, asize)
-----------------------------------------------------------------------------
\* The chunk `fit', taken out of its bin and cut to nb bytes.
TakeFit(h, nb, fit, goes) ==
  Got(Split(unlink_chunk(h, fit.v, nb + fit.rsize), fit.v, nb, fit.rsize, goes), fit.v)

\* A chunk as good as the dv or worse is left alone.
LargeFit(h, nb, fit) ==
  IF fit.v # 0 /\ fit.rsize < Unsigned(h.dvsize - nb) THEN TakeFit(h, nb, fit, "to a bin")
  ELSE Failed(h)

tmalloc_large(h, nb) == LargeFit(h, nb, BestFit(h.tree, nb))

SmallFit(h, nb, fit) == IF fit.v = 0 THEN Failed(h) ELSE TakeFit(h, nb, fit, "replaces dv")

tmalloc_small(h, nb) == SmallFit(h, nb, LeastFit(h.tree, nb))

\* A small request from the small bins, or the least large chunk.
MallocSmall(h, nb) ==
  LET idx  == nb \div 8
      full == {i \in DOMAIN h.small : i >= idx /\ h.small[i] # <<>>}
      i    == CHOOSE i \in full : \A j \in full : i <= j
      p    == h.small[i][1]
  IN  CASE full # {} /\ i <= idx + 1 ->
             Got(set_inuse_and_pinuse(unlink_chunk(h, p, 8 * i), p, 8 * i), p)
        [] full # {} /\ i > idx + 1 /\ nb > h.dvsize ->
             Got(Split(unlink_chunk(h, p, 8 * i), p, nb, 8 * i - nb, "replaces dv"), p)
        [] full = {} /\ nb > h.dvsize -> tmalloc_small(h, nb)
        [] OTHER -> Failed(h)

MallocDv(h, nb) ==
  Got(Split(SetDv(h, 0, 0), h.dv, nb, h.dvsize - nb, "stays dv"), h.dv)

\* What a bin gave, or the dv, or top, or the system.
OrElsewhere(h, nb, bin, os) ==
  CASE bin.p # 0 -> bin
    [] bin.p = 0 /\ nb <= h.dvsize -> MallocDv(h, nb)
    [] bin.p = 0 /\ nb > h.dvsize /\ nb < h.topsize -> AllocFromTop(h, nb)
    [] OTHER -> sys_alloc(h, nb, os)

dlmalloc(h, bytes, os) ==
  LET small == bytes <= MIN_LARGE_SIZE - 12
      nb    == IF bytes >= MAX_REQUEST THEN MAX_SIZE_T ELSE request2size(bytes)
  IN  OrElsewhere(h, nb, IF small THEN MallocSmall(h, nb)
                         ELSE IF bytes < MAX_REQUEST THEN tmalloc_large(h, nb) ELSE Failed(h),
                  os)
-----------------------------------------------------------------------------
\* The free chunk q of s bytes is the dv, or goes to a bin.
Binned(h, q, s, isdv) ==
  IF isdv THEN [h |-> [h EXCEPT !.dvsize = s], how |-> "kept"]
  ELSE [h |-> insert_chunk(h, q, s), how |-> IF is_small(s) THEN "small" ELSE "large"]

\* Join the chunk q of s bytes, free up to `next', with what is free after it.
JoinNext(h, q, s, next, isdv) ==
  LET nsize == chunksize(h, next)
  IN  CASE h.head[next].c -> Binned(set_free_with_pinuse(h, q, s, next), q, s, isdv)
        [] next = h.top ->
             [h |-> SetTop(IF isdv THEN SetDv(h, 0, 0) ELSE h, q, s + h.topsize),
              how |-> "top"]
        [] next # h.top /\ next = h.dv ->
             [h |-> set_size_and_pinuse_of_free_chunk(SetDv(h, q, s + h.dvsize), q, s + h.dvsize),
              how |-> "kept"]
        [] ~h.head[next].c /\ next # h.top /\ next # h.dv ->
             Binned(set_size_and_pinuse_of_free_chunk(unlink_chunk(h, next, nsize), q, s + nsize),
                    q, s + nsize, isdv)

\* Make p free and join it with what is free around it; says whether it went
\* into top or into a tree bin.
dispose_chunk(h, p, size) ==
  LET back  == ~h.head[p].p
      prev  == IF back THEN h.foot[p] ELSE 0
      q     == p - prev
      isdv  == back /\ q = h.dv
  IN  JoinNext(IF back /\ ~isdv THEN unlink_chunk(h, q, prev) ELSE h,
               q, size + prev, p + size, isdv)

\* One segment behind the first is unmapped when a free chunk fills it.
ReleaseSegment(h, i, os) ==
  LET seg  == h.segs[i]
      size == chunksize(h, seg.base)
      g == IF seg.base = h.dv THEN SetDv(h, 0, 0) ELSE unlink_chunk(h, seg.base, size)
  IN  IF h.head[seg.base].c \/ size < seg.size - TOP_FOOT_SIZE THEN h
      ELSE IF os.unmap
      THEN [g EXCEPT !.segs = SubSeq(@, 1, i - 1) \o SubSeq(@, i + 1, Len(@)),
                     !.footprint = @ - seg.size]
      ELSE insert_chunk(g, seg.base, size)

RECURSIVE ReleaseFrom(_, _, _)
ReleaseFrom(h, i, os) ==
  IF i > Len(h.segs) THEN h
  ELSE LET g == ReleaseSegment(h, i, os)
       IN  ReleaseFrom(g, IF Len(g.segs) < Len(h.segs) THEN i ELSE i + 1, os)

release_unused_segments(h, os) ==
  LET n == Len(h.segs) - 1
  IN  [ReleaseFrom(h, 2, os)
       EXCEPT !.checks = IF n > MaxReleaseChecks THEN n ELSE MaxReleaseChecks]

has_segment_link(h, seg) == \E i \in DOMAIN h.segs : Holds(seg, h.segs[i].rec)

\* What sys_trim takes off the end of top, in units, keeping `pad'.
TrimTop(h, pad, os) ==
  LET room  == pad + TOP_FOOT_SIZE
      extra == ((h.topsize - room + Granularity - 1) \div Granularity - 1) * Granularity
      i     == FirstSegment({k \in DOMAIN h.segs : Holds(h.segs[k], h.top)})
  IN  IF h.topsize > room /\ extra # 0 /\ h.segs[i].size >= extra
         /\ ~has_segment_link(h, h.segs[i]) /\ os.unmap
      THEN init_top([h EXCEPT !.segs[i].size = @ - extra, !.footprint = @ - extra],
                    h.top, h.topsize - extra)
      ELSE h

\* When nothing was given back (h before, g after), trimming is not tried again.
NoMoreTrim(h, g) ==
  IF g.footprint = h.footprint /\ g.topsize > g.trim THEN [g EXCEPT !.trim = MAX_SIZE_T] ELSE g

sys_trim(h, pad, os) ==
  IF pad >= MAX_REQUEST \/ h.top = 0 THEN h
  ELSE NoMoreTrim(h, release_unused_segments(TrimTop(h, pad, os), os))

TrimIfLarge(h, os) == IF h.topsize > h.trim THEN sys_trim(h, 0, os) ELSE h

\* With the block's memory back, top is trimmed when it has grown past the
\* threshold, and segments are looked at every so many large frees.
AfterDispose(d, os) ==
  CASE d.how = "top" -> TrimIfLarge(d.h, os)
    [] d.how = "large" /\ d.h.checks = 1 -> release_unused_segments([d.h EXCEPT !.checks = 0], os)
    [] d.how = "large" /\ d.h.checks # 1 -> [d.h EXCEPT !.checks = @ - 1]
    [] d.how \in {"small", "kept"} -> d.h

dlfree(h, p, os) ==
  IF is_mmapped(h, p) THEN Unmap(h, p, os)
  ELSE AfterDispose(dispose_chunk(h, p, chunksize(h, p)), os)
-----------------------------------------------------------------------------
\* Cut the block p to nb bytes and free the rest.
GiveBackTail(h, p, nb, rest) ==
  dispose_chunk(set_inuse(set_inuse(h, p, nb), p + nb, rest), p + nb, rest).h

\* Change the size of a block where it is; p = 0 when it cannot be.
try_realloc_chunk(h, p, nb) ==
  LET old  == chunksize(h, p)
      next == p + old
      nsize == chunksize(h, next)
      Shrink(f, have) ==
        Got(IF have - nb >= MIN_CHUNK_SIZE THEN GiveBackTail(f, p, nb, have - nb)
            ELSE set_inuse(f, p, have), p)
  IN  CASE is_mmapped(h, p) -> Got(h, mmap_resize(h, p, nb))
        [] ~is_mmapped(h, p) /\ old >= nb -> Shrink(h, old)
        [] ~is_mmapped(h, p) /\ old < nb /\ next = h.top ->
             IF old + h.topsize > nb
             THEN Got(SetTop(set_inuse(h, p, nb), p + nb, old + h.topsize - nb), p)
             ELSE Failed(h)
        [] ~is_mmapped(h, p) /\ old < nb /\ next # h.top /\ next = h.dv ->
             LET dsize == old + h.dvsize - nb
             IN  IF dsize < 0 THEN Failed(h)
                 ELSE IF dsize >= MIN_CHUNK_SIZE
                 THEN Got(set_free_with_pinuse(SetDv(set_inuse(h, p, nb), p + nb, dsize),
                                               p + nb, dsize, p + nb + dsize), p)
                 ELSE Got(set_inuse(SetDv(h, 0, 0), p, old + h.dvsize), p)
        [] OTHER ->
             IF ~h.head[next].c /\ old + nsize >= nb
             THEN Shrink(unlink_chunk(h, next, nsize), old + nsize)
             ELSE Failed(h)

\* The end of an aligned block, given back when it is a chunk.
WithoutEnd(moved, nb) ==
  LET size == chunksize(moved.h, moved.p)
  IN  IF ~is_mmapped(moved.h, moved.p) /\ size > nb + MIN_CHUNK_SIZE
      THEN Got(GiveBackTail(moved.h, moved.p, nb, size - nb), moved.p)
      ELSE moved

\* internal_memalign after its malloc: move up to the alignment, give back
\* the front, then the end.
AlignBlock(h, p, alignment, nb) ==
  LET mem  == p + 8
      br   == Align(mem, alignment) - 8
      pos  == IF br - p >= MIN_CHUNK_SIZE THEN br ELSE br + alignment
      lead == pos - p
      rest == chunksize(h, p) - lead
  IN  WithoutEnd(IF mem % alignment = 0 THEN Got(h, p)
                 ELSE IF is_mmapped(h, p)
                 THEN Got([SetHead(h, pos, Tag(rest, FALSE, FALSE))
                           EXCEPT !.mapped = (pos :> h.mapped[p])
                                             @@ [q \in DOMAIN @ \ {p} |-> @[q]]], pos)
                 ELSE Got(dispose_chunk(set_inuse(set_inuse(h, pos, rest), p, lead),
                                        p, lead).h, pos),
                 nb)

\* What internal_memalign asks malloc for, and the alignment it uses.
PowerAlignment(a) ==
  LET b == IF a < MIN_CHUNK_SIZE THEN MIN_CHUNK_SIZE ELSE a
  IN  CHOOSE c \in {2^k : k \in 4 .. SIZE_T_BITSIZE} : b <= c /\ c < 2 * b

MemalignRequest(a, bytes) == request2size(bytes) + a + MIN_CHUNK_SIZE - 4

\* ialloc after its malloc: the aggregate is cut into elements, the last of
\* which has the slop.
RECURSIVE CutElements(_, _, _, _)
CutElements(h, p, have, sizes) ==
  IF Len(sizes) = 1 THEN set_size_and_pinuse_of_inuse_chunk(h, p, have)
  ELSE LET s == request2size(sizes[1])
       IN  CutElements(set_size_and_pinuse_of_inuse_chunk(h, p, s), p + s, have - s,
                       Tail(sizes))

DisposeBlock(h, p, os) ==
  IF is_mmapped(h, p) THEN Unmap(h, p, os) ELSE dispose_chunk(h, p, chunksize(h, p)).h

\* Free an array of two blocks: next to each other they are freed as one.
internal_bulk_free(h, p, q, os) ==
  TrimIfLarge(IF p + chunksize(h, p) = q
              THEN DisposeBlock(set_inuse(h, p, chunksize(h, p) + chunksize(h, q)), p, os)
              ELSE DisposeBlock(DisposeBlock(h, p, os), q, os), os)
-----------------------------------------------------------------------------
\* The chunks of a segment one after the other, up to top or the end.
RECURSIVE WalkFrom(_, _, _)
WalkFrom(h, p, end) ==
  IF p = h.top \/ p >= end \/ p \notin DOMAIN h.head THEN <<>>
  ELSE IF h.head[p].size = 0 THEN <<>>
  ELSE <<p>> \o WalkFrom(h, p + chunksize(h, p), end)

Walk(h, i) == WalkFrom(h, h.segs[i].base, h.segs[i].base + h.segs[i].size)

Chunks(h) == UNION {Range(Walk(h, i)) : i \in DOMAIN h.segs}

\* What is left in memory where no chunk starts is never read again.
Clean(h) ==
  LET heads == (Chunks(h) \cup {h.top} \cup DOMAIN h.mapped) \ {0}
      feet  == {p + chunksize(h, p) : p \in {q \in Chunks(h) : ~h.head[q].c}}
  IN  [h EXCEPT !.head = [p \in heads |-> @[p]], !.foot = [p \in feet |-> @[p]]]

\* The system's answers are records: where it maps (0: nowhere), whether it
\* also maps a block of its own there, whether it unmaps.
ASSUME AnswersAssumption ==
  \A os \in Answers : os.at \in Nat /\ os.direct \in BOOLEAN /\ os.unmap \in BOOLEAN

Block(bytes, align) == [bytes |-> bytes, align |-> align]

\* A heap some of whose blocks, allocated one after the other, have been
\* freed again, as pairs of the heap and the blocks.  The first mapping is
\* where the system puts it, the others follow it.
Following(h, os) ==
  IF h.segs = <<>> THEN os
  ELSE [os EXCEPT !.at = h.segs[1].base + h.segs[1].size]

WithBlock(x, r, n) == IF r.p = 0 THEN x ELSE <<Clean(r.h), (r.p :> Block(n, 8)) @@ x[2]>>

AfterMallocs(sizes, os) ==
  FoldLeft(LAMBDA x, n : WithBlock(x, dlmalloc(x[1], n, Following(x[1], os)), n),
           <<EmptyHeap, <<>>>>, sizes)

AfterFrees(x, blocks, os) ==
  FoldLeft(LAMBDA y, p : <<Clean(dlfree(y[1], p, os)),
                           [q \in DOMAIN y[2] \ {p} |-> y[2][q]]>>,
           x, blocks)

RECURSIVE Ascending(_)
Ascending(S) ==
  IF S = {} THEN <<>>
  ELSE LET x == CHOOSE x \in S : \A y \in S : x <= y IN <<x>> \o Ascending(S \ {x})

DlInit ==
  /\ half = <<>> /\ calls = 0
  /\ \E w \in Warmups, os \in Answers : \E x \in {AfterMallocs(w, os)} :
       \E y \in {AfterFrees(x, Ascending(freed), os) : freed \in SUBSET DOMAIN x[2]} :
         heap = y[1] /\ live = y[2]

Begin == calls < MaxCalls /\ calls' = calls + 1

\* The block of a call that may have failed.
Hand(r, bytes) ==
  /\ heap' = Clean(r.h)
  /\ live' = IF r.p = 0 THEN live ELSE (r.p :> Block(bytes, 8)) @@ live

Forget(blocks) == [p \in DOMAIN live \ blocks |-> live[p]]

\* The blocks nobody is in the middle of resizing or cutting.
Idle == DOMAIN live \ {half[i] : i \in DOMAIN half \cap {2, 3}}

Malloc(bytes) ==
  \E os \in Answers :
    Begin /\ Hand(dlmalloc(heap, bytes, os), bytes) /\ UNCHANGED half

\* A product past the largest size asks for more than there can be.
dlcalloc(n, size) ==
  LET req == Unsigned(n * size)
      big == n >= 2^(SIZE_T_BITSIZE \div 2) \/ size >= 2^(SIZE_T_BITSIZE \div 2)
  IN  IF n # 0 /\ big /\ req \div n # size THEN MAX_SIZE_T ELSE req

Calloc(n, size) ==
  \E os \in Answers :
    /\ Begin /\ UNCHANGED half
    /\ Hand(dlmalloc(heap, dlcalloc(n, size), os), n * size)

Free(p) ==
  \E os \in Answers :
    /\ Begin /\ UNCHANGED half
    /\ heap' = Clean(dlfree(heap, p, os)) /\ live' = Forget({p})

\* dlrealloc tries in place under the lock; when that fails it lets the lock
\* go, and allocates, copies and frees in two more holds.
Realloc(p, bytes, move) ==
  /\ half = <<>> /\ bytes < MAX_REQUEST /\ Begin
  /\ \E r \in {try_realloc_chunk(heap, p, request2size(bytes))} :
       /\ heap' = Clean(r.h)
       /\ IF r.p # 0
          THEN live' = [live EXCEPT ![p] = Block(bytes, 8)] /\ UNCHANGED half
          ELSE /\ half' = IF move THEN <<"realloc", p, 0, bytes>> ELSE <<>>
               /\ UNCHANGED live

ReallocAllocate ==
  /\ half # <<>> /\ half[1] = "realloc" /\ half[3] = 0
  /\ \E os \in Answers : \E r \in {dlmalloc(heap, half[4], os)} :
       /\ Hand(r, half[4])
       /\ half' = IF r.p = 0 THEN <<>> ELSE [half EXCEPT ![3] = r.p]
  /\ UNCHANGED calls

ReallocFree ==
  \E os \in Answers :
    /\ half # <<>> /\ half[1] = "realloc" /\ half[3] # 0
    /\ heap' = Clean(dlfree(heap, half[2], os)) /\ live' = Forget({half[2]})
    /\ half' = <<>> /\ UNCHANGED calls

\* internal_memalign: a larger block first, cut to the alignment in a second
\* hold of the lock.
Memalign(alignment, bytes) ==
  LET a == PowerAlignment(alignment)
  IN  /\ half = <<>> /\ bytes < MAX_REQUEST - a /\ Begin
      /\ \E os \in Answers : \E r \in {dlmalloc(heap, MemalignRequest(a, bytes), os)} :
           /\ Hand(r, bytes)
           /\ half' = IF r.p = 0 THEN <<>> ELSE <<"align", r.p, a, bytes>>

MemalignCut ==
  /\ half # <<>> /\ half[1] = "align"
  /\ \E r \in {AlignBlock(heap, half[2], half[3], request2size(half[4]))} :
       /\ heap' = Clean(r.h)
       /\ live' = (r.p :> Block(half[4], half[3])) @@ Forget({half[2]})
  /\ half' = <<>> /\ UNCHANGED calls

\* independent_comalloc of two elements: one block, never mapped on its own,
\* cut in a second hold of the lock.  The cut says of the first element that
\* the chunk before it is in use, which was so when the block was allocated;
\* if it was freed between the two holds, it is never joined from then on.
Comalloc(s1, s2) ==
  LET size == request2size(s1) + request2size(s2)
  IN  /\ half = <<>> /\ Begin
      /\ \E os \in Answers : \E r \in {dlmalloc(heap, size - 4, [os EXCEPT !.direct = FALSE])} :
           /\ Hand(r, size - 4)
           /\ half' = IF r.p = 0 THEN <<>> ELSE <<"cut", r.p, s1, s2>>

ComallocCut ==
  /\ half # <<>> /\ half[1] = "cut"
  /\ LET p == half[2]    s1 == half[3]    s2 == half[4]
         h == [heap EXCEPT !.raced = @ \/ ~heap.head[p].p]
     IN  /\ heap' = Clean(CutElements(h, p, chunksize(h, p), <<s1, s2>>))
         /\ live' = (p :> Block(s1, 8)) @@ ((p + request2size(s1)) :> Block(s2, 8))
                    @@ live
  /\ half' = <<>> /\ UNCHANGED calls

BulkFree(p, q) ==
  \E os \in Answers :
    /\ Begin /\ UNCHANGED half
    /\ heap' = Clean(internal_bulk_free(heap, p, q, os)) /\ live' = Forget({p, q})

Trim(pad) ==
  \E os \in Answers :
    /\ Begin /\ UNCHANGED <<live, half>>
    /\ heap' = Clean(sys_trim(heap, pad, os))

DlNext ==
  \/ \E b \in Requests : Malloc(b) \/ Comalloc(b, 1)
  \/ Calloc(2, Granularity \div 4) \/ Calloc(2^(SIZE_T_BITSIZE - 1), 2)
  \/ \E p \in Idle :
       \/ Free(p)
       \/ \E q \in Idle \ {p} : BulkFree(p, q)
       \/ \E b \in Requests, move \in BOOLEAN : Realloc(p, b, move)
  \/ \E a \in Alignments, b \in Requests : Memalign(a, b)
  \/ ReallocAllocate \/ ReallocFree \/ MemalignCut \/ ComallocCut
  \/ Trim(0)
-----------------------------------------------------------------------------
\* The free chunks with their sizes, as the bins and dv have them.
BinChunks(h) ==
  UNION {{<<p, 8 * i>> : p \in Range(h.small[i])} : i \in DOMAIN h.small}
  \cup UNION {TreeChunks(h.tree[i]) : i \in DOMAIN h.tree}

FreeChunks(h) == {<<p, chunksize(h, p)>> : p \in {q \in Chunks(h) : ~h.head[q].c}}

\* Chunks tile segment i, and each knows about the one before it.
SegmentSound(h, i) ==
  LET seg == h.segs[i]    end == seg.base + seg.size
      w   == Walk(h, i)
      stop == IF w = <<>> THEN seg.base ELSE w[Len(w)] + chunksize(h, w[Len(w)])
      all  == IF stop = h.top THEN Append(w, h.top) ELSE w
  IN  /\ IF Holds(seg, h.top) THEN stop = h.top /\ end = stop + h.topsize + TOP_FOOT_SIZE
         ELSE stop = end
      /\ \A j \in DOMAIN all :
           /\ j = 1 \/ h.head[all[j - 1]].c => h.head[all[j]].p
           /\ j > 1 /\ ~h.raced =>
                /\ h.head[all[j - 1]].c <=> h.head[all[j]].p
                /\ h.head[all[j]].c \/ h.head[all[j - 1]].c
           /\ j > 1 /\ ~h.head[all[j]].p => h.foot[all[j]] = chunksize(h, all[j - 1])
      /\ seg.rec # 0 => seg.rec \in Range(w) /\ h.head[seg.rec].c

\* The chunks large requests are given: none that is big enough is smaller.
FitsBest(h, nb) ==
  LET sizes == {c[2] : c \in UNION {TreeChunks(h.tree[i]) : i \in DOMAIN h.tree}}
      enough == {s \in sizes : s >= nb}
  IN  \A fit \in {BestFit(h.tree, nb)} :
        /\ (fit.v = 0) = (enough = {})
        /\ \A s \in enough : nb + fit.rsize <= s

RECURSIVE SumOf(_)
SumOf(S) == IF S = {} THEN 0 ELSE LET r == CHOOSE r \in S : TRUE
                                  IN  r[2] + SumOf(S \ {r})

(***************************************************************************)
(* The heap is sound after every call, what do_check_malloc_state asserts  *)
(* and more: chunks tile each segment with right in-use bits and feet; no  *)
(* two free chunks touch; dv, bins and trees have exactly the free chunks, *)
(* once each; the blocks in use are chunks of their own, aligned and large *)
(* enough for what was asked; a large request gets a best fit; mappings do *)
(* not overlap and add up to the footprint.  Calls interleave where the    *)
(* code lets the lock go: only a free between the two halves of a comalloc *)
(* (`raced') leaves free chunks apart.                                     *)
(***************************************************************************)
HeapSound ==
  /\ \A i \in DOMAIN heap.segs : SegmentSound(heap, i)
  /\ LET victim == IF heap.dv = 0 THEN {} ELSE {<<heap.dv, heap.dvsize>>}
     IN  /\ FreeChunks(heap) = BinChunks(heap) \cup victim
         /\ victim \cap BinChunks(heap) = {}
         /\ (heap.dv = 0) = (heap.dvsize = 0)
  /\ LET records == {heap.segs[i].rec : i \in DOMAIN heap.segs} \ {0}
         used == {p \in Chunks(heap) : heap.head[p].c}
         fences == {p + SEGMENT_SIZE : p \in records}
     IN  used = (DOMAIN live \ DOMAIN heap.mapped) \cup records \cup fences
  /\ DOMAIN heap.mapped \subseteq DOMAIN live
  /\ \A p \in DOMAIN live : /\ live[p].bytes <= UsableSize(heap, p)
                            /\ (p + 8) % live[p].align = 0
  /\ \A nb \in {request2size(b) : b \in Requests} :
       ~is_small(nb) => FitsBest(heap, nb)
  /\ \A r, s \in Ranges(heap) : r # s => ~Overlap(r, s)
  /\ SumOf(Ranges(heap)) = heap.footprint
=============================================================================
