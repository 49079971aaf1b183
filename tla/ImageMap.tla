------------------------------ MODULE ImageMap ------------------------------
(***************************************************************************)
(* How an image gets into memory: the segments of a Mach-O or ELF file are *)
(* mapped, and the relocation tables of a classic Mach-O image applied.    *)
(* Memory is a function from addresses to what is there: a file offset,    *)
(* Zeros or Unmapped.  A page is PageSize addresses.                       *)
(***************************************************************************)
EXTENDS Question, FiniteSets, SequencesExt

CONSTANTS PageSize, TopAddr,   \* the address space is 0 .. TopAddr - 1
          ReserveAt,           \* where mmap finds room for a reservation
          SegmentLists,        \* lists of [vmaddr, vmsize, fileoff, filesize]
          DynamicLists,        \* lists of tags of an ELF dynamic segment
          WordRoles,           \* what a classic image may say of a word
          Chains,              \* chains of the text ranges of images
          Slides               \* slides of a classic image

Zeros == -1

Unmapped == -2

round_page(x) == ((x + PageSize - 1) \div PageSize) * PageSize

\* mmap with MAP_FIXED replaces whole pages, refuses an unaligned address or
\* offset, and its result is not looked at.
Overlay(mem, addr, size, content) ==
  IF addr % PageSize # 0 THEN mem
  ELSE [a \in DOMAIN mem |-> IF a \in addr .. addr + round_page(size) - 1
                             THEN content[a] ELSE mem[a]]

wire(mem, addr, size, fileoff) ==
  IF fileoff % PageSize # 0 THEN mem
  ELSE Overlay(mem, addr, size, [a \in DOMAIN mem |-> fileoff + a - addr])

wire_anon(mem, addr, size) == Overlay(mem, addr, size, [a \in DOMAIN mem |-> Zeros])

reserve(mem, size) == Overlay(mem, ReserveAt, size, [a \in DOMAIN mem |-> Zeros])

Empty == [a \in 0 .. TopAddr - 1 |-> Unmapped]

\* The reservation is the sum of the sizes.
TotalSize(segs) == FoldLeft(LAMBDA n, s : n + s.vmsize, 0, segs)

\* One segment: the file part, then zeros for the rest unless the image
\* sits in a reservation, which is zero already.
MapSegment(mem, seg, bias) ==
  LET file  == round_page(seg.filesize)
      delta == round_page(seg.vmsize) - file
      m     == wire(mem, round_page(seg.vmaddr + bias), file, seg.fileoff)
  IN  IF delta # 0 /\ bias = 0
      THEN wire_anon(m, round_page(seg.vmaddr + bias + file), delta)
      ELSE m

\* MachObject::instantiateFromFile: an image linked at 0 is slid.
MapMachO(segs) ==
  LET bias == IF segs[1].vmaddr # 0 THEN 0 ELSE ReserveAt
      mem  == IF bias = 0 THEN Empty ELSE reserve(Empty, TotalSize(segs))
  IN  [bias |-> bias,
       mem  |-> FoldLeft(LAMBDA m, s : MapSegment(m, s, bias), mem, segs)]

\* ElfObject::instantiateFromFile reserves up to the highest address used;
\* the lowest starts at 0 and so stays there.
ElfTop(segs) ==
  LET ends == {segs[i].vmaddr + segs[i].vmsize : i \in DOMAIN segs}
  IN  CHOOSE e \in ends : \A f \in ends : f <= e

MapElf(segs) ==
  [bias |-> ReserveAt,
   mem  |-> FoldLeft(LAMBDA m, s : wire(m, ReserveAt + s.vmaddr, s.filesize,
                                       s.fileoff),
                    reserve(Empty, round_page(ElfTop(segs))), segs)]
-----------------------------------------------------------------------------
\* parseDynamicSegment and readReloc: [strtab, rel, pltrel] or a halt.
\* readReloc halts at the first entry it meets, whatever its type: no type
\* is implemented.
DynStart == [halted |-> FALSE, strtab |-> FALSE, rel |-> FALSE,
             relsize |-> 0, pltrel |-> FALSE, pltsize |-> 0]

DynTag(d, t) ==
  IF d.halted THEN d
  ELSE CASE t = "RELSZ"    -> [d EXCEPT !.relsize = 1]
         [] t = "REL"      -> [d EXCEPT !.rel = TRUE]
         [] t = "PLTRELSZ" -> [d EXCEPT !.pltsize = 1]
         [] t = "JMPREL"   -> [d EXCEPT !.pltrel = TRUE]
         [] t = "STRTAB"   -> [d EXCEPT !.strtab = TRUE]
         [] t = "RELA"     -> [d EXCEPT !.halted = TRUE]
         [] t = "NEEDED"   -> [d EXCEPT !.halted = ~d.strtab]
         [] t \in {"PLTREL", "SYMTAB", "other"} -> d

readReloc(size, d) == IF size > 0 THEN [d EXCEPT !.halted = TRUE] ELSE d

parseDynamicSegment(tags) ==
  LET d == FoldLeft(DynTag, DynStart, tags)
  IN  IF d.halted THEN d ELSE readReloc(d.pltsize, readReloc(d.relsize, d))
-----------------------------------------------------------------------------
\* A classic image: words 1 .. n, each with the table entry that names it.
\* A word holds a link-time address, Home(w); a symbol resolves to
\* Resolved, and the symbol table says Stated of it (n_value).
Home(w) == 10 * w

Resolved == 1000

Stated == 3

\* classicRebase on one word.  A scattered entry is located with
\* fSegmentSlides[1], which nothing sets: it reaches the word only when the
\* image is not slid.
RebaseWord(role, slide, v) ==
  CASE role = "vanilla"   -> v + slide
    [] role = "scattered" -> IF slide = 0 THEN v + slide ELSE v
    [] OTHER -> v

\* classicBindIndirect: a local pointer is slid, any other bound.
IndirectWord(role, slide, v) ==
  CASE role = "local"    -> v + slide
    [] role = "indirect" -> Resolved
    [] OTHER -> v

\* classicBindExterns: what the word held beyond n_value is the addend.
ExternWord(role, v) == IF role = "extern" THEN Resolved + (v - Stated) ELSE v

\* The tables are read one after the other; an absolute entry halts.
Classic(words, slide, split) ==
  IF \E w \in DOMAIN words : words[w] = "absolute" THEN <<>>
  ELSE LET rebased(w) == IF split THEN Home(w)
                         ELSE RebaseWord(words[w], slide, Home(w))
       IN  [w \in DOMAIN words |->
              ExternWord(words[w], IndirectWord(words[w], slide, rebased(w)))]

\* exportedSymbolAddressClassic: bit 0 marks a Thumb function.
exportedSymbolAddressClassic(value, thumb, slide) ==
  LET a == value + slide IN IF thumb /\ a % 2 = 0 THEN a + 1 ELSE a

\* exportedSymbolAddressCompressed: the export's offset from the header, and
\* no resolvers.
exportedSymbolAddressCompressed(kind, resolver, offset, header) ==
  IF kind \in {"regular", "threadlocal"} /\ ~resolver THEN offset + header
  ELSE -1
-----------------------------------------------------------------------------
\* The image a chain has at a zero based index, 0 when there is none: the
\* loop of _dyld_get_image_header and _dyld_get_image_vmaddr_slide.
ImageAt(chain, index) == IF index < Len(chain) THEN index + 1 ELSE 0

_dyld_image_count(chain) == Len(chain)

\* The first image of the chain whose text may hold an address; the end
\* counts as inside.
dladdr(chain, ptr) ==
  LET hits == {i \in DOMAIN chain : chain[i][1] <= ptr /\ ptr <= chain[i][2]}
  IN  IF hits = {} THEN 0 ELSE CHOOSE i \in hits : \A j \in hits : i <= j

\* The images a handler is called with when it is registered: the chain,
\* and for a state change handler the main executable after it.
AddHandlerCalls(chain) == [i \in DOMAIN chain |-> i]

BatchInfos(chain) == Append(AddHandlerCalls(chain), 0)
-----------------------------------------------------------------------------
MapKinds == {"macho", "elf", "dynamic", "classic", "export", "chain"}

MapInit ==
  /\ Unanswered
  /\ \/ \E l \in SegmentLists : question \in {<<"macho", l>>, <<"elf", l>>}
     \/ \E l \in DynamicLists : question = <<"dynamic", l>>
     \/ \E r \in WordRoles, s \in Slides : question = <<"classic", r, s>>
     \/ \E c \in Chains, a \in 0 .. TopAddr : question = <<"chain", c, a>>
     \/ \E v \in 0 .. 2, s \in Slides, t \in BOOLEAN,
           k \in {"regular", "threadlocal", "other"} :
          question = <<"export", v, s, t, k>>

\* An image read from a file is split exactly when it is not slid.
MapAnswer(q) ==
  CASE q[1] = "macho"   -> MapMachO(q[2])
    [] q[1] = "elf"     -> MapElf(q[2])
    [] q[1] = "dynamic" -> parseDynamicSegment(q[2])
    [] q[1] = "classic" -> <<Classic(q[2], q[3], q[3] = 0),
                             Classic(q[2], q[3], FALSE)>>
    [] q[1] = "chain"   ->
         [at |-> dladdr(q[2], q[3]),
          headers |-> [i \in 0 .. _dyld_image_count(q[2]) |-> ImageAt(q[2], i)],
          added |-> AddHandlerCalls(q[2]), batch |-> BatchInfos(q[2])]
    [] q[1] = "export"  ->
         <<exportedSymbolAddressClassic(q[2], q[4], q[3]),
           exportedSymbolAddressCompressed(q[5], q[4], q[2], q[3])>>

MapCompute == question[1] \in MapKinds /\ Ask(MapAnswer)

\* What should be at address a of a loaded image.
ContentRight(segs, mem, bias, a) ==
  LET in == {i \in DOMAIN segs : a - bias \in segs[i].vmaddr ..
                                    segs[i].vmaddr + segs[i].vmsize - 1}
      s  == segs[CHOOSE i \in in : TRUE]
      at == a - bias - s.vmaddr
  IN  in # {} => mem[a] = IF at < s.filesize THEN s.fileoff + at ELSE Zeros

\* What a word of a classic image should hold.
WordRight(role, slide, w) ==
  CASE role \in {"vanilla", "local"} -> Home(w) + slide
    [] role = "indirect" -> Resolved
    [] role = "extern"   -> Resolved + Home(w) - Stated
    [] OTHER -> Home(w)

(***************************************************************************)
(* Every address of a segment holds its byte of the file, or zero past the *)
(* end of the file part, and an image that is slid leaves alone what is    *)
(* outside its reservation, however the segments follow each other; a word *)
(* of a classic image ends up slid, bound with its addend or untouched,    *)
(* never twice adjusted by the three tables; a dynamic segment is refused  *)
(* exactly when it has relocations or names a library before its strings;  *)
(* an address is attributed to the image whose text holds it, or to one    *)
(* that ends where that text starts.                                       *)
(***************************************************************************)
ImageInPlace ==
  answer # NONE /\ question[1] \in MapKinds =>
    LET q == question
    IN  CASE q[1] \in {"macho", "elf"} ->
               /\ \A a \in DOMAIN answer.mem :
                    ContentRight(q[2], answer.mem, answer.bias, a)
               /\ answer.bias # 0 =>
                    \A a \in DOMAIN answer.mem :
                      answer.mem[a] # Unmapped =>
                        a - answer.bias \in 0 .. round_page(ElfTop(q[2])) - 1
          [] q[1] = "dynamic" ->
               answer.halted <=>
                 \/ \E i \in DOMAIN q[2] : q[2][i] \in {"RELA", "RELSZ", "PLTRELSZ"}
                 \/ \E i \in DOMAIN q[2] :
                      q[2][i] = "NEEDED" /\ \A j \in 1 .. i : q[2][j] # "STRTAB"
          [] q[1] = "classic" ->
               \A k \in 1 .. 2 :
                 answer[k] # <<>> =>
                   \A w \in DOMAIN q[2] :
                     q[2][w] # "scattered" \/ q[3] = 0 =>
                       answer[k][w] = WordRight(q[2][w], q[3], w)
          [] q[1] = "chain" ->
               /\ (answer.at = 0) =
                    (\A i \in DOMAIN q[2] : q[3] \notin q[2][i][1] .. q[2][i][2])
               /\ answer.at # 0 =>
                    \A i \in DOMAIN q[2] :
                      q[3] \in q[2][i][1] .. q[2][i][2] - 1 =>
                        i = answer.at \/ q[2][answer.at][2] = q[2][i][1]
               /\ \A i \in DOMAIN answer.headers :
                    answer.headers[i] = 0 <=> i = Len(q[2])
               /\ ToSet(answer.added) = DOMAIN q[2]
               /\ Cardinality(ToSet(answer.batch)) = Len(answer.batch)
          [] q[1] = "export" ->
               /\ answer[1] \div 2 = (q[2] + q[3]) \div 2
               /\ q[4] => answer[1] % 2 = 1
               /\ answer[2] # -1 => answer[2] - q[3] = q[2]
=============================================================================
