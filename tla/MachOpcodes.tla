---------------------------- MODULE MachOpcodes -----------------------------
(***************************************************************************)
(* The interpreters of the Mach-O rebase and bind opcodes.  The opcodes    *)
(* set registers (segment and address, symbol, library ordinal, addend,    *)
(* type) and say where to apply them; runs of pointers are folded into one *)
(* opcode with a count and a distance.  An opcode is a record of its name, *)
(* its immediate `imm' and its one or two uleb128 operands `u' and `v'.    *)
(* A behaviour feeds one interpreter any opcodes.  "boot" is the copy of   *)
(* readRebase with which the linker relocates itself: it cannot halt yet,  *)
(* so it complains and goes on.                                            *)
(***************************************************************************)
EXTENDS Integers, Sequences, FiniteSets

CONSTANTS Segments,      \* the segments: a sequence of [vmaddr, vmsize]
          Slide,         \* where the image is against where it was linked
          PtrSize,       \* sizeof(intptr_t)
          AddrSpace,     \* number of addresses; arithmetic wraps
          DepCount,      \* libraries the image is linked against
          Opcodes,       \* the opcodes to feed
          MaxOpcodes     \* bound on the length of a program

VARIABLES reader,        \* which interpreter
          program,       \* the opcodes so far
          regs,          \* its registers
          fixups,        \* what was rebased or bound, in order
          reading        \* "more", "done" or "halt"

opVars == <<reader, program, regs, fixups, reading>>

\* The library ordinals below 1 are special: 0 is the image itself.
SpecialOrdinal(imm) == IF imm = 0 THEN 0 ELSE imm - 16

Wrap(a) == a % AddrSpace

segActualLoadAddr(i) == Wrap(Segments[i + 1].vmaddr + Slide)

segActualEndAddr(i) == Wrap(segActualLoadAddr(i) + Segments[i + 1].vmsize)

\* rebaseCompressed is "boot", MachObject::readRebase is "rebase".
Rebasers == {"rebase", "boot"}

\* Where each interpreter starts.  Only lazy binding presets the type, only
\* rebasing the address.  `bad' is set when an interpreter complained.
StartRegs(who) ==
  [ordinal |-> 0, symbol |-> "NULL", addend |-> 0,
   type |-> IF who = "lazy" THEN "pointer" ELSE "none",
   bad |-> FALSE,
   address |-> IF who \in Rebasers THEN segActualLoadAddr(0) ELSE 0,
   end |-> IF who \in Rebasers THEN segActualEndAddr(0) ELSE 0]

OpInit ==
  /\ reader \in Rebasers \cup {"bind", "lazy", "weak"}
  /\ program = <<>> /\ fixups = <<>> /\ reading = "more"
  /\ regs = StartRegs(reader)
-----------------------------------------------------------------------------
\* rebaseAt and bind halt on a type they do not know, bind also on an
\* ordinal past the libraries of the image (the code compares ordinal - 1).
ApplyHalts(who, r) ==
  \/ r.type = "none"
  \/ who \notin Rebasers /\ r.ordinal - 1 > DepCount

\* What is done to the image at the address of r.
Fixup(who, r) ==
  IF who \in Rebasers
  THEN [at |-> r.address, add |-> Slide]
  ELSE [at |-> r.address, symbol |-> r.symbol, ordinal |-> r.ordinal,
        addend |-> r.addend, type |-> r.type]

\* The weak interpreter walks the addresses and binds nothing; the linker's
\* own rebaseAt leaves a pointer of an unknown type alone.
Applied(who, r) ==
  IF who = "weak" \/ (who = "boot" /\ r.type = "none") THEN <<>>
  ELSE <<Fixup(who, r)>>

\* What makes an interpreter stop, or complain, at a pointer.
Refused(who, r) ==
  \/ r.address >= r.end
  \/ who # "weak" /\ ApplyHalts(who, r)

\* A skip taken for the whole distance.
StrideSkipOnly(skip) == skip

\* The distance from one pointer of a run to the next.
Stride(skip) == skip + PtrSize

\* Apply the registers n times, stepping by `stride'; the first address past
\* the segment halts the linker.
RECURSIVE Run(_, _, _, _, _)
Run(who, r, n, stride, out) ==
  IF n = 0 THEN [regs |-> r, out |-> out, next |-> "more"]
  ELSE IF who # "boot" /\ Refused(who, r)
       THEN [regs |-> r, out |-> out, next |-> "halt"]
  ELSE Run(who, [r EXCEPT !.address = Wrap(@ + stride),
                          !.bad = @ \/ Refused(who, r)],
           n - 1, stride, out \o Applied(who, r))

Set(r) == [regs |-> r, out |-> <<>>, next |-> "more"]

Halt(r) == [regs |-> r, out |-> <<>>, next |-> "halt"]

\* `case' labels all readers share.
Common(r, o) ==
  CASE o.op = "SET_TYPE_IMM" -> Set([r EXCEPT !.type = o.imm])
    [] o.op = "SET_SEGMENT_AND_OFFSET_ULEB" ->
         Set([r EXCEPT !.address = Wrap(segActualLoadAddr(o.imm) + o.u),
                       !.end = segActualEndAddr(o.imm)])
    [] o.op = "ADD_ADDR_ULEB" -> Set([r EXCEPT !.address = Wrap(@ + o.u)])

\* `case' labels of the three bind readers.
BindRegister(r, o) ==
  CASE o.op = "SET_DYLIB_ORDINAL_IMM" -> Set([r EXCEPT !.ordinal = o.imm])
    [] o.op = "SET_DYLIB_ORDINAL_ULEB" -> Set([r EXCEPT !.ordinal = o.u])
    [] o.op = "SET_ADDEND_SLEB" -> Set([r EXCEPT !.addend = o.u])
    [] o.op = "SET_SYMBOL_TRAILING_FLAGS_IMM" ->
         Set([r EXCEPT !.symbol = o.imm])

CommonOps == {"SET_TYPE_IMM", "SET_SEGMENT_AND_OFFSET_ULEB", "ADD_ADDR_ULEB"}

RegisterOps == {"SET_DYLIB_ORDINAL_IMM", "SET_DYLIB_ORDINAL_ULEB",
                "SET_ADDEND_SLEB", "SET_SYMBOL_TRAILING_FLAGS_IMM"}

RebaseOpcode(who, r, o) ==
  CASE o.op = "DONE" -> [Set(r) EXCEPT !.next = "done"]
    [] o.op \in CommonOps -> Common(r, o)
    [] o.op = "ADD_ADDR_IMM_SCALED" ->
         Set([r EXCEPT !.address = Wrap(@ + o.imm * PtrSize)])
    [] o.op = "DO_IMM_TIMES" -> Run(who, r, o.imm, Stride(0), <<>>)
    [] o.op = "DO_ULEB_TIMES" -> Run(who, r, o.u, Stride(0), <<>>)
    [] o.op = "DO_ADD_ADDR_ULEB" -> Run(who, r, 1, Stride(o.u), <<>>)
    [] o.op = "DO_ULEB_TIMES_SKIPPING_ULEB" ->
         Run(who, r, o.u, Stride(o.v), <<>>)
    [] OTHER -> Halt(r)

readRebase(r, o) == RebaseOpcode("rebase", r, o)

\* The same loop, over the linker's own segments.
rebaseCompressed(r, o) == RebaseOpcode("boot", r, o)

\* The labels of readBind and readWeakBind that apply the registers.
DoBind(who, r, o) ==
  CASE o.op = "DO_BIND" -> Run(who, r, 1, Stride(0), <<>>)
    [] o.op = "DO_ADD_ADDR_ULEB" -> Run(who, r, 1, Stride(o.u), <<>>)
    [] o.op = "DO_ADD_ADDR_IMM_SCALED" ->
         Run(who, r, 1, Stride(o.imm * PtrSize), <<>>)
    [] o.op = "DO_ULEB_TIMES_SKIPPING_ULEB" ->
         Run(who, r, o.u, Stride(o.v), <<>>)
    [] OTHER -> Halt(r)

readBind(r, o) ==
  CASE o.op = "DONE" -> [Set(r) EXCEPT !.next = "done"]
    [] o.op \in CommonOps -> Common(r, o)
    [] o.op \in RegisterOps -> BindRegister(r, o)
    [] o.op = "SET_DYLIB_SPECIAL_IMM" ->
         Set([r EXCEPT !.ordinal = SpecialOrdinal(o.imm)])
    [] OTHER -> DoBind("bind", r, o)

\* Lazy pointers are bound one at a time; DONE separates them.
readLazyBind(r, o) ==
  CASE o.op = "DONE" -> Set(r)
    [] o.op \in CommonOps -> Common(r, o)
    [] o.op \in RegisterOps -> BindRegister(r, o)
    [] o.op = "SET_DYLIB_SPECIAL_IMM" ->
         Set([r EXCEPT !.ordinal = SpecialOrdinal(o.imm)])
    [] o.op = "DO_BIND" -> Run("lazy", r, 1, Stride(0), <<>>)
    [] OTHER -> Halt(r)

readWeakBind(r, o) ==
  CASE o.op = "DONE" -> Set(r)
    [] o.op \in CommonOps -> Common(r, o)
    [] o.op \in RegisterOps -> BindRegister(r, o)
    [] OTHER -> DoBind("weak", r, o)

Read(who, r, o) ==
  CASE who = "rebase" -> readRebase(r, o)
    [] who = "boot"   -> rebaseCompressed(r, o)
    [] who = "bind"   -> readBind(r, o)
    [] who = "lazy"   -> readLazyBind(r, o)
    [] who = "weak"   -> readWeakBind(r, o)

\* One turn of the interpreter's loop.
ReadOpcode(o) ==
  /\ reading = "more" /\ Len(program) < MaxOpcodes
  /\ LET s == Read(reader, regs, o)
     IN  /\ regs' = s.regs /\ reading' = s.next
         /\ fixups' = fixups \o s.out
  /\ program' = Append(program, o)
  /\ UNCHANGED reader

OpNext == \E o \in Opcodes : ReadOpcode(o)
-----------------------------------------------------------------------------
\* What a program means, read from the opcodes' definitions: the value a
\* register has before opcode i is that of the last opcode that set it.
LastSet(i, ops) ==
  LET js == {j \in 1 .. i - 1 : program[j].op \in ops}
  IN  IF js = {} THEN 0 ELSE CHOOSE j \in js : \A k \in js : k <= j

Applies == {"DO_BIND", "DO_IMM_TIMES", "DO_ULEB_TIMES", "DO_ADD_ADDR_ULEB",
            "DO_ADD_ADDR_IMM_SCALED", "DO_ULEB_TIMES_SKIPPING_ULEB"}

\* How many pointers opcode o covers and how far apart they are.
Times(o) ==
  CASE o.op = "DO_IMM_TIMES" -> o.imm
    [] o.op \in {"DO_ULEB_TIMES", "DO_ULEB_TIMES_SKIPPING_ULEB"} -> o.u
    [] OTHER -> 1

Gap(o) ==
  CASE o.op = "DO_ADD_ADDR_ULEB" -> o.u
    [] o.op = "DO_ADD_ADDR_IMM_SCALED" -> o.imm * PtrSize
    [] o.op = "DO_ULEB_TIMES_SKIPPING_ULEB" -> o.v
    [] OTHER -> 0

\* By how much opcode o moves the address.
Advance(o) ==
  CASE o.op = "ADD_ADDR_ULEB" -> o.u
    [] o.op = "ADD_ADDR_IMM_SCALED" -> o.imm * PtrSize
    [] o.op \in Applies -> Times(o) * (PtrSize + Gap(o))
    [] OTHER -> 0

AddressBefore(i) ==
  LET s == LastSet(i, {"SET_SEGMENT_AND_OFFSET_ULEB"})
      base == IF s = 0 THEN StartRegs(reader).address
              ELSE Segments[program[s].imm + 1].vmaddr + Slide + program[s].u
      moved[j \in s .. i - 1] ==
        IF j = s THEN 0 ELSE moved[j - 1] + Advance(program[j])
  IN  base + moved[i - 1]

\* The ordinal in force before opcode i.
OrdinalBefore(i) ==
  LET j == LastSet(i, {"SET_DYLIB_ORDINAL_IMM", "SET_DYLIB_ORDINAL_ULEB",
                    "SET_DYLIB_SPECIAL_IMM"})
  IN  CASE j = 0 -> 0
        [] j # 0 -> CASE program[j].op = "SET_DYLIB_ORDINAL_IMM" -> program[j].imm
                      [] program[j].op = "SET_DYLIB_ORDINAL_ULEB" -> program[j].u
                      [] OTHER -> IF program[j].imm = 0 THEN 0
                                  ELSE program[j].imm - 16

MeantAt(i, k) ==
  LET sym == LastSet(i, {"SET_SYMBOL_TRAILING_FLAGS_IMM"})
      add == LastSet(i, {"SET_ADDEND_SLEB"})
      typ == LastSet(i, {"SET_TYPE_IMM"})
      at  == Wrap(AddressBefore(i) + k * (PtrSize + Gap(program[i])))
  IN  IF reader \in Rebasers THEN [at |-> at, add |-> Slide]
      ELSE [at |-> at,
            symbol |-> IF sym = 0 THEN "NULL" ELSE program[sym].imm,
            ordinal |-> OrdinalBefore(i),
            addend |-> IF add = 0 THEN 0 ELSE program[add].u,
            type |-> IF typ = 0 THEN "pointer" ELSE program[typ].imm]

Meant ==
  LET upto[i \in 0 .. Len(program)] ==
        IF i = 0 THEN <<>>
        ELSE upto[i - 1] \o
             (IF program[i].op \in Applies
              THEN [k \in 1 .. Times(program[i]) |-> MeantAt(i, k - 1)]
              ELSE <<>>)
  IN  upto[Len(program)]

(***************************************************************************)
(* What an interpreter that neither halted nor complained did is what the  *)
(* opcodes mean, pointer for pointer and in order, for every way of        *)
(* folding runs; and one that halts touched no pointer past a segment.     *)
(***************************************************************************)
OpcodesExact ==
  /\ reading # "halt" /\ ~regs.bad =>
       fixups = (IF reader = "weak" THEN <<>> ELSE Meant)
  /\ reader # "boot" =>
       \A i \in 1 .. Len(fixups) :
         \E s \in 0 .. Len(Segments) - 1 : fixups[i].at < segActualEndAddr(s)
=============================================================================
