------------------------------- MODULE Printf -------------------------------
(***************************************************************************)
(* vfprintf (src/core/BStandardIO/vfprintf.c) and what is made of it:      *)
(* conversions with their flags, widths and precisions, arguments in order *)
(* or by their numbers, and numbers glued together from the digits of      *)
(* __dtoa.                                                                 *)
(*                                                                         *)
(* A format is a sequence of tokens, a number (of one or more digits)      *)
(* being one.  Arguments lie in words, one or two each, as va_arg steps    *)
(* through them; what is read where no argument starts is astray.  Output  *)
(* goes to a stream that takes so many writes.                             *)
(***************************************************************************)
EXTENDS Dtoa

CONSTANTS NIOV,                  \* pieces of output between two writes
          PADSIZE,               \* the longest piece of padding
          STATIC_ARG_TBL_SIZE,   \* the argument table without mmap
          ShortWidth, IntWidth, LongLongWidth,   \* bits of the types
          PrintedFields,         \* the single directives that are printed, each with its argument
          PrintedFormats,        \* sequences of directives, with their arguments
          DEFPREC

EndToken == "NUL"

Token(c) == [c |-> c, n |-> 0]

FmtAt(f, i) == IF i \in DOMAIN f THEN f[i] ELSE Token(EndToken)

Argument(type, n, s, d, neg) == [type |-> type, n |-> n, s |-> s, d |-> d, neg |-> neg]

Astray == Argument("astray", 0, <<>>, Zero, FALSE)

WordsOf(type) == IF type \in {"llong", "double", "Inf", "NaN"} THEN 2 ELSE 1

OffsetOf(args, i) == FoldLeft(LAMBDA acc, a : acc + WordsOf(a.type), 0, SubSeq(args, 1, i - 1))

\* va_arg: the argument that starts at a word and is as long.
Fetch(args, off, words) ==
  LET hits == {i \in DOMAIN args : OffsetOf(args, i) = off /\ WordsOf(args[i].type) = words}
  IN  IF hits = {} THEN Astray ELSE args[CHOOSE i \in hits : TRUE]

SignedOf(n, bits) == LET v == n % 2^bits IN IF v >= 2^(bits - 1) THEN v - 2^bits ELSE v
-----------------------------------------------------------------------------
(* The argument table, built when the first number with a $ is met.        *)

\* The table grows once for a type that lies beyond it, whether that is enough or not.
GrowTypeTable(t) == IF t.nextarg >= t.size THEN 2 * t.size ELSE t.size

AddType(t, words) ==
  LET size == GrowTypeTable(t)
  IN  [t EXCEPT !.size = size, !.over = @ \/ t.nextarg >= size,
                !.max = IF t.nextarg > @ THEN t.nextarg ELSE @,
                !.types = (t.nextarg :> words) @@ @, !.nextarg = @ + 1]

\* An asterisk's argument; i is the place behind it.
AddAster(f, t, i) ==
  IF FmtAt(f, i).c = "num" /\ FmtAt(f, i + 1).c = "$"
    THEN [AddType([t EXCEPT !.nextarg = FmtAt(f, i).n], 1) EXCEPT !.nextarg = t.nextarg, !.i = i + 2]
    ELSE [AddType(t, 1) EXCEPT !.i = i]

RECURSIVE FindFrom(_, _)
FindFrom(f, t) ==
  LET c == FmtAt(f, t.i).c
      next == FmtAt(f, t.i + 1).c
      on(u) == FindFrom(f, [u EXCEPT !.i = @ + 1])
      done(words) == on([AddType(t, words) EXCEPT !.within = FALSE])
  IN  IF c = EndToken THEN t
      ELSE IF ~t.within THEN on([t EXCEPT !.within = c = "%", !.long = FALSE])
      ELSE CASE c \in {" ", "#", "-", "+", "0", "L", "t", "z", "h"} -> on(t)
             [] c = "*" -> FindFrom(f, AddAster(f, t, t.i + 1))
             [] c = "." /\ next = "*" -> FindFrom(f, AddAster(f, t, t.i + 2))
             [] c = "." /\ next # "*" -> FindFrom(f, [t EXCEPT !.i = @ + IF next = "num" THEN 2 ELSE 1])
             [] c = "num" /\ next = "$" -> FindFrom(f, [t EXCEPT !.nextarg = FmtAt(f, t.i).n, !.i = @ + 2])
             [] c = "num" /\ next # "$" -> on(t)
             [] c = "l" -> IF next = "l" THEN FindFrom(f, [t EXCEPT !.long = TRUE, !.i = @ + 2]) ELSE on(t)
             [] c = "q" -> on([t EXCEPT !.long = TRUE])
             [] c \in {"d", "i", "o", "u", "x", "X"} -> done(IF t.long THEN 2 ELSE 1)
             [] c \in {"D", "O", "U"} -> done(IF t.long THEN 2 ELSE 1)
             [] c \in {"e", "E", "f", "g", "G"} -> done(2)
             [] c \in {"c", "p", "s", "n"} -> done(1)
             [] OTHER -> on([t EXCEPT !.within = FALSE])

\* Where each argument starts; what is not in the format is taken for an int.
FindArguments(f) ==
  LET GivenT(t) ==
        LET words(n) == IF n \in DOMAIN t.types THEN t.types[n] ELSE 1
        IN  [at |-> [n \in 1 .. t.max |-> FoldLeft(LAMBDA acc, k : acc + words(k), 0, [k \in 1 .. n - 1 |-> k])],
             over |-> t.over]
  IN  GivenT(FindFrom(f, [i |-> 1, within |-> FALSE, long |-> FALSE, nextarg |-> 1, types |-> <<>>,
                          size |-> STATIC_ARG_TBL_SIZE, max |-> 0, over |-> FALSE]))
-----------------------------------------------------------------------------
(* One directive: its flags, width and precision, up to its conversion.    *)

BuildTable(f, s) == IF s.built THEN s ELSE [s EXCEPT !.built = TRUE, !.table = FindArguments(f)]

GetArg(s, args, words) ==
  LET off == IF ~s.built THEN s.ap
             ELSE IF s.nextarg \in DOMAIN s.table.at THEN s.table.at[s.nextarg] ELSE -1
      GivenA(a) ==
        [arg |-> a, s |-> [s EXCEPT !.ap = off + words, !.nextarg = @ + 1, !.astray = @ \/ a = Astray]]
  IN  GivenA(Fetch(args, off, words))

\* The value of an asterisk; i is the place behind it.
GetAster(f, s, args, i) ==
  IF FmtAt(f, i).c = "num" /\ FmtAt(f, i + 1).c = "$"
    THEN LET g == GetArg([BuildTable(f, s) EXCEPT !.nextarg = FmtAt(f, i).n], args, 1)
         IN  [val |-> SignedOf(g.arg.n, IntWidth), s |-> [g.s EXCEPT !.nextarg = s.nextarg, !.i = i + 2]]
    ELSE LET g == GetArg(s, args, 1)
         IN  [val |-> SignedOf(g.arg.n, IntWidth), s |-> [g.s EXCEPT !.i = i]]

Positional(f, s, n, i) == [BuildTable(f, s) EXCEPT !.nextarg = n, !.i = i]

WithStar(s, val) ==
  IF val >= 0 THEN [s EXCEPT !.width = val] ELSE [s EXCEPT !.width = -val, !.flags = @ \cup {"LADJUST"}]

RECURSIVE Specified(_, _, _)
Specified(f, s, args) ==
  LET c == FmtAt(f, s.i).c
      n == FmtAt(f, s.i).n
      next == FmtAt(f, s.i + 1)
      flag(x) == Specified(f, [s EXCEPT !.i = @ + 1, !.flags = @ \cup {x}], args)
      on(t) == Specified(f, t, args)
  IN  CASE c = " " -> on([s EXCEPT !.i = @ + 1, !.sign = IF @ = "" THEN " " ELSE @])
        [] c = "+" -> on([s EXCEPT !.i = @ + 1, !.sign = "+"])
        [] c = "#" -> flag("ALT")
        [] c = "-" -> flag("LADJUST")
        [] c = "0" -> flag("ZEROPAD")
        [] c = "*" -> LET Wide(g) == on(WithStar(g.s, g.val)) IN Wide(GetAster(f, s, args, s.i + 1))
        [] c = "." /\ next.c = "*" ->
             LET Exact(g) == on([g.s EXCEPT !.prec = IF g.val < 0 THEN -1 ELSE g.val])
             IN  Exact(GetAster(f, s, args, s.i + 2))
        [] c = "." /\ next.c = "num" ->
             IF FmtAt(f, s.i + 2).c = "$" THEN on(Positional(f, s, next.n, s.i + 3))
             ELSE on([s EXCEPT !.i = @ + 2, !.prec = next.n])
        [] c = "." /\ next.c \notin {"*", "num"} -> on([s EXCEPT !.i = @ + 1, !.prec = 0])
        [] c = "num" -> IF next.c = "$" THEN on(Positional(f, s, n, s.i + 2))
                        ELSE on([s EXCEPT !.i = @ + 1, !.width = n])
        [] c = "L" -> flag("LONGDBL")
        [] c = "h" -> flag("SHORTINT")
        [] c = "j" -> flag("MAXINT")
        [] c = "l" -> IF next.c = "l" THEN on([s EXCEPT !.i = @ + 2, !.flags = @ \cup {"LLONGINT"}])
                      ELSE flag("LONGINT")
        [] c = "q" -> flag("LLONGINT")
        [] c = "t" -> flag("PTRINT")
        [] c = "z" -> flag("SIZEINT")
        [] OTHER -> s
-----------------------------------------------------------------------------
(* The text of a conversion: cp, of size characters as the code counts     *)
(* them, before sign, prefix and padding.                                  *)

IntWords(flags) == IF flags \cap {"MAXINT", "LLONGINT"} # {} THEN 2 ELSE 1

ArgBits(flags) ==
  IF flags \cap {"MAXINT", "LLONGINT"} # {} THEN LongLongWidth
  ELSE IF "SHORTINT" \in flags /\ flags \cap {"LONGINT", "PTRINT", "SIZEINT"} = {} THEN ShortWidth
  ELSE IntWidth

LowerDigits == <<"0", "1", "2", "3", "4", "5", "6", "7", "8", "9", "a", "b", "c", "d", "e", "f">>

UpperDigits == <<"0", "1", "2", "3", "4", "5", "6", "7", "8", "9", "A", "B", "C", "D", "E", "F">>

RECURSIVE DigitsIn(_, _, _)
DigitsIn(u, base, xdigs) ==
  IF u < base THEN <<xdigs[u + 1]>> ELSE Append(DigitsIn(u \div base, base, xdigs), xdigs[(u % base) + 1])

\* What is printed: cp is the text, and the rest says how.
Field(s, ch, cp, size, dprec) ==
  [ch |-> ch, cp |-> cp, size |-> size, dprec |-> dprec, flags |-> s.flags, sign |-> s.sign,
   width |-> s.width, float |-> FALSE, zero |-> FALSE, expt |-> 0, ndig |-> 0, expstr |-> <<>>]

Plainly(s, ch, cp) == [Field(s, ch, cp, Len(cp), 0) EXCEPT !.sign = ""]

NumberField(s, ch, u, base, xdigs, sign) ==
  LET digits == IF u # 0 \/ s.prec # 0 THEN DigitsIn(u, base, xdigs) ELSE <<>>
      alt == base = 8 /\ "ALT" \in s.flags /\ digits # <<>> /\ digits[1] # "0"
      cp == IF alt THEN <<"0">> \o digits ELSE digits
      prefix == ch = "p" \/ (base = 16 /\ "ALT" \in s.flags /\ u # 0)
  IN  [Field(s, IF ch = "p" THEN "x" ELSE ch, cp, Len(cp), s.prec) EXCEPT
         !.sign = sign,
         !.flags = (IF s.prec >= 0 THEN @ \ {"ZEROPAD"} ELSE @) \cup (IF prefix THEN {"HEXPREFIX"} ELSE {})]

\* The digits of a double, their number and the place of the point, with the zeros that
\* __dtoa leaves off.
cvt(d, prec, flags, ch) ==
  LET ndigits == IF ch \in {"e", "E"} THEN prec + 1 ELSE prec
      GivenR(r) ==
        LET trailing == ch \notin {"g", "G"} \/ "ALT" \in flags
            decpt == IF ch = "f" /\ r.ds[1] = 0 /\ d # Zero THEN 1 - ndigits ELSE r.decpt
            bp == IF ch = "f" THEN ndigits + decpt ELSE ndigits
            GivenNdig(ndig) ==
              [digits |-> [i \in 1 .. ndig |-> IF i <= Len(r.ds) THEN LowerDigits[r.ds[i] + 1] ELSE "0"],
               ndig |-> ndig, expt |-> decpt]
        IN  GivenNdig(IF ~trailing THEN Len(r.ds) ELSE IF d = Zero \/ Len(r.ds) < bp THEN bp ELSE Len(r.ds))
  IN  GivenR(dtoa(d, IF ch = "f" THEN 3 ELSE 2, ndigits))

exponent(exp, fmtch) ==
  LET e == IF exp < 0 THEN -exp ELSE exp
  IN  <<fmtch, IF exp < 0 THEN "-" ELSE "+">> \o (IF e > 9 THEN <<>> ELSE <<"0">>) \o DigitsIn(e, 10, LowerDigits)

\* size, from the style, the place of the point and the number of digits.
FloatSize(ch, expt, ndig, prec, alt, expsize) ==
  CASE ch \in {"e", "E"} -> expsize + ndig + (IF ndig > 1 \/ alt THEN 1 ELSE 0)
    [] ch = "f" -> IF expt > 0 THEN expt + (IF prec # 0 \/ alt THEN prec + 1 ELSE 0) ELSE prec + 2
    [] ch = "g" /\ expt >= ndig -> expt + (IF alt THEN 1 ELSE 0)
    [] ch = "g" /\ expt < ndig -> ndig + (IF expt > 0 THEN 1 ELSE 2 - expt)

FloatField(s, ch0, arg) ==
  LET prec == IF s.prec = -1 THEN DEFPREC ELSE IF ch0 \in {"g", "G"} /\ s.prec = 0 THEN 1 ELSE s.prec
      GivenC(c) ==
        LET alt == "ALT" \in s.flags
            GivenCh(ch) ==
              LET expt == IF ch \in {"e", "E"} THEN c.expt - 1 ELSE c.expt
                  expstr == IF ch \in {"e", "E"} THEN exponent(expt, ch) ELSE <<>>
                  sign == IF arg.neg /\ arg.d # Zero THEN "-" ELSE s.sign
              IN  [Field(s, ch, c.digits, FloatSize(ch, expt, c.ndig, prec, alt, Len(expstr)), 0) EXCEPT
                     !.float = TRUE, !.zero = arg.d = Zero, !.sign = sign, !.expt = expt, !.ndig = c.ndig, !.expstr = expstr]
        IN  GivenCh(IF ch0 \notin {"g", "G"} THEN ch0
                    ELSE IF c.expt <= -4 \/ c.expt > prec THEN (IF ch0 = "g" THEN "e" ELSE "E") ELSE "g")
  IN  GivenC(cvt(arg.d, prec, s.flags, ch0))

\* A conversion with its argument.
Converts(s, ch, args) ==
  LET int == GetArg(s, args, IntWords(IF ch \in {"D", "O", "U"} THEN s.flags \cup {"LONGINT"} ELSE s.flags))
      bits == ArgBits(IF ch \in {"D", "O", "U"} THEN s.flags \cup {"LONGINT"} ELSE s.flags)
      v == SignedOf(int.arg.n, bits)
      u == int.arg.n % 2^bits
      one == GetArg(s, args, 1)
      two == GetArg(s, args, 2)
      text == one.arg.s
  IN  CASE ch \in {"d", "i", "D"} ->
             [s |-> int.s, field |-> NumberField(s, ch, IF v < 0 THEN -v ELSE v, 10, LowerDigits,
                                                 IF v < 0 THEN "-" ELSE s.sign)]
        [] ch \in {"o", "O"} -> [s |-> int.s, field |-> NumberField(s, ch, u, 8, LowerDigits, "")]
        [] ch \in {"u", "U"} -> [s |-> int.s, field |-> NumberField(s, ch, u, 10, LowerDigits, "")]
        [] ch = "x" -> [s |-> int.s, field |-> NumberField(s, ch, u, 16, LowerDigits, "")]
        [] ch = "X" -> [s |-> int.s, field |-> NumberField(s, ch, u, 16, UpperDigits, "")]
        [] ch = "p" -> [s |-> one.s, field |-> NumberField(s, ch, one.arg.n % 2^IntWidth, 16, LowerDigits, "")]
        [] ch = "c" -> [s |-> one.s, field |-> Plainly(s, ch, <<text[1]>>)]
        [] ch = "s" ->
             [s |-> one.s, field |-> Plainly(s, ch, IF s.prec >= 0 /\ s.prec < Len(text) THEN SubSeq(text, 1, s.prec)
                                                    ELSE text)]
        [] ch \in {"e", "E", "f", "g", "G"} ->
             [s |-> two.s,
              field |-> CASE two.arg.type = "Inf" ->
                               [Field(s, ch, <<"I", "n", "f">>, 3, 0) EXCEPT !.sign = IF two.arg.neg THEN "-" ELSE @]
                          [] two.arg.type = "NaN" -> Field(s, ch, <<"N", "a", "N">>, 3, 0)
                          [] OTHER -> FloatField(s, ch, two.arg)]
        [] OTHER -> [s |-> s, field |-> Plainly(s, ch, <<ch>>)]
-----------------------------------------------------------------------------
(* Output, in pieces.                                                      *)

__sprint(o) ==
  IF o.pend = <<>> THEN [o EXCEPT !.cnt = 0]
  ELSE IF o.left = 0 THEN [o EXCEPT !.err = TRUE, !.pend = <<>>, !.cnt = 0]
  ELSE [o EXCEPT !.out = @ \o o.pend, !.pend = <<>>, !.cnt = 0, !.left = @ - 1]

PrintPiece(o, text) ==
  IF o.err THEN o
  ELSE LET p == [o EXCEPT !.pend = @ \o text, !.cnt = @ + 1] IN IF p.cnt >= NIOV THEN __sprint(p) ELSE p

RECURSIVE PrintPad(_, _, _)
PrintPad(o, n, with) ==
  IF n <= 0 THEN o
  ELSE IF n > PADSIZE THEN PrintPad(PrintPiece(o, [i \in 1 .. PADSIZE |-> with]), n - PADSIZE, with)
  ELSE PrintPiece(o, [i \in 1 .. n |-> with])

PrintFlush(o) == IF o.err THEN o ELSE __sprint(o)

\* A number in floating point, glued together.
PrintFloat(o, x) ==
  LET alt == "ALT" \in x.flags
      from(a, b) == SubSeq(x.cp, a, b)
      point(p) == PrintPiece(p, <<".">>)
  IN  IF x.ch \in {"f", "g"}
        THEN IF x.zero
               THEN LET p == PrintPiece(o, <<"0">>)
                    IN  IF x.expt < x.ndig \/ alt THEN PrintPad(point(p), x.ndig - 1, "0") ELSE p
             ELSE IF x.expt <= 0
               THEN PrintPiece(PrintPad(point(PrintPiece(o, <<"0">>)), -x.expt, "0"), from(1, x.ndig))
             ELSE IF x.expt >= x.ndig
               THEN LET p == PrintPad(PrintPiece(o, from(1, x.ndig)), x.expt - x.ndig, "0")
                    IN  IF alt THEN point(p) ELSE p
             ELSE PrintPiece(point(PrintPiece(o, from(1, x.expt))), from(x.expt + 1, x.ndig))
      ELSE LET lead == PrintPiece(o, <<x.cp[1], ".">>)
               p == IF x.ndig > 1 \/ alt
                      THEN IF x.zero THEN PrintPad(lead, x.ndig - 1, "0") ELSE PrintPiece(lead, from(2, x.ndig))
                      ELSE PrintPiece(o, <<x.cp[1]>>)
           IN  PrintPiece(p, x.expstr)

RealSize(x) ==
  (IF x.dprec > x.size THEN x.dprec ELSE x.size)
  + (IF x.sign # "" THEN 1 ELSE IF "HEXPREFIX" \in x.flags THEN 2 ELSE 0)

PrintField(o, x) ==
  LET pad == x.width - RealSize(x)
      left == "LADJUST" \in x.flags
      zeros == "ZEROPAD" \in x.flags
      Blanks(p) == IF ~left /\ ~zeros THEN PrintPad(p, pad, " ") ELSE p
      Prefix(p) == IF x.sign # "" THEN PrintPiece(p, <<x.sign>>)
                   ELSE IF "HEXPREFIX" \in x.flags THEN PrintPiece(p, <<"0", x.ch>>) ELSE p
      Filled(p) == IF ~left /\ zeros THEN PrintPad(p, pad, "0") ELSE p
      Precise(p) == PrintPad(p, x.dprec - x.size, "0")
      Text(p) == IF x.float THEN PrintFloat(p, x) ELSE PrintPiece(p, SubSeq(x.cp, 1, x.size))
      Trailing(p) == IF left THEN PrintPad(p, pad, " ") ELSE p
  IN  PrintFlush(Trailing(Text(Precise(Filled(Prefix(Blanks(o)))))))

FormatStop(s, o) == [s |-> s, o |-> PrintFlush(o)]

\* From one directive to the next: the text before it, what it says, and what it prints.
RECURSIVE FormatFrom(_, _, _, _), FormatDirective(_, _, _, _), FormatSpecified(_, _, _, _),
          FormatConverted(_, _, _, _), FormatOn(_, _, _, _)
FormatFrom(f, s, o, args) ==
  LET end == CHOOSE j \in s.i .. Len(f) + 1 :
               FmtAt(f, j).c \in {"%", EndToken} /\ \A k \in s.i .. j - 1 : f[k].c # "%"
      lit == [k \in 1 .. end - s.i |-> f[s.i + k - 1].c]
  IN  FormatDirective(f, [s EXCEPT !.i = end], args,
                      IF lit = <<>> THEN o ELSE [PrintPiece(o, lit) EXCEPT !.ret = @ + Len(lit)])

FormatDirective(f, s, args, p) ==
  IF p.err \/ s.i > Len(f) THEN FormatStop(s, p)
  ELSE FormatSpecified(f, Specified(f, [s EXCEPT !.i = @ + 1, !.flags = {}, !.width = 0, !.prec = -1, !.sign = ""], args),
                       args, p)

FormatSpecified(f, spec, args, p) ==
  LET ch == FmtAt(f, spec.i).c
  IN  IF ch = EndToken THEN FormatStop(spec, p) ELSE FormatConverted(f, Converts(spec, ch, args), args, p)

FormatConverted(f, conv, args, p) ==
  LET real == RealSize(conv.field)
  IN  FormatOn(f, conv.s, args,
               [PrintField(p, conv.field) EXCEPT
                  !.ret = @ + IF conv.field.width > real THEN conv.field.width ELSE real])

FormatOn(f, s, args, q) == IF q.err THEN FormatStop(s, q) ELSE FormatFrom(f, [s EXCEPT !.i = @ + 1], q, args)

PrintfDone(r) ==
  [out |-> r.o.out, ret |-> IF r.o.err THEN -1 ELSE r.o.ret, astray |-> r.s.astray, over |-> r.s.table.over]

\* left is the number of writes the stream takes before it fails.
vfprintf(f, args, left) ==
  PrintfDone(FormatFrom(f, [i |-> 1, flags |-> {}, width |-> 0, prec |-> -1, sign |-> "", ap |-> 0, nextarg |-> 1,
                            built |-> FALSE, table |-> [at |-> <<>>, over |-> FALSE], astray |-> FALSE],
                        [out |-> <<>>, pend |-> <<>>, cnt |-> 0, left |-> left, err |-> FALSE, ret |-> 0], args))

Unlimited == 1000

(* r: what vfprintf does to a stream that takes all.                       *)

\* To an unbuffered file, through a buffer on the stack that is written at the end.
__sbprintf(r, left) == IF left = 0 /\ r.out # <<>> THEN [r EXCEPT !.out = <<>>, !.ret = -1] ELSE r

\* To a string of n characters, the last of which ends it.
vsnprintf(r, n) ==
  LET room == IF n = 0 THEN 0 ELSE n - 1
  IN  [str |-> IF Len(r.out) > room THEN SubSeq(r.out, 1, room) ELSE r.out, ret |-> r.ret]

\* To a string of its own, if there is memory.
vasprintf(r, memory) ==
  IF ~memory \/ r.ret = -1 THEN [str |-> <<>>, ret |-> -1] ELSE [str |-> r.out, ret |-> r.ret]
-----------------------------------------------------------------------------
(* What is to be printed.  A directive has a position (0: the next), flags, *)
(* width and precision (none, a number, the next argument, an argument by  *)
(* its number), a modifier and a conversion, "lit" for plain text.         *)

NumToken(n) == <<[c |-> "num", n |-> n]>>

RenderSize(x) ==
  CASE x[1] = "none" -> <<>>
    [] x[1] = "num" -> NumToken(x[2])
    [] x[1] = "star" -> <<Token("*")>>
    [] x[1] = "at" -> <<Token("*")>> \o NumToken(x[2]) \o <<Token("$")>>

Render(dir) ==
  IF dir.conv = "lit" THEN <<Token("t")>>
  ELSE <<Token("%")>>
       \o (IF dir.pos = 0 THEN <<>> ELSE NumToken(dir.pos) \o <<Token("$")>>)
       \o SelectSeq([i \in 1 .. 5 |-> Token(<<"#", "-", "+", " ", "0">>[i])], LAMBDA t : t.c \in dir.flags)
       \o RenderSize(dir.width)
       \o (IF dir.prec[1] = "none" THEN <<>> ELSE <<Token(".")>> \o RenderSize(dir.prec))
       \o [i \in 1 .. Len(dir.mod) |-> Token(dir.mod[i])]
       \o <<Token(dir.conv)>>

Rendered(dirs) == FoldLeft(LAMBDA acc, d : acc \o Render(d), <<>>, dirs)

RefDigits(u, base, xdigs) ==
  LET k == CHOOSE j \in 1 .. 12 : base^j > u /\ (j = 1 \/ base^(j - 1) <= u)
  IN  [i \in 1 .. k |-> xdigs[((u \div base^(k - i)) % base) + 1]]

RefPadded(prefix, body, w, left, zero) ==
  LET fill(c) == [i \in 1 .. w - Len(prefix) - Len(body) |-> c]
  IN  IF left THEN prefix \o body \o fill(" ")
      ELSE IF zero THEN prefix \o fill("0") \o body
      ELSE fill(" ") \o prefix \o body

RefSign(dir, neg) ==
  IF neg THEN <<"-">> ELSE IF "+" \in dir.flags THEN <<"+">> ELSE IF " " \in dir.flags THEN <<" ">> ELSE <<>>

\* An integer.  "hh" is taken for "h" (vfprintf.c:452), and 0 with "%#.0o" is nothing.
RefInteger(dir, arg, w, prec, left) ==
  LET bits == CASE dir.mod \in {<<"h">>, <<"h", "h">>} -> ShortWidth
                [] dir.mod \in {<<"l", "l">>, <<"q">>, <<"j">>} -> LongLongWidth
                [] OTHER -> IntWidth
      signed == dir.conv \in {"d", "i", "D"}
      v == SignedOf(arg.n, bits)
      u == IF signed THEN (IF v < 0 THEN -v ELSE v) ELSE arg.n % 2^bits
      base == CASE dir.conv \in {"o", "O"} -> 8 [] dir.conv \in {"x", "X", "p"} -> 16 [] OTHER -> 10
      digits == IF u = 0 /\ prec = 0 THEN <<>> ELSE RefDigits(u, base, IF dir.conv = "X" THEN UpperDigits ELSE LowerDigits)
      zeros == IF prec > Len(digits) THEN prec - Len(digits)
               ELSE IF base = 8 /\ "#" \in dir.flags /\ u # 0 THEN 1 ELSE 0
      prefix == IF dir.conv = "p" \/ (base = 16 /\ "#" \in dir.flags /\ u # 0)
                  THEN <<"0", IF dir.conv = "X" THEN "X" ELSE "x">>
                ELSE IF signed THEN RefSign(dir, v < 0) ELSE <<>>
  IN  RefPadded(prefix, [i \in 1 .. zeros |-> "0"] \o digits, w, left, "0" \in dir.flags /\ prec = -1)

IsFloat(dir) == dir.conv \in {"e", "E", "f", "g", "G"}

\* The bare number: no width, no flag but "#", no sign.
Bare(dir, prec) ==
  [dir EXCEPT !.flags = @ \cap {"#"}, !.width = <<"none">>, !.pos = 0,
              !.prec = IF prec = -1 THEN <<"none">> ELSE <<"num", prec>>]

RefText(dir, arg, w0, prec) ==
  LET w == IF w0 < 0 THEN -w0 ELSE w0
      left == "-" \in dir.flags \/ w0 < 0
      text(body) == RefPadded(<<>>, body, w, left, "0" \in dir.flags)
  IN  CASE dir.conv = "lit" -> <<"t">>
        [] dir.conv = "s" -> text(SubSeq(arg.s, 1, IF prec >= 0 /\ prec < Len(arg.s) THEN prec ELSE Len(arg.s)))
        [] dir.conv = "c" -> text(<<arg.s[1]>>)
        [] dir.conv = "%" -> text(<<"%">>)
        [] IsFloat(dir) ->
             RefPadded(RefSign(dir, arg.neg /\ (arg.d # Zero \/ arg.type = "Inf")),
                       vfprintf(Render(Bare(dir, prec)), <<[arg EXCEPT !.neg = FALSE]>>, Unlimited).out,
                       w, left, "0" \in dir.flags)
        [] OTHER -> RefInteger(dir, arg, w, prec, left)

\* The arguments of a directive: those of its asterisks first.
RefStep(acc, dir, args) ==
  LET star(x, k) == CASE x[1] = "none" -> [val |-> -1, k |-> k]
                      [] x[1] = "num" -> [val |-> x[2], k |-> k]
                      [] x[1] = "star" -> [val |-> SignedOf(args[k].n, IntWidth), k |-> k + 1]
                      [] x[1] = "at" -> [val |-> SignedOf(args[x[2]].n, IntWidth), k |-> k]
      w == star(dir.width, acc.k)
      p == star(dir.prec, w.k)
      at == IF dir.pos = 0 THEN p.k ELSE dir.pos
      takes == dir.conv \notin {"lit", "%"}
  IN  [text |-> acc.text \o RefText(dir, IF takes THEN args[at] ELSE Astray,
                                    IF dir.width[1] = "none" THEN 0 ELSE w.val, IF p.val < 0 THEN -1 ELSE p.val),
       k |-> IF takes THEN at + 1 ELSE p.k]

RefPrinted(dirs, args) == FoldLeft(LAMBDA acc, d : RefStep(acc, d, args), [text |-> <<>>, k |-> 1], dirs).text

\* A bare number in floating point: the nearest with the digits its style has.
CharValue(c) == (CHOOSE i \in 1 .. 10 : LowerDigits[i] = c) - 1

FirstAt(t, cs) == IF \E i \in DOMAIN t : t[i] \in cs THEN CHOOSE i \in DOMAIN t : t[i] \in cs /\ \A j \in 1 .. i - 1 : t[j] \notin cs
                  ELSE Len(t) + 1

FloatRight(conv, alt, prec0, d, t) ==
  LET style == CASE conv = "E" -> "e" [] conv = "G" -> "g" [] OTHER -> conv
      prec == IF prec0 = -1 THEN DEFPREC ELSE IF style = "g" /\ prec0 = 0 THEN 1 ELSE prec0
      epos == FirstAt(t, {"e", "E"})
      mant == SubSeq(t, 1, epos - 1)
      dot == FirstAt(mant, {"."})
      whole == SubSeq(mant, 1, dot - 1)
      part == SubSeq(mant, dot + 1, Len(mant))
      value(cs) == FoldLeft(LAMBDA n, c : 10 * n + CharValue(c), 0, cs)
      n == value(whole \o part)
      expdigits == SubSeq(t, epos + 2, Len(t))
      exp == IF epos > Len(t) THEN 0 ELSE IF t[epos + 1] = "-" THEN -value(expdigits) ELSE value(expdigits)
      signif == IF n = 0 THEN 1 ELSE Len(RefDigits(n, 10, LowerDigits))
      top == exp - Len(part) + signif - 1
      last == top - prec + 1
      n1 == n * 10^(prec - signif)
  IN  /\ Len(whole) = 1 \/ (Len(whole) > 1 /\ whole[1] # "0")
      /\ epos <= Len(t) => /\ Len(whole) = 1 /\ (d # Zero => whole # <<"0">>)
                           /\ Len(expdigits) = 2 \/ (Len(expdigits) > 2 /\ expdigits[1] # "0")
                           /\ t[epos] = (IF conv \in {"E", "G"} THEN "E" ELSE "e")
      /\ d = Zero => n = 0 /\ exp = 0
      /\ CASE style = "f" ->
                /\ epos > Len(t) /\ Len(part) = prec /\ (dot <= Len(mant)) = (prec > 0 \/ alt)
                /\ d # Zero => Rounded10(d, n, -prec, FALSE)
           [] style = "e" ->
                /\ epos <= Len(t) /\ Len(part) = prec /\ (dot <= Len(mant)) = (prec > 0 \/ alt)
                /\ d # Zero => Rounded10(d, n, exp - prec, n = 10^prec)
           [] style = "g" ->
                /\ d # Zero => signif <= prec /\ Rounded10(d, n1, last, n1 = 10^(prec - 1))
                /\ (epos <= Len(t)) = (d # Zero /\ (top < -4 \/ top >= prec))
                /\ IF alt THEN dot <= Len(mant) /\ (IF d = Zero THEN Len(part) + 1 ELSE signif) = prec
                   ELSE dot <= Len(mant) => part[Len(part)] # "0"
-----------------------------------------------------------------------------
PrintfInit ==
  /\ \/ \E x \in PrintedFields : question = <<"printf", x.dirs, x.args, Unlimited>>
     \/ \E x \in PrintedFormats, left \in {0, 1, 2, Unlimited} : question = <<"printf", x.dirs, x.args, left>>
  /\ Unanswered

AllPrinted(to, q) ==
  LET r == to[Unlimited]
  IN  [file |-> to[q[4]], tty |-> __sbprintf(r, q[4]), strs |-> [n \in {0, 1, 4} |-> vsnprintf(r, n)],
       own |-> [memory \in BOOLEAN |-> vasprintf(r, memory)]]

PrintfAnswer(q) == AllPrinted([left \in {q[4], Unlimited} |-> vfprintf(Rendered(q[2]), q[3], left)], q)

PrintfCompute == question[1] = "printf" /\ Ask(PrintfAnswer)

\* Numbers with a $ and "j" for the modifier do not go together: __find_arguments
\* (vfprintf.c:970-1096) does not know "j" and takes its argument for an int; and a position
\* of twice the table or more is beyond it even after it has grown (1197).
Beyond(dirs) ==
  \/ \E i, k \in DOMAIN dirs : dirs[i].mod = <<"j">> /\ dirs[k].pos # 0
  \/ \E i \in DOMAIN dirs : dirs[i].pos >= 2 * STATIC_ARG_TBL_SIZE

\* What vfprintf prints (vfprintf.c:163) is what the directives and their arguments say,
\* whether the arguments come in order or by number, through the pieces, the padding and the
\* digits that are glued together; what it returns is the number of characters, although it
\* counts them apart (528-556, 728-732, 806), or EOF just if a write failed.  The strings of
\* vsnprintf (vsnprintf.c:44) are cut at their size and those of vasprintf are whole.
PrintfExact ==
  question[1] = "printf" /\ ~Unanswered /\ ~Beyond(question[2]) =>
    LET dirs == question[2]
        args == question[3]
        f == answer.file
        Cut(text, n) == SubSeq(text, 1, IF Len(text) < n THEN Len(text) ELSE n)
    IN  /\ ~f.astray /\ ~f.over
        /\ answer.own[FALSE].ret = -1
        /\ \A text \in {RefPrinted(dirs, args)} :
             /\ IF f.ret = -1 THEN question[4] # Unlimited /\ IsPrefix(f.out, text) /\ f.out # text
                ELSE f.out = text /\ f.ret = Len(text)
             /\ answer.tty.ret = (IF question[4] = 0 /\ text # <<>> THEN -1 ELSE Len(text))
             /\ \A n \in {0, 1, 4} :
                  answer.strs[n] = [str |-> Cut(text, IF n = 0 THEN 0 ELSE n - 1), ret |-> Len(text)]
             /\ answer.own[TRUE] = [str |-> text, ret |-> Len(text)]
             /\ (/\ Len(dirs) = 1 /\ IsFloat(dirs[1]) /\ args[1].type = "double" /\ ~args[1].neg
                 /\ dirs[1].flags \subseteq {"#"} /\ dirs[1].width = <<"none">>)
                => FloatRight(dirs[1].conv, "#" \in dirs[1].flags,
                              IF dirs[1].prec[1] = "none" THEN -1 ELSE dirs[1].prec[2], args[1].d, text)
=============================================================================
