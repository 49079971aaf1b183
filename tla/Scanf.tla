------------------------------- MODULE Scanf -------------------------------
(***************************************************************************)
(* vfscanf (src/core/BStandardIO/vfscanf.c): text taken apart as a format  *)
(* says, from a file that is read a piece at a time or from a string.      *)
(*                                                                         *)
(* Characters are those of ScanAlphabet, in its order; the last of them    *)
(* has the largest code there is.  FLOATING_POINT is not defined for this  *)
(* file, so that %f takes the path of the conversions nobody knows and     *)
(* reads a decimal integer.                                                *)
(***************************************************************************)
EXTENDS Numerals

CONSTANTS ScanBuf,               \* BUF, the longest number and its end
          Piece,                 \* the characters a file gives at a time
          ByteBits, ShortBits,   \* bits of signed char and short
          ScanTexts,             \* what is read
          ScanFormats            \* sequences of directives

ScanAlphabet == <<" ", "%", "+", "-", "0", "1", "7", "8", "X", "]", "^", "a", "b", "c", "f", "x", "z">>

CodeOf == [c \in ToSet(ScanAlphabet) |-> CHOOSE i \in DOMAIN ScanAlphabet : ScanAlphabet[i] = c]

Blanks == {" "}
-----------------------------------------------------------------------------
(* The stream: r characters from `at' on are in the buffer.                *)

Refilled(s) ==
  LET left == Len(s.text) - s.at + 1 IN [s EXCEPT !.r = IF left < Piece THEN left ELSE Piece]

\* A buffer that is empty after this is the end of the input.
Ready(s) == IF s.r > 0 THEN s ELSE Refilled(s)

Step(s) == [s EXCEPT !.r = @ - 1, !.at = @ + 1, !.nread = @ + 1]

\* A character is pushed back, and not counted.
PushBack(s) == [s EXCEPT !.r = @ + 1, !.at = @ - 1, !.nread = @ - 1]

Here(s) == s.text[s.at]

Endless == 1000

\* The characters of a class, as many as the width allows.
RECURSIVE Takes(_, _, _)
Takes(s, class, width) ==
  IF s.r = 0 \/ Here(s) \notin class THEN s
  ELSE IF width = 1 THEN Step(s)
  ELSE Takes(Ready(Step(s)), class, width - 1)

\* %*c: what is in the buffer, and then the next.
RECURSIVE Skips(_, _)
Skips(s, width) ==
  IF s.r >= width THEN [s EXCEPT !.r = @ - width, !.at = @ + width, !.nread = @ + width]
  ELSE LET t == Refilled([s EXCEPT !.at = @ + s.r, !.nread = @ + s.r])
       IN  IF t.r = 0 THEN t ELSE Skips(t, width - s.r)
-----------------------------------------------------------------------------
(* A scanset, from behind its bracket.  c is the code of the last member.  *)

RECURSIVE SetNext(_, _, _, _)
SetNext(f, i, c, set) ==
  LET n == CharNth(f, i)
      m == CharNth(f, i + 1)
  IN  CASE n = "NUL" -> [set |-> set, i |-> i]
        [] n = "]" -> [set |-> set, i |-> i + 1]
        [] n = "-" /\ (m \in {"NUL", "]"} \/ CodeOf[m] < c) -> SetNext(f, i + 1, CodeOf["-"], set \cup {CodeOf["-"]})
        [] n = "-" /\ ~(m \in {"NUL", "]"} \/ CodeOf[m] < c) ->
             LET last == IF CodeOf[m] > c THEN CodeOf[m] ELSE c + 1
             IN  SetNext(f, i + 2, last, set \cup (c + 1 .. last))
        [] OTHER -> SetNext(f, i + 1, CodeOf[n], set \cup {CodeOf[n]})

\* The class, where the format goes on, and whether an entry beyond the table was written.
__sccl(f, i) ==
  LET not == CharNth(f, i) = "^"
      j == IF not THEN i + 1 ELSE i
      c == CharNth(f, j)
      t == IF c = "NUL" THEN [set |-> {}, i |-> j] ELSE SetNext(f, j + 1, CodeOf[c], {CodeOf[c]})
      in == {x \in ToSet(ScanAlphabet) : CodeOf[x] \in t.set}
  IN  [class |-> IF not THEN ToSet(ScanAlphabet) \ in ELSE in, i |-> t.i,
       over |-> \E k \in t.set : k > Len(ScanAlphabet)]
-----------------------------------------------------------------------------
(* Integers, a character at a time.                                        *)

BaseFix(base) == IF base = 0 THEN 10 ELSE base

Scanning(base, pfxok) ==
  [base |-> base, signok |-> TRUE, havesign |-> FALSE, ndigits |-> TRUE, nzdigits |-> TRUE, pfxok |-> pfxok]

SeenDigit(g) == [g EXCEPT !.signok = FALSE, !.pfxok = FALSE, !.ndigits = FALSE]

\* The first zero may begin a prefix.
ZeroDigit(g) ==
  LET h == IF g.base = 0 THEN [g EXCEPT !.base = 8, !.pfxok = TRUE] ELSE g
  IN  IF g.nzdigits THEN [h EXCEPT !.signok = FALSE, !.nzdigits = FALSE, !.ndigits = FALSE] ELSE SeenDigit(h)

\* What a character does to the state, and whether it belongs to the number.
Belongs(g, c, len) ==
  CASE c = "0" -> TRUE
    [] c \in {"1", "7"} -> TRUE
    [] c = "8" -> BaseFix(g.base) > 8
    [] c \in {"a", "b", "c", "f"} -> g.base > 10
    [] c \in {"+", "-"} -> g.signok
    [] c \in {"x", "X"} -> g.pfxok /\ len = IF g.havesign THEN 2 ELSE 1
    [] OTHER -> FALSE

AfterChar(g, c) ==
  CASE c = "0" -> ZeroDigit(g)
    [] c \in {"1", "7", "8"} -> [SeenDigit(g) EXCEPT !.base = BaseFix(@)]
    [] c \in {"a", "b", "c", "f"} -> SeenDigit(g)
    [] c \in {"+", "-"} -> [g EXCEPT !.signok = FALSE, !.havesign = TRUE]
    [] c \in {"x", "X"} -> [g EXCEPT !.base = 16, !.pfxok = FALSE]

RECURSIVE Collects(_, _, _, _)
Collects(s, g, buf, width) ==
  IF width = 0 \/ s.r = 0 \/ ~Belongs(g, Here(s), Len(buf)) THEN [s |-> s, g |-> g, buf |-> buf]
  ELSE Collects(Ready(Step(s)), AfterChar(g, Here(s)), Append(buf, Here(s)), width - 1)

NumberWidth(width) == IF width = 0 \/ width > ScanBuf - 1 THEN ScanBuf - 1 ELSE width

StoreBits(flags) ==
  CASE "POINTER" \in flags -> NumBits
    [] flags \cap {"MAXINT", "LLONG"} # {} -> MaxNumBits
    [] flags \cap {"SIZEINT", "PTRINT", "LONG"} # {} -> NumBits
    [] "SHORT" \in flags -> ShortBits
    [] "SHORTSHORT" \in flags -> ByteBits
    [] OTHER -> NumBits

Stored(n, bits) == <<"int", bits, n % 2^bits>>

Stores(s, flags, value) ==
  IF "SUPPRESS" \in flags THEN s ELSE [s EXCEPT !.out = Append(@, value), !.nassigned = @ + 1]

InputFailure(s) == [s EXCEPT !.ret = IF s.nassigned = 0 THEN -1 ELSE s.nassigned]

MatchFailure(s) == [s EXCEPT !.ret = s.nassigned]

\* A sign alone, or the x of a prefix without digits, is pushed back.
ScanInteger(s, x) ==
  LET c == Collects(s, Scanning(x.base, "PFXOK" \in x.flags), <<>>, NumberWidth(x.width))
      hex == c.buf # <<>> /\ Last(c.buf) \in {"x", "X"}
      buf == IF hex THEN Front(c.buf) ELSE c.buf
      res == IF "UNSIGNED" \in x.flags THEN strtoumax(buf, c.g.base) ELSE strtoimax(buf, c.g.base)
  IN  IF c.g.ndigits THEN MatchFailure(IF c.buf = <<>> THEN c.s ELSE PushBack(c.s))
      ELSE Stores(IF hex THEN PushBack(c.s) ELSE c.s, x.flags, Stored(res.val, StoreBits(x.flags)))
-----------------------------------------------------------------------------
(* The format.                                                             *)

\* From behind a % to the conversion: flags, width, and what the conversion reads.
RECURSIVE Directs(_, _)
Directs(f, x) ==
  LET c == CharNth(f, x.i)
      twice == CharNth(f, x.i + 1) = c
      flag(name) == Directs(f, [x EXCEPT !.i = @ + 1, !.flags = @ \cup {name}])
      both(one, two) == IF twice THEN Directs(f, [x EXCEPT !.i = @ + 2, !.flags = @ \cup {two}]) ELSE flag(one)
      done(ct, base, flags) == [x EXCEPT !.i = @ + 1, !.ct = ct, !.base = base, !.flags = @ \cup flags]
  IN  CASE c = "*" -> flag("SUPPRESS")
        [] c = "j" -> flag("MAXINT")
        [] c = "L" -> flag("LONGDBL")
        [] c = "h" -> both("SHORT", "SHORTSHORT")
        [] c = "l" -> both("LONG", "LLONG")
        [] c = "q" -> flag("LLONG")
        [] c = "t" -> flag("PTRINT")
        [] c = "z" -> flag("SIZEINT")
        [] c \in {"0", "1", "2", "3", "4", "5", "6", "7", "8", "9"} ->
             Directs(f, [x EXCEPT !.i = @ + 1, !.width = @ * 10 + DigitOf[c]])
        [] c = "%" -> done("literal", 0, {})
        [] c = "D" -> done("int", 10, {"LONG"})
        [] c = "d" -> done("int", 10, {})
        [] c = "i" -> done("int", 0, {})
        [] c = "O" -> done("int", 8, {"LONG", "UNSIGNED"})
        [] c = "o" -> done("int", 8, {"UNSIGNED"})
        [] c = "u" -> done("int", 10, {"UNSIGNED"})
        [] c \in {"X", "x"} -> done("int", 16, {"PFXOK", "UNSIGNED"})
        [] c = "s" -> done("string", 0, {})
        [] c = "[" -> LET t == __sccl(f, x.i + 1)
                      IN  [x EXCEPT !.i = t.i, !.ct = "ccl", !.class = t.class, !.over = t.over]
        [] c = "c" -> done("char", 0, {})
        [] c = "p" -> done("int", 16, {"POINTER", "PFXOK", "UNSIGNED"})
        [] c = "n" -> done("count", 0, {})
        [] c = "NUL" -> [x EXCEPT !.ct = "end"]
        [] OTHER -> done("int", 10, IF c \in {"E", "F", "G"} THEN {"LONG"} ELSE {})

Literal(s, c) ==
  LET t == Ready(s) IN IF t.r = 0 THEN InputFailure(t) ELSE IF Here(t) # c THEN MatchFailure(t) ELSE Step(t)

\* The characters of a class: from s to t.
ScanText(s, t, flags) == Stores(t, flags, <<"text", SubSeq(s.text, s.at, t.at - 1)>>)

Conversion(s0, x) ==
  LET s1 == Ready(s0)
      s == IF x.ct \in {"ccl", "char"} THEN s1 ELSE Takes(s1, Blanks, Endless)
      width == IF x.width = 0 THEN Endless ELSE x.width
      chars == Skips(s, IF x.width = 0 THEN 1 ELSE x.width)
      members == Takes(s, x.class, width)
  IN  IF s.r = 0 THEN InputFailure(s)
      ELSE CASE x.ct = "char" -> IF chars.at = s.at THEN InputFailure(chars) ELSE ScanText(s, chars, x.flags)
             [] x.ct = "ccl" -> IF members.at = s.at THEN MatchFailure(s) ELSE ScanText(s, members, x.flags)
             [] x.ct = "string" -> ScanText(s, Takes(s, ToSet(ScanAlphabet) \ Blanks, width), x.flags)
             [] x.ct = "int" -> ScanInteger(s, x)

Running == -2

RECURSIVE ScanFrom(_, _, _)
ScanFrom(f, i, s) ==
  LET c == CharNth(f, i)
      GivenX(x) ==
        LET on(t, j) == IF t.ret = Running THEN ScanFrom(f, j, t) ELSE t
        IN  CASE c = "NUL" -> [s EXCEPT !.ret = s.nassigned]
              [] c \in Blanks -> on(Takes(Ready(s), Blanks, Endless), i + 1)
              [] c \notin Blanks \cup {"NUL", "%"} -> on(Literal(s, c), i + 1)
              [] c = "%" ->
                   CASE x.ct = "literal" -> on(Literal(s, "%"), x.i)
                     [] x.ct = "count" -> on(IF "SUPPRESS" \in x.flags THEN s
                                             ELSE [s EXCEPT !.out = Append(@, Stored(s.nread, StoreBits(x.flags)))], x.i)
                     [] x.ct = "end" -> [s EXCEPT !.ret = -1]
                     [] OTHER -> on([Conversion(s, x) EXCEPT !.over = @ \/ x.over], x.i)
  IN  GivenX(Directs(f, [i |-> i + 1, flags |-> {}, width |-> 0, ct |-> "", base |-> 0, class |-> {}, over |-> FALSE]))

Scanned(f, text, r) ==
  ScanFrom(f, 1, [text |-> text, at |-> 1, r |-> r, nread |-> 0, nassigned |-> 0, out |-> <<>>,
                  over |-> FALSE, ret |-> Running])

vfscanf(f, text) == Scanned(f, text, 0)

\* All of a string is in the buffer, and its read function finds nothing more.
vsscanf(text, f) == Scanned(f, text, Len(text))
-----------------------------------------------------------------------------
(* What is to be read.  A directive is "space", "lit" with its character,  *)
(* or "conv" with its modifiers; "set" is what is between the brackets.    *)

DirectiveText(d) ==
  CASE d.kind = "space" -> <<" ">>
    [] d.kind = "lit" -> <<d.conv>>
    [] d.kind = "conv" ->
         <<"%">> \o (IF d.suppress THEN <<"*">> ELSE <<>>) \o (IF d.width = 0 THEN <<>> ELSE Printed(d.width, 10))
         \o d.mod \o <<d.conv>> \o (IF d.conv = "[" THEN Append(d.set, "]") ELSE <<>>)

FormatText(ds) == FoldLeft(LAMBDA acc, d : acc \o DirectiveText(d), <<>>, ds)

RefBase(conv) ==
  CASE conv = "i" -> 0 [] conv = "o" -> 8 [] conv \in {"x", "X", "p"} -> 16 [] OTHER -> 10

Unsign(t) == IF t # <<>> /\ t[1] \in {"+", "-"} THEN Tail(t) ELSE t

InBase(t, base) == t # <<>> /\ \A i \in DOMAIN t : DigitOf[t[i]] \in 0 .. base - 1

\* The base and the digits of a number, none if it is not one.
RefNumeral(t, base) ==
  LET u == Unsign(t)
      hex == Len(u) > 2 /\ u[1] = "0" /\ u[2] \in {"x", "X"} /\ base \in {0, 16}
      digits == IF hex THEN SubSeq(u, 3, Len(u)) ELSE u
      b == IF hex THEN 16 ELSE IF base # 0 THEN base ELSE IF u # <<>> /\ u[1] = "0" THEN 8 ELSE 10
  IN  [base |-> b, digits |-> IF InBase(digits, b) THEN digits ELSE <<>>]

RefValue(t, d) ==
  LET n == RefNumeral(t, RefBase(d.conv))
      m == ValueOf(n.digits, n.base)
      v == IF t[1] = "-" THEN -m ELSE m
      top == 2^MaxNumBits
      clamped == IF v > (top \div 2) - 1 THEN (top \div 2) - 1 ELSE IF v < -(top \div 2) THEN -(top \div 2) ELSE v
      wide == IF d.conv \in {"o", "u", "x", "X", "p"} THEN (IF m >= top THEN top - 1 ELSE v) ELSE clamped
  IN  Stored(wide, CASE d.mod = <<"h">> -> ShortBits [] d.mod = <<"h", "h">> -> ByteBits
                     [] d.mod = <<"l", "l">> -> MaxNumBits [] OTHER -> NumBits)

\* A set's members, where every range rises.
RefClass(set) ==
  LET not == set[1] = "^"
      s == IF not THEN Tail(set) ELSE set
      range(i) == i \in 2 .. Len(s) - 1 /\ s[i] = "-" /\ CodeOf[s[i + 1]] > CodeOf[s[i - 1]]
      in == {c \in ToSet(ScanAlphabet) :
               \/ \E i \in DOMAIN s : c = s[i] /\ ~range(i)
               \/ \E i \in DOMAIN s : range(i) /\ CodeOf[c] \in CodeOf[s[i - 1]] .. CodeOf[s[i + 1]]}
  IN  IF not THEN ToSet(ScanAlphabet) \ in ELSE in

\* The longest beginning of the input that the conversion describes.
RefLength(d, rest) ==
  LET most == IF d.conv = "c" THEN (IF d.width = 0 THEN 1 ELSE d.width)
              ELSE IF d.conv \in {"s", "["} THEN (IF d.width = 0 THEN Len(rest) ELSE d.width)
              ELSE IF d.width = 0 \/ d.width >= ScanBuf THEN ScanBuf - 1 ELSE d.width
      fits(k) == LET t == SubSeq(rest, 1, k)
                 IN  CASE d.conv = "c" -> TRUE
                       [] d.conv = "s" -> " " \notin ToSet(t)
                       [] d.conv = "[" -> ToSet(t) \subseteq RefClass(d.set)
                       [] OTHER -> k = 0 \/ RefNumeral(t, RefBase(d.conv)).digits # <<>>
  IN  Max({k \in 0 .. Len(rest) : k <= most /\ fits(k)})

RefSkip(text, at) ==
  CHOOSE k \in at .. Len(text) + 1 : CharNth(text, k) # " " /\ \A m \in at .. k - 1 : text[m] = " "

RefInput(acc) == [acc EXCEPT !.ret = IF acc.n = 0 THEN -1 ELSE acc.n]

RefDirective(acc, d, text) ==
  LET skip == IF d.kind = "conv" /\ d.conv \in {"c", "["} THEN acc.at ELSE RefSkip(text, acc.at)
      rest == SubSeq(text, skip, Len(text))
      k == RefLength(d, rest)
      item == SubSeq(rest, 1, k)
      value == IF d.conv \in {"c", "s", "["} THEN <<"text", item>> ELSE RefValue(item, d)
      read == [acc EXCEPT !.at = skip + k]
  IN  IF acc.ret # Running THEN acc
      ELSE IF d.kind = "space" THEN [acc EXCEPT !.at = RefSkip(text, acc.at)]
      ELSE IF d.kind = "lit" \/ d.conv = "%"
        THEN IF acc.at > Len(text) THEN RefInput(acc)
             ELSE IF text[acc.at] # d.conv THEN [acc EXCEPT !.ret = acc.n] ELSE [acc EXCEPT !.at = @ + 1]
      ELSE IF d.conv = "n"
        THEN IF d.suppress THEN acc ELSE [acc EXCEPT !.out = Append(@, Stored(acc.at - 1, NumBits))]
      ELSE IF rest = <<>> THEN RefInput([acc EXCEPT !.at = skip])
      ELSE IF k = 0 THEN [acc EXCEPT !.at = skip, !.ret = acc.n]
      ELSE IF d.suppress THEN read
      ELSE [read EXCEPT !.out = Append(@, value), !.n = @ + 1]

RefScanned(ds, text) ==
  LET GivenR(r) ==
        [at |-> r.at, out |-> r.out, ret |-> IF r.ret = Running THEN r.n ELSE r.ret]
  IN  GivenR(FoldLeft(LAMBDA acc, d : RefDirective(acc, d, text),
                      [at |-> 1, n |-> 0, out |-> <<>>, ret |-> Running], ds))
-----------------------------------------------------------------------------
ScanInit ==
  /\ \E ds \in ScanFormats, text \in ScanTexts : question = <<"scan", ds, text>>
  /\ Unanswered

ScanAnswer(q) == [file |-> vfscanf(FormatText(q[2]), q[3]), string |-> vsscanf(q[3], FormatText(q[2]))]

ScanCompute == question[1] = "scan" /\ Ask(ScanAnswer)

\* A range from a character to itself takes in the next character too, one beyond the table
\* if it is the last (vfscanf.c:758-764), where the comment above it says it is no range.
SameEnds(d) == d.conv = "[" /\ \E i \in 2 .. Len(d.set) - 1 : d.set[i] = "-" /\ d.set[i - 1] = d.set[i + 1]

\* scanf (vfscanf.c:98) takes for each directive the longest beginning of the input that the
\* directive describes, however the input comes in pieces, and no character more: what it read
\* too much of a number it pushes back (554-563).  Its count of characters is where it is, it
\* stores just the values the text says, cut to the type of the argument, and it tells the end
\* of the input from a mismatch.
ScansExact ==
  question[1] = "scan" /\ ~Unanswered /\ ~(\E i \in DOMAIN question[2] : SameEnds(question[2][i])) =>
    \A ref \in {RefScanned(question[2], question[3])}, r \in {answer.file, answer.string} :
      /\ r.at = ref.at /\ r.nread = ref.at - 1
      /\ r.out = ref.out /\ r.ret = ref.ret
      /\ ~r.over
=============================================================================
