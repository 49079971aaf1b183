------------------------------- MODULE Strtod -------------------------------
(***************************************************************************)
(* strtod: a string of characters is read as a decimal number and rounded  *)
(* to the nearest double, to even when two are as near.  A double has P    *)
(* bits; the sizes that go with P (how many digits always fit, which       *)
(* powers of ten are exact) are scaled down with it.                       *)
(***************************************************************************)
EXTENDS Integers, SequencesExt, Question

(***************************************************************************)
(* The integers of any length that strtod and dtoa compute with: words of  *)
(* two halves, the least significant word first, in blocks of 2^k words.   *)
(* An operation that fails to get a block returns BIGINT_INVALID, and so   *)
(* does every operation on it; here all blocks are to be had.              *)
(***************************************************************************)
CONSTANTS HalfBits,     \* bits of half a word
          Words,        \* the words the operands are made of
          Factors       \* multipliers

Half == 2^HalfBits
Word == Half * Half
WordBits == 2 * HalfBits
lo(w) == w % Half
hi(w) == w \div Half
\* Storeinc: the two halves, each cut to its width.
Storeinc(h, l) == ((h % Half) * Half) + (l % Half)

Big(x, k) == [x |-> x, k |-> k, sign |-> 0]
wds(b) == Len(b.x)
maxwds(b) == 2^b.k

Zeros(n) == [i \in 1 .. n |-> 0] \o <<>>

\* Without the zero words at the top, down to n words.
RECURSIVE Trimmed(_, _)
Trimmed(x, n) ==
  IF Len(x) > n /\ x[Len(x)] = 0 THEN Trimmed(SubSeq(x, 1, Len(x) - 1), n) ELSE x

i2b(i) == Big(<<i>>, 1)

\* b * m + a.
multadd(b, m, a) ==
  LET Step(s, xi) ==
        LET y == lo(xi) * m + s.a
            z == hi(xi) * m + hi(y)
        IN  [x |-> Append(s.x, (z * Half + lo(y)) % Word), a |-> hi(z)]
      r == FoldLeft(Step, [x |-> <<>>, a |-> a], b.x)
  IN  IF r.a = 0 THEN [b EXCEPT !.x = r.x]
      ELSE [b EXCEPT !.x = Append(r.x, r.a), !.k = IF wds(b) >= maxwds(b) THEN @ + 1 ELSE @]

\* The leading zeros of a word.
hi0bits(x) == CHOOSE n \in 0 .. WordBits : IF x = 0 THEN n = WordBits
                                           ELSE x * 2^n < Word /\ 2 * x * 2^n >= Word

\* One word of b times a, added in from place j on: first its lower half ...
AddLow(c, xa, y, j) ==
  LET Step(s, x) ==
        LET z == lo(x) * y + lo(s.c[s.at]) + s.carry
            z2 == hi(x) * y + hi(s.c[s.at]) + hi(z)
        IN  [c |-> [s.c EXCEPT ![s.at] = Storeinc(z2, z)], at |-> s.at + 1, carry |-> hi(z2)]
      Ended(r) == [r.c EXCEPT ![r.at] = r.carry]
  IN  IF y = 0 THEN c ELSE Ended(FoldLeft(Step, [c |-> c, at |-> j, carry |-> 0], xa))

\* ... then its upper half.
AddHigh(c, xa, y, j) ==
  LET Step(s, x) ==
        LET z == lo(x) * y + hi(s.c[s.at]) + s.carry
            z2 == hi(x) * y + lo(s.c[s.at + 1]) + hi(z)
        IN  [c |-> [s.c EXCEPT ![s.at] = Storeinc(z, s.z2)], at |-> s.at + 1, carry |-> hi(z2), z2 |-> z2]
      Ended(r) == [r.c EXCEPT ![r.at] = r.z2]
  IN  IF y = 0 THEN c ELSE Ended(FoldLeft(Step, [c |-> c, at |-> j, carry |-> 0, z2 |-> c[j]], xa))

\* The words of a * b, before the zeros at the top are cut off.
Product(a, b) ==
  FoldLeft(LAMBDA c, j : AddHigh(AddLow(c, a.x, lo(b.x[j]), j), a.x, hi(b.x[j]), j),
           Zeros(wds(a) + wds(b)), [j \in 1 .. wds(b) |-> j])

ProductBig(a, b) ==
  Big(Trimmed(Product(a, b), 0), IF wds(a) + wds(b) > maxwds(a) THEN a.k + 1 ELSE a.k)

mult(a, b) ==
  LET less == wds(a) < wds(b) IN ProductBig(IF less THEN b ELSE a, IF less THEN a ELSE b)

\* The list p5s of the powers 5^4, 5^8, 5^16 ... is walked with the bits of k, each
\* entry the square of the one before it.
RECURSIVE Pow5Rest(_, _, _), Pow5On(_, _, _)
Pow5Rest(b, k, p5) == Pow5On(IF k % 2 = 1 THEN mult(b, p5) ELSE b, k \div 2, p5)

Pow5On(b, k, p5) == IF k = 0 THEN b ELSE Pow5Rest(b, k, mult(p5, p5))

\* b * 5^k.
Pow5Fours(b, k) == IF k = 0 THEN b ELSE Pow5Rest(b, k, i2b(625))

pow5mult(b, k) ==
  Pow5Fours(IF k % 4 /= 0 THEN multadd(b, <<5, 25, 125>>[k % 4], 0) ELSE b, k \div 4)

\* The least block of at least k that has n words.
RECURSIVE Holding(_, _)
Holding(k, n) == IF n > 2^k THEN Holding(k + 1, n) ELSE k

\* The bits that left the last word are a word of their own.
Carried(z) == IF z /= 0 THEN <<z>> ELSE <<>>

lshift(b, k) ==
  LET n == k \div WordBits
      s == k % WordBits
      Step(t, x) == [x |-> Append(t.x, ((x * 2^s) % Word) + t.z), z |-> x \div 2^(WordBits - s)]
      r == FoldLeft(Step, [x |-> <<>>, z |-> 0], b.x)
  IN  Big(Zeros(n) \o (IF s = 0 THEN b.x ELSE r.x \o Carried(r.z)), Holding(b.k, n + wds(b) + 1))

\* Negative, zero or positive.
cmp(a, b) ==
  LET differ == {i \in DOMAIN a.x : a.x[i] /= b.x[i]}
      top == CHOOSE i \in differ : \A j \in differ : j <= i
  IN  IF wds(a) /= wds(b) THEN wds(a) - wds(b)
      ELSE IF differ = {} THEN 0
      ELSE IF a.x[top] < b.x[top] THEN -1 ELSE 1

\* a - b word by word, where a is not less: half words, and a borrow of 0 or -1.
Subtract(a, b) ==
  LET Step(s, i) ==
        LET w == IF i <= Len(b) THEN b[i] ELSE 0
            y == lo(a[i]) - lo(w) + s.borrow
            z == hi(a[i]) - hi(w) + (y \div Half)
        IN  [x |-> Append(s.x, Storeinc(z, y)), borrow |-> z \div Half]
  IN  FoldLeft(Step, [x |-> <<>>, borrow |-> 0], [i \in 1 .. Len(a) |-> i]).x

\* The difference, with its sign.
diff(a, b) ==
  LET Less(u, v, sign) == [x |-> Trimmed(Subtract(u.x, v.x), 0), k |-> u.k, sign |-> sign]
      GivenC(c) == IF c = 0 THEN Big(<<0>>, 0)
                   ELSE Less(IF c < 0 THEN b ELSE a, IF c < 0 THEN a ELSE b, IF c < 0 THEN 1 ELSE 0)
  IN  GivenC(cmp(a, b))

\* q * S, in as many words as S.
Scaled(S, q) ==
  LET Step(s, si) ==
        LET ys == lo(si) * q + s.carry
            zs == hi(si) * q + hi(ys)
        IN  [x |-> Append(s.x, Storeinc(zs, ys)), carry |-> hi(zs)]
  IN  FoldLeft(Step, [x |-> <<>>, carry |-> 0], S).x

\* The quotient, at most 9, and the remainder in b.  The first guess may be one
\* too small.  A remainder of zero may be left with no words.
quorem(b, S) ==
  LET n == wds(S)
      q == b.x[n] \div (S.x[n] + 1)
      Cut(x) == IF x[n] = 0 THEN Trimmed(SubSeq(x, 1, n - 1), IF n = 1 THEN 0 ELSE 1) ELSE x
      Less(x, times) == Cut(Subtract(x, Scaled(S.x, times)))
      GivenB1(b1) == IF cmp(b1, S) >= 0 THEN [q |-> q + 1, b |-> [b1 EXCEPT !.x = Less(@, 1)]]
                     ELSE [q |-> q, b |-> b1]
  IN  IF wds(b) < n THEN [q |-> 0, b |-> b]
      ELSE GivenB1(IF q = 0 THEN b ELSE [b EXCEPT !.x = Less(@, q)])
-----------------------------------------------------------------------------
(* Values are compared modulo primes whose product is beyond them.         *)

Primes == {32749, 32719, 32717, 32713}

ValueMod(b, p) ==
  FoldRight(LAMBDA w, v : (v * (Word % p) + w) % p, b.x, 0)

\* A number is in its block, and its top word is not zero.
InBlock(b) == wds(b) <= maxwds(b) /\ (wds(b) > 1 => b.x[wds(b)] /= 0)

RECURSIVE PowMod(_, _, _)
PowMod(a, n, p) == IF n = 0 THEN 1 ELSE (a * PowMod(a, n - 1, p)) % p

Operand == {Big(<<w>>, 1) : w \in Words \ {0}}
           \cup {Big(<<v, w>>, 1) : v \in Words, w \in Words \ {0}}

BigInit ==
  /\ Unanswered
  /\ \/ \E a, b \in Operand : question \in {<<"mult", a, b>>, <<"diff", a, b>>}
     \/ \E a \in Operand, m \in Factors, n \in 0 .. 9 :
          question \in {<<"multadd", a, m, n>>, <<"pow5mult", a, n * m>>, <<"lshift", a, n * m>>}
     \/ \E S \in Operand, q \in 0 .. 9, r \in Operand :
          /\ S.x[wds(S)] < 2^(WordBits - 4) /\ S.x[wds(S)] >= 2^(WordBits - 5)
          /\ cmp(r, S) < 0
          /\ question = <<"quorem", S, q, r>>

\* The words of a + b.
SumBig(a, b) ==
  LET n == IF wds(a) > wds(b) THEN wds(a) ELSE wds(b)
      At0(x, i) == IF i <= Len(x) THEN x[i] ELSE 0
      Step(s, i) == LET v == At0(a.x, i) + At0(b.x, i) + s.carry
                    IN  [x |-> Append(s.x, v % Word), carry |-> v \div Word]
  IN  FoldLeft(Step, [x |-> <<>>, carry |-> 0], [i \in 1 .. n |-> i]).x

BigAnswer(q) ==
  CASE q[1] = "mult" -> mult(q[2], q[3])
    [] q[1] = "diff" -> diff(q[2], q[3])
    [] q[1] = "multadd" -> multadd(q[2], q[3], q[4])
    [] q[1] = "pow5mult" -> pow5mult(q[2], q[3])
    [] q[1] = "lshift" -> lshift(q[2], q[3])
    [] q[1] = "quorem" ->
         quorem(Big(Trimmed(SumBig(Big(Trimmed(Scaled(q[2].x, q[3]), 1), 2), q[4]), 1), 2), q[2])

BigNames == {"mult", "diff", "multadd", "pow5mult", "lshift", "quorem"}

BigCompute == question[1] \in BigNames /\ Ask(BigAnswer)

\* Every operation computes what its name says, into a block that is large enough.
BigRight ==
  (question[1] \in BigNames /\ answer /= NONE) =>
    LET q == question
        r == IF q[1] = "quorem" THEN answer.b ELSE answer
        V(b, p) == ValueMod(b, p)
    IN  /\ InBlock(r)
        /\ \A p \in Primes :
             CASE q[1] = "mult" -> V(r, p) = (V(q[2], p) * V(q[3], p)) % p
               [] q[1] = "diff" ->
                    /\ r.sign = (IF cmp(q[2], q[3]) < 0 THEN 1 ELSE 0)
                    /\ (V(q[2], p) - V(q[3], p)) % p = (IF r.sign = 1 THEN -V(r, p) ELSE V(r, p)) % p
               [] q[1] = "multadd" -> V(r, p) = (V(q[2], p) * q[3] + q[4]) % p
               [] q[1] = "pow5mult" -> V(r, p) = (V(q[2], p) * PowMod(5, q[3], p)) % p
               [] q[1] = "lshift" -> V(r, p) = (V(q[2], p) * PowMod(2, q[3], p)) % p
               [] q[1] = "quorem" -> answer.q = q[3] /\ V(r, p) = V(q[4], p)
-----------------------------------------------------------------------------

CONSTANTS P,             \* bits of a double
          Emin,          \* the least exponent of a normal number
          DBL_MAX_EXP,   \* every finite number is below 2^DBL_MAX_EXP
          DBL_MAX_10_EXP,
          DBL_DIG,       \* digits that survive the way to a double and back
          WordDigits,    \* digits that fit a word (9)
          Ten_pmax,      \* the last power of ten that is exact
          TensBits,      \* tens[] is used for the last TensBits bits of an exponent (4)
          bigtens,       \* the nearest doubles to 10^(2^TensBits), 10^(2 * 2^TensBits) ...
          tinytens,      \* ... and to their inverses
          MaxExp,        \* exponents are cut to this (19999) ...
          ExpDigits,     \* ... and are not computed past so many digits (8)
          Strings,       \* the strings that are read
          Decimals       \* <<d, e>>: d * 10^e is written out and read

Etiny == Emin - (P - 1)          \* the exponent of the last bit of the least number
Infinity == [m |-> 0, e |-> DBL_MAX_EXP]
NotANumber == [m |-> 1, e |-> DBL_MAX_EXP]
Zero == [m |-> 0, e |-> Etiny]
Tiny == [m |-> 1, e |-> Etiny]
Largest == [m |-> 2^P - 1, e |-> DBL_MAX_EXP - P]

RECURSIVE BitLen(_)
BitLen(n) == IF n = 0 THEN 0 ELSE 1 + BitLen(n \div 2)

\* The bits of (n + a little more, if sticky) * 2^x that a double has room for, rounded
\* to nearest and to even; the exponent has no upper end.
RoundTo(n, x, e, sticky) ==
  LET s == e - x
      q == IF s > 30 THEN 0 ELSE n \div 2^s
      r == IF s > 30 THEN n ELSE n % 2^s
      half == IF s > 31 THEN -1
              ELSE IF r > 2^(s - 1) \/ (r = 2^(s - 1) /\ sticky) THEN 1
              ELSE IF r = 2^(s - 1) THEN 0 ELSE -1
      up == half = 1 \/ (half = 0 /\ q % 2 = 1)
      Carry(m) == IF m = 2^P THEN [m |-> 2^(P - 1), e |-> e + 1] ELSE [m |-> m, e |-> e]
  IN  IF n = 0 THEN Zero
      ELSE IF s <= 0 THEN [m |-> n * 2^(-s), e |-> e]
      ELSE Carry(IF up THEN q + 1 ELSE q)

RoundWide(n, x, sticky) ==
  LET e == x + BitLen(n) - P
  IN  RoundTo(n, x, IF n = 0 \/ e < Etiny THEN Etiny ELSE e, sticky)

Finite(f) == IF f.e + P > DBL_MAX_EXP THEN Infinity ELSE f

Round(n, x) == Finite(RoundWide(n, x, FALSE))

\* The arithmetic of the machine.
TimesWide(f, g) == RoundWide(f.m * g.m, f.e + g.e, FALSE)
Times(f, g) == Finite(TimesWide(f, g))
Over(f, g) ==
  LET n == f.m * 2^(P + 2)
  IN  Finite(RoundWide(2 * (n \div g.m) + (IF n % g.m /= 0 THEN 1 ELSE 0), f.e - g.e - P - 3, FALSE))
SumWide(f, g, minus) ==
  LET x == IF f.e < g.e THEN f.e ELSE g.e
      b == g.m * 2^(g.e - x)
  IN  IF g.m = 0 THEN f ELSE RoundWide(f.m * 2^(f.e - x) + (IF minus THEN -b ELSE b), x, FALSE)
Plus(f, g) == Finite(SumWide(f, g, FALSE))
Minus(f, g) == Finite(SumWide(f, g, TRUE))
\* Doubles are in order when their exponents and then their bits are.
Below(f, g) == f.e < g.e \/ (f.e = g.e /\ f.m < g.m)
Whole(f) == IF f.e >= 0 THEN f.m * 2^f.e ELSE IF f.e < -P THEN 0 ELSE f.m \div 2^(-f.e)

\* Fields of the bits of a double.
ExpField(f) == IF f.m < 2^(P - 1) THEN 0 ELSE f.e - Etiny + 1
FracZero(f) == f.m % 2^(P - 1) = 0
FracOnes(f) == f.m % 2^(P - 1) = 2^(P - 1) - 1
FromFields(exp, frac) ==
  IF exp = 0 THEN [m |-> frac, e |-> Etiny] ELSE [m |-> 2^(P - 1) + frac, e |-> exp + Etiny - 1]

ulp(f) == Round(1, f.e)

\* The powers of ten up to 10^Ten_pmax, all exact.
tens[n \in 0 .. Ten_pmax] == Round(10^n, 0)
-----------------------------------------------------------------------------
(* Reading the characters.                                                 *)

Digit == <<"0", "1", "2", "3", "4", "5", "6", "7", "8", "9">>
Digits == Range(Digit)
DigitOf(c) == CHOOSE d \in 0 .. 9 : Digit[d + 1] = c

At(str, i) == IF i <= Len(str) THEN str[i] ELSE "end"
\* Where the characters of S that start at i end.
RunEnd(str, i, S) == CHOOSE j \in i .. Len(str) + 1 : At(str, j) \notin S /\ \A n \in i .. j - 1 : str[n] \in S

NumberOf(ds) == FoldLeft(LAMBDA n, c : 10 * n + DigitOf(c), 0, ds)

\* Without the zeros at the end.
NoTrailing(ds) == SubSeq(ds, 1, CHOOSE n \in 0 .. Len(ds) : (n > 0 => ds[n] /= "0") /\ \A j \in n + 1 .. Len(ds) : ds[j] = "0")

\* The digits from s on: nz0, leading zeros; ds, the digits from the first that is not a
\* zero, the zeros at the end of the fraction left out; nd0 of them before the point; nf
\* places after the point; nz, a fraction of zeros; end, the first character after them.
ReadDigits(str, s) ==
  LET s1 == RunEnd(str, s, {"0"})
      s2 == RunEnd(str, s1, Digits)
      point == At(str, s2) = "."
      s3 == IF point THEN RunEnd(str, s2 + 1, Digits) ELSE s2
      frac == IF point THEN SubSeq(str, s2 + 1, s3 - 1) ELSE <<>>
      kept == NoTrailing(frac)
      first == CHOOSE j \in 1 .. Len(kept) : kept[j] /= "0" /\ \A i \in 1 .. j - 1 : kept[i] = "0"
  IN  [nz0 |-> s1 > s, nd0 |-> s2 - s1, nf |-> Len(kept), nz |-> Len(frac) > Len(kept), end |-> s3,
       s0 |-> IF s2 > s1 \/ kept = <<>> THEN s1 ELSE s2 + first,
       ds |-> IF s2 > s1 THEN SubSeq(str, s1, s2 - 1) \o kept
              ELSE IF kept = <<>> THEN <<>> ELSE SubSeq(kept, first, Len(kept))]

\* The exponent whose "e" is at s, cut to MaxExp; no digits, no exponent.
ReadExponent(str, s) ==
  LET signed == At(str, s + 1) \in {"-", "+"}
      s1 == IF signed THEN s + 2 ELSE s + 1
      s2 == RunEnd(str, s1, {"0"})
      s3 == RunEnd(str, s2, Digits)
      L == NumberOf(SubSeq(str, s2, s3 - 1))
      e == IF s3 - s2 > ExpDigits \/ L > MaxExp THEN MaxExp ELSE L
  IN  IF At(str, s1) \notin Digits THEN [e |-> 0, end |-> s]
      ELSE [e |-> IF At(str, s + 1) = "-" THEN -e ELSE e, end |-> s3]

\* The digits as one integer: the first WordDigits are y9, the others are taken from the
\* string, with a step over the point where it is.
s2b(str, s0, nd0, nd, y9) ==
  LET RECURSIVE Block(_)
      Block(k) == IF (nd + WordDigits - 1) \div WordDigits > 2^k THEN Block(k + 1) ELSE k
      Char(i) == IF i < nd0 THEN str[s0 + i] ELSE str[s0 + i + 1]
  IN  FoldLeft(LAMBDA b, i : multadd(b, 10, DigitOf(Char(i - 1))), Big(<<y9>>, Block(0)),
               [j \in 1 .. nd - (IF nd < WordDigits THEN nd ELSE WordDigits) |-> WordDigits + j])
-----------------------------------------------------------------------------
(* The approximation the search starts from.                               *)

\* rv times the entries of table that the bits of n choose, from entry j on, all but the last.
RECURSIVE Powers(_, _, _, _)
Powers(rv, n, table, j) ==
  IF n <= 1 THEN [rv |-> rv, j |-> j]
  ELSE Powers(IF n % 2 = 1 THEN Times(rv, table[j]) ELSE rv, n \div 2, table, j + 1)

Low(e) == e % 2^TensBits
High(e) == e \div 2^TensBits

\* rv * 10^e1, cut to the largest number when it is a little more.
ScaleUp(rv, e1) ==
  LET ScaledBy(last) ==
        LET exponent == last.e + P - 1
        IN  IF e1 - Low(e1) > DBL_MAX_10_EXP \/ exponent > DBL_MAX_EXP THEN <<"ovfl">>
            ELSE <<"refine", IF exponent > DBL_MAX_EXP - 1 THEN Largest ELSE last>>
      Big10(r2) == ScaledBy(TimesWide(r2.rv, bigtens[r2.j]))
      Small10(r1) == IF High(e1) = 0 THEN <<"refine", r1>> ELSE Big10(Powers(r1, High(e1), bigtens, 1))
  IN  Small10(IF Low(e1) /= 0 THEN Times(rv, tens[Low(e1)]) ELSE rv)

\* rv / 10^e1, or the least number when that is nearly zero.
ScaleDown(rv, e1) ==
  LET Big10(r2) ==
        LET last == Times(r2.rv, tinytens[r2.j])
            twice == Times(Times([m |-> 2^(P - 1), e |-> 2 - P], r2.rv), tinytens[r2.j])
        IN  IF last /= Zero THEN <<"refine", last>>
            ELSE IF twice = Zero THEN <<"undfl">> ELSE <<"refine", Tiny>>
      Small10(r1) ==
        IF High(e1) = 0 THEN <<"refine", r1>>
        ELSE IF High(e1) >= 2^Len(tinytens) THEN <<"undfl">>
        ELSE Big10(Powers(r1, High(e1), tinytens, 1))
  IN  Small10(IF Low(e1) /= 0 THEN Over(rv, tens[Low(e1)]) ELSE rv)

\* Few digits and a small power of ten: one multiplication or division is exact enough.
\* Otherwise the first DBL_DIG + 1 digits are scaled.
Approximate(ds, e) ==
  LET nd == Len(ds)
      k == IF nd < DBL_DIG + 1 THEN nd ELSE DBL_DIG + 1
      y == NumberOf(SubSeq(ds, 1, IF k < WordDigits THEN k ELSE WordDigits))
      z == NumberOf(SubSeq(ds, WordDigits + 1, k))
      i == DBL_DIG - nd
      e1 == e + nd - k
      GivenRv(rv) ==
        IF nd <= DBL_DIG /\ e = 0 THEN <<"done", rv>>
        ELSE IF nd <= DBL_DIG /\ e > 0 /\ e <= Ten_pmax THEN <<"done", Times(rv, tens[e])>>
        ELSE IF nd <= DBL_DIG /\ e > 0 /\ e <= Ten_pmax + i THEN <<"done", Times(Times(rv, tens[i]), tens[e - i])>>
        ELSE IF nd <= DBL_DIG /\ e < 0 /\ e >= -Ten_pmax THEN <<"done", Over(rv, tens[-e])>>
        ELSE IF e1 > 0 THEN ScaleUp(rv, e1)
        ELSE IF e1 < 0 THEN ScaleDown(rv, -e1)
        ELSE <<"refine", rv>>
  IN  GivenRv(IF k > WordDigits THEN Plus(Times(tens[k - WordDigits], Round(y, 0)), Round(z, 0)) ELSE Round(y, 0))
-----------------------------------------------------------------------------
(* The search: rv is compared with the digits in exact arithmetic.         *)

RECURSIVE TrailingZeros(_)
TrailingZeros(n) == IF n % 2 = 1 THEN 0 ELSE 1 + TrailingZeros(n \div 2)

\* rv = b * 2^e, b odd and of so many bits, of the P that a normal number has.
d2b(f) ==
  LET k == TrailingZeros(f.m)
  IN  [b |-> i2b(f.m \div 2^k), e |-> f.e + k, bits |-> (IF ExpField(f) > 0 THEN P ELSE BitLen(f.m)) - k]

\* The first P bits of b, from the top word and those below it.
b2d(b) ==
  LET n == wds(b)
      top == b.x[n] * Word + (IF n > 1 THEN b.x[n - 1] ELSE 0)
      s == BitLen(top) - P
  IN  [m |-> top \div 2^s, e |-> s + WordBits * (n - 2)]

ratio(a, b) == LET da == b2d(a)
                   db == b2d(b)
               IN  Over([da EXCEPT !.e = da.e - db.e], [db EXCEPT !.e = 0])

\* rv, the digits bd0 * 10^e and half the last place of rv, as integers on one scale: the
\* difference of the first two, whether the digits are more, and the third.
ComparedTo(d, bd0, e) ==
  LET bb5 == IF e >= 0 THEN 0 ELSE -e
      bd5 == IF e >= 0 THEN e ELSE 0
      bs2 == bb5 + (IF d.e >= 0 THEN d.e ELSE 0)
      j == IF d.e + d.bits - 1 < Emin THEN d.e + (P - Emin) ELSE P + 1 - d.bits
      bb2 == bs2 + j
      bd2 == bd5 + (IF d.e < 0 THEN -d.e ELSE 0) + j
      common == Min({bb2, bd2, bs2})
      i == IF common > 0 THEN common ELSE 0
      Difference(delta, bs) ==
        [delta |-> [delta EXCEPT !.sign = 0], dsign |-> delta.sign = 1, bs |-> lshift(bs, bs2 - i)]
      Scale5(bs) ==
        Difference(diff(lshift(IF bb5 > 0 THEN mult(bs, d.b) ELSE d.b, bb2 - i),
                        lshift(pow5mult(bd0, bd5), bd2 - i)), bs)
  IN  Scale5(pow5mult(i2b(1), bb5))

Compared(rv, bd0, e) == ComparedTo(d2b(rv), bd0, e)

\* The next double down, from a power of two.
DropDown(rv) == FromFields(ExpField(rv) - 1, 2^(P - 1) - 1)

One == Round(1, 0)
Half1 == Round(1, -1)

\* How far rv is off, in its last places: aadj, and aadj1, what is added or taken away.
Adjustment(rv, c) ==
  LET Both(a) == [aadj |-> a, aadj1 |-> a]
      GivenR(r) ==
        IF ~Below(Round(2, 0), r) /\ (c.dsign \/ ~FracZero(rv)) THEN Both(One)
        ELSE Both(IF Below(r, One) THEN Half1 ELSE Times(r, Half1))
  IN  GivenR(ratio(c.delta, c.bs))

Moved(rv, adj, dsign) == IF dsign THEN SumWide(rv, adj, FALSE) ELSE SumWide(rv, adj, TRUE)

\* Is what is left of the adjustment far enough from a half, whatever the errors of ratio?
Settled(rv, aadj, dsign) ==
  LET left == Minus(aadj, Round(Whole(aadj), 0))
  IN  IF dsign \/ ~FracZero(rv) THEN Below(left, Round(7, -4)) \/ Below(Round(9, -4), left)
      ELSE Below(left, Round(7, -5))

\* The result when the digits are less than half a place away: only below a power of two
\* may the next number be nearer.
WithinHalf(rv, c) ==
  IF ~c.dsign /\ FracZero(rv) /\ cmp(lshift(c.delta, 1), c.bs) > 0 THEN DropDown(rv) ELSE rv

\* Mutant: ties go away from zero.
HalfWayUp(rv, dsign) == IF dsign THEN Plus(rv, ulp(rv)) ELSE rv

\* The result when they are half a place away: the even neighbour.
HalfWay(rv, dsign) ==
  IF dsign /\ FracOnes(rv) THEN Finite(FromFields(ExpField(rv) + 1, 0))
  ELSE IF ~dsign /\ FracZero(rv) THEN DropDown(rv)
  ELSE IF rv.m % 2 = 0 THEN rv
  ELSE IF dsign THEN Plus(rv, ulp(rv)) ELSE Minus(rv, ulp(rv))

RECURSIVE Refine(_, _, _, _), RefineBy(_, _, _, _, _)
Refine(rv, bd0, e, rounds) ==
  IF rounds = 0 THEN <<"loops">> ELSE RefineBy(Compared(rv, bd0, e), rv, bd0, e, rounds)

\* c: how rv compares.
RefineBy(c, rv, bd0, e, rounds) ==
  LET y == ExpField(rv)
      top == y = DBL_MAX_EXP - Emin
      Tied(tie) == IF tie = Zero THEN <<"undfl">> ELSE <<"done", tie>>
      Moving(new, aadj) ==
        IF rv = Tiny /\ ~c.dsign /\ aadj = One THEN <<"undfl">>
        ELSE IF top /\ new.e + P > DBL_MAX_EXP
             THEN IF rv = Largest THEN <<"ovfl">> ELSE Refine(Largest, bd0, e, rounds - 1)
        ELSE IF ExpField(new) = y /\ Settled(new, aadj, c.dsign) THEN <<"done", new>>
        ELSE Refine(new, bd0, e, rounds - 1)
      Adjusted(a) ==
        LET aadj1 == IF ~top /\ y <= P - 1 /\ ~Below(a.aadj, One) THEN Round(Whole(Plus(a.aadj, Half1)), 0)
                     ELSE a.aadj1
        IN  Moving(Moved(rv, TimesWide(aadj1, ulp(rv)), c.dsign), a.aadj)
      i == cmp(c.delta, c.bs)
  IN  IF i < 0 THEN <<"done", WithinHalf(rv, c)>>
      ELSE IF i = 0 THEN Tied(HalfWay(rv, c.dsign))
      ELSE Adjusted(Adjustment(rv, c))

\* The number ds * 10^e, and whether errno is ERANGE.
\* The end of the search from an approximation that is not the result yet.
Refined(a, bd0, e) == IF a[1] = "refine" THEN Refine(a[2], bd0, e, 20) ELSE a

Converted(str, n, e) ==
  LET nd == Len(n.ds)
      nd0 == IF n.nd0 = 0 THEN nd ELSE n.nd0
      y9 == NumberOf(SubSeq(n.ds, 1, IF nd < WordDigits THEN nd ELSE WordDigits))
      Outcome(r) ==
        CASE r[1] = "ovfl" -> [v |-> Infinity, erange |-> TRUE]
          [] r[1] = "undfl" -> [v |-> Zero, erange |-> TRUE]
          [] r[1] = "done" -> [v |-> r[2], erange |-> FALSE]
          [] r[1] = "loops" -> [v |-> NotANumber, erange |-> TRUE]
  IN  Outcome(Refined(Approximate(n.ds, e), s2b(str, n.s0, nd0, nd, y9), e))

\* *se is the index of the first character that was not read.
\* n: the digits read.
StrtodFrom(str, s, s1, n) ==
  LET sign == At(str, s1) = "-"
      Result(v, end) == [v |-> v, erange |-> FALSE, sign |-> sign, end |-> end]
      paren == RunEnd(str, s + 2, Range(str) \ {")"})
      x == IF At(str, n.end) = "e" THEN ReadExponent(str, n.end) ELSE [e |-> 0, end |-> n.end]
      Value(c) == [Result(c.v, x.end) EXCEPT !.erange = c.erange]
  IN  IF At(str, s) = "end" THEN Result(Zero, 1)
      ELSE IF At(str, s) = "inf" THEN Result(Infinity, IF At(str, s + 1) = "inity" THEN s + 2 ELSE s + 1)
      ELSE IF At(str, s) = "nan"
           THEN Result(NotANumber, IF At(str, s + 1) = "(" /\ At(str, paren) = ")" THEN paren + 1 ELSE s + 1)
      ELSE IF n.ds = <<>> /\ ~n.nz /\ ~n.nz0 THEN Result(Zero, 1)
      ELSE IF n.ds = <<>> THEN Result(Zero, x.end)
      ELSE Value(Converted(str, n, x.e - n.nf))

strtod(str) ==
  LET s1 == RunEnd(str, 1, {" "})
      s == IF At(str, s1) \in {"-", "+"} THEN s1 + 1 ELSE s1
  IN  StrtodFrom(str, s, s1, ReadDigits(str, s))
-----------------------------------------------------------------------------
(* What it should compute.                                                 *)

\* Digits of n.
RECURSIVE Written(_)
Written(n) == IF n < 10 THEN <<Digit[n + 1]>> ELSE Append(Written(n \div 10), Digit[(n % 10) + 1])

Exponent(e) == <<"e">> \o (IF e < 0 THEN <<"-">> ELSE <<>>) \o Written(IF e < 0 THEN -e ELSE e)

\* d * 10^e in three ways: with an exponent, with a point after the first digit, and with a
\* point before all of them.
Spelled(d, e, how) ==
  LET w == Written(d)
  IN  CASE how = 0 -> w \o Exponent(e)
        [] how = 1 -> <<w[1], ".">> \o Tail(w) \o Exponent(e + Len(w) - 1)
        [] how = 2 -> <<"0", ".", "0">> \o w \o Exponent(e + Len(w) + 1)

\* Is d * 10^e less than, equal to or more than n * 2^x?
NumBig(i) ==
  IF i < Word THEN i2b(i)
  ELSE Big(IF i < Word * Word THEN <<i % Word, i \div Word>>
           ELSE <<i % Word, (i \div Word) % Word, (i \div Word) \div Word>>, 2)

Against(d, e, n, x) ==
  cmp(lshift(pow5mult(NumBig(d), IF e > 0 THEN e ELSE 0), IF e > x THEN e - x ELSE 0),
      lshift(pow5mult(NumBig(n), IF e < 0 THEN -e ELSE 0), IF x > e THEN x - e ELSE 0))

\* up, down: a value against the middles of f and the next numbers.
NearestBetween(f, up, down) ==
  LET even == f.m % 2 = 0
  IN  (up < 0 \/ (up = 0 /\ even)) /\ (f = Zero \/ down > 0 \/ (down = 0 /\ even))

\* Half way to the number below, which is nearer below a power of two.
HalfBelow(d, e, f) ==
  LET power == FracZero(f) /\ ExpField(f) > 1
  IN  Against(d, e, IF power THEN 4 * f.m - 1 ELSE 2 * f.m - 1, IF power THEN f.e - 2 ELSE f.e - 1)

\* f is the double nearest to d * 10^e > 0, even of two: no nearer to the next numbers.
Nearest(f, d, e) ==
  IF f = Infinity THEN Against(d, e, 2 * Largest.m + 1, Largest.e - 1) >= 0
  ELSE NearestBetween(f, Against(d, e, 2 * f.m + 1, f.e - 1), HalfBelow(d, e, f))

ReadInit ==
  /\ Unanswered
  /\ \/ \E str \in Strings : question = <<"strtod", str>>
     \/ \E n \in Decimals, how \in 0 .. 2 : question = <<"strtod of", n, how>>

ReadAnswer(q) == strtod(IF q[1] = "strtod" THEN q[2] ELSE Spelled(q[2][1], q[2][2], q[3]))

ReadCompute == question[1] \in {"strtod", "strtod of"} /\ Ask(ReadAnswer)

\* A number: digits with a point, or not, and an exponent, or not.
Number(p) ==
  \E i \in 0 .. Len(p), j \in 0 .. Len(p) :
    LET a == SubSeq(p, 1, i)
        b == SubSeq(p, i + 1, j)
        c == SubSeq(p, j + 1, Len(p))
    IN  /\ i <= j
        /\ Range(a) \subseteq Digits
        /\ b = <<>> \/ (b[1] = "." /\ Range(Tail(b)) \subseteq Digits)
        /\ a # <<>> \/ Len(b) > 1
        /\ \/ c = <<>>
           \/ /\ c[1] = "e" /\ Len(c) > 1 /\ c[Len(c)] \in Digits
              /\ c[2] \in Digits \cup {"+", "-"}
              /\ Range(SubSeq(c, 3, Len(c))) \subseteq Digits

Subject(p) ==
  \/ p \in {<<"inf">>, <<"inf", "inity">>, <<"nan">>}
  \/ Len(p) > 2 /\ p[1] = "nan" /\ p[2] = "(" /\ p[Len(p)] = ")" /\ ")" \notin Range(SubSeq(p, 3, Len(p) - 1))
  \/ Number(p)

\* Where the longest number that str starts with begins and ends; 0 when there is none.
RefEnds(str) ==
  {<<i, j>> \in (1 .. Len(str)) \X (1 .. Len(str)) :
     /\ i <= j /\ Subject(SubSeq(str, i, j))
     /\ \A n \in 1 .. i - 1 : str[n] = " " \/ (n = i - 1 /\ str[n] \in {"+", "-"})}

\* The digits and the exponent of a number.
RefNumber(p) ==
  LET at == CHOOSE n \in 1 .. Len(p) + 1 : At(p, n) \in {"e", "end"} /\ \A j \in 1 .. n - 1 : p[j] # "e"
      ds == SelectSeq(SubSeq(p, 1, at - 1), LAMBDA c : c # ".")
      places == Cardinality({n \in 1 .. at - 1 : \E j \in 1 .. n - 1 : p[j] = "."})
      x == NumberOf(SelectSeq(SubSeq(p, at, Len(p)), LAMBDA c : c \in Digits))
  IN  <<NumberOf(ds), (IF At(p, at + 1) = "-" THEN -x ELSE x) - places>>

OverflowHalf(n) == Against(n[1], n[2], 2 * Largest.m + 1, Largest.e - 1)

LeastNormal == [m |-> 2^(P - 1), e |-> Etiny]
JustBelow == [m |-> 2^(P - 1) - 1, e |-> Etiny]

\* The value, and ERANGE with an overflow or an underflow, except that the number half way
\* above the largest is infinite without it.  drop_down takes the numbers below the least
\* normal one to be half as far apart as they are: what is a little less than it is rounded
\* down.
RightValue(r, n) ==
  IF n[1] = 0 THEN r.v = Zero /\ ~r.erange
  ELSE /\ Nearest(r.v, n[1], n[2]) \/ (r.v = JustBelow /\ Nearest(LeastNormal, n[1], n[2]))
       /\ r.erange <=> r.v = Zero \/ (r.v = Infinity /\ OverflowHalf(n) > 0)

RightString(str, r) ==
  LET ends == RefEnds(str)
      best == CHOOSE x \in ends : \A y \in ends : y[2] <= x[2]
      p == SubSeq(str, best[1], best[2])
  IN  IF ends = {} THEN r.end = 1 /\ r.v = Zero
      ELSE /\ r.end = best[2] + 1
           /\ r.sign <=> At(<<" ">> \o str, best[1]) = "-"
           /\ CASE p[1] = "inf" -> r.v = Infinity /\ ~r.erange
                [] p[1] = "nan" -> r.v = NotANumber /\ ~r.erange
                [] OTHER -> RightValue(r, RefNumber(p))

\* strtod reads the longest start of the string that is a number; its value is the double
\* nearest to the number, the even one of two that are as near.
ReadRight ==
  answer /= NONE =>
    CASE question[1] = "strtod" -> RightString(question[2], answer)
      [] question[1] = "strtod of" ->
           /\ RightValue(answer, question[2])
           /\ answer.end = Len(Spelled(question[2][1], question[2][2], question[3])) + 1
      [] OTHER -> TRUE

=============================================================================
