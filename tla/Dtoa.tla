-------------------------------- MODULE Dtoa --------------------------------
(***************************************************************************)
(* __dtoa: the decimal digits of a double, in modes 0 and 1 the fewest     *)
(* that read back as the same double, in modes 2 and 3 (and 4 to 9, which  *)
(* compute the same in other ways) as many as asked for, rounded.          *)
(* Digits are tried with floating point first, where few are wanted, and   *)
(* with Bigints when the result might not be right.                        *)
(***************************************************************************)
EXTENDS Strtod

CONSTANTS Quick_max,     \* digits that may come out of floating point
          Int_max,       \* integers below 10^(Int_max + 1) are divided as doubles
          ShortDigits,   \* room for the digits of modes 0 and 1 (18)
          DtoaDoubles,   \* the doubles that are written ...
          DtoaDigits     \* ... and the values of ndigits

Bletch == 2^(Len(bigtens) - 1)

\* k estimates floor(log10(d)); it may be one too large.  In millionths:
\* (d2 - 1.5) * 0.289529... + 0.176091... + i * 0.301029..., where d = d2 * 2^i.
EstimateK(d) ==
  LET n == BitLen(d.m)
      i == d.e + n - 1
      d2 == (289530 * (2 * d.m - 3 * 2^(n - 1))) \div 2^n
  IN  (d2 + 176092 + i * 301030) \div 1000000

\* The table says it is one too large, or that it is not.
InTable(k) == k >= 0 /\ k <= Ten_pmax
FirstK(d) == LET k == EstimateK(d) IN IF InTable(k) /\ Below(d, tens[k]) THEN k - 1 ELSE k

\* How many digits are to be made, with the estimate k and with k - 1 (negative: as many as
\* it takes), and the room for them.
Limits(mode, ndigits, k) ==
  CASE mode \in {0, 1} -> [ilim |-> -1, ilim1 |-> -1, room |-> ShortDigits, nd |-> 0]
    [] mode \in {2, 4} ->
         LET n == IF ndigits <= 0 THEN 1 ELSE ndigits IN [ilim |-> n, ilim1 |-> n, room |-> n, nd |-> n]
    [] mode \in {3, 5} ->
         LET i == ndigits + k + 1
         IN  [ilim |-> i, ilim1 |-> i - 1, room |-> IF i <= 0 THEN 1 ELSE i, nd |-> ndigits]

\* The last digit goes up by one, and nines before it become zeros that are left out.
BumpUp(s, k) ==
  LET nines == CHOOSE n \in 0 .. Len(s) : /\ \A j \in n + 1 .. Len(s) : s[j] = 9
                                          /\ n > 0 => s[n] /= 9
  IN  IF nines = 0 THEN [s |-> <<1>>, k |-> k + 1]
      ELSE [s |-> [SubSeq(s, 1, nines) EXCEPT ![nines] = @ + 1], k |-> k]

StripZeros(s) == SubSeq(s, 1, CHOOSE n \in 0 .. Len(s) : (n > 0 => s[n] /= 0) /\ \A j \in n + 1 .. Len(s) : s[j] = 0)

Stripped(s, k) == [s |-> StripZeros(s), k |-> k]
NoDigits(ndigits) == [s |-> <<>>, k |-> -1 - ndigits]
OneDigit(k) == [s |-> <<1>>, k |-> k + 1]
-----------------------------------------------------------------------------
(* Floating point.  FAILED: Bigints have to decide.                        *)

FAILED == [s |-> <<-1>>, k |-> 0]
Ten10 == Round(10, 0)
Less(a, b) == IF Below(a, b) THEN Zero ELSE Minus(a, b)

\* d / 10^k or d * 10^-k, and the number of roundings.
RECURSIVE Scaling(_, _, _, _)
Scaling(ds, j, i, ieps) ==
  IF j = 0 THEN <<ds, ieps>>
  ELSE IF j % 2 = 1 THEN Scaling(Times(ds, bigtens[i]), j \div 2, i + 1, ieps + 1)
  ELSE Scaling(ds, j \div 2, i + 1, ieps)

QuickScaled(d, k) ==
  LET j == High(k)
      far == (j \div Bletch) % 2 = 1
      d1 == IF far THEN Over(d, bigtens[Len(bigtens)]) ELSE d
      down == Scaling(tens[Low(k)], IF far THEN j % Bletch ELSE j, 1, IF far THEN 3 ELSE 2)
      up == Scaling(Times(d, tens[Low(-k)]), High(-k), 1, 2)
  IN  IF k > 0 THEN <<Over(d1, down[1]), down[2]>> ELSE IF k < 0 THEN up ELSE <<d, 2>>

\* Digits until the rest is less than eps, or so near to one that the last goes up.
RECURSIVE QuickLeft(_, _, _, _, _)
QuickLeft(d, eps, s, ilim, k) ==
  LET L == Whole(d)
      s1 == Append(s, L)
      Rest(r) ==
        IF Below(r, eps) THEN [s |-> s1, k |-> k]
        ELSE IF Below(Minus(One, r), eps) THEN BumpUp(s1, k)
        ELSE IF Len(s1) >= ilim THEN FAILED
        ELSE QuickLeft(Times(r, Ten10), Times(eps, Ten10), s1, ilim, k)
  IN  Rest(Minus(d, Round(L, 0)))

\* ilim digits, then the rest decides, unless it is too near to a half.
RECURSIVE QuickAll(_, _, _, _, _)
QuickAll(d, eps, s, ilim, k) ==
  LET L == Whole(d)
      s1 == Append(s, L)
      Rest(r) ==
        IF Len(s1) < ilim THEN QuickAll(Times(r, Ten10), eps, s1, ilim, k)
        ELSE IF Below(Plus(Half1, eps), r) THEN BumpUp(s1, k)
        ELSE IF Below(r, Less(Half1, eps)) THEN Stripped(s1, k)
        ELSE FAILED
  IN  Rest(Minus(d, Round(L, 0)))

\* d1: the number between 1 and 10, eps: how far off it may be.
QuickDigits(d1, eps, ilim, k, low, lim, leftright) ==
  LET five == Round(5, 0)
  IN  IF low /\ lim.ilim1 <= 0 THEN FAILED
      ELSE IF ilim = 0 THEN IF Below(eps, Less(d1, five)) THEN OneDigit(k)
                            ELSE IF Below(eps, Less(five, d1)) THEN NoDigits(lim.nd) ELSE FAILED
      ELSE IF leftright THEN QuickLeft(d1, Less(Over(Half1, tens[ilim - 1]), eps), <<>>, ilim, k)
      ELSE QuickAll(d1, Times(eps, tens[ilim - 1]), <<>>, ilim, k)

QuickBounded(d1, ieps, ilim, k, low, lim, leftright) ==
  LET Shrunk(sum) == Round(sum.m, sum.e - (P - 1))
  IN  QuickDigits(d1, Shrunk(Plus(Times(Round(ieps, 0), d1), Round(7, 0))), ilim, k, low, lim, leftright)

QuickFrom(sc, k, kcheck, lim, leftright) ==
  LET low == kcheck /\ Below(sc[1], One) /\ lim.ilim > 0
  IN  QuickBounded(IF low THEN Times(sc[1], Ten10) ELSE sc[1], IF low THEN sc[2] + 1 ELSE sc[2],
                   IF low THEN lim.ilim1 ELSE lim.ilim, IF low THEN k - 1 ELSE k, low, lim, leftright)

Quick(d, k, kcheck, lim, leftright) == QuickFrom(QuickScaled(d, k), k, kcheck, lim, leftright)
-----------------------------------------------------------------------------
(* Small integers.                                                         *)

RECURSIVE IntegerDigits(_, _, _, _, _)
IntegerDigits(d, ds, s, ilim, k) ==
  LET L == Whole(Over(d, ds))
      GivenR(r) ==
        LET s1 == Append(s, L)
            twice == Plus(r, r)
        IN  IF Len(s1) = ilim
            THEN IF Below(ds, twice) \/ (twice = ds /\ L % 2 = 1) THEN BumpUp(s1, k) ELSE [s |-> s1, k |-> k]
            ELSE IF r = Zero THEN [s |-> s1, k |-> k]
            ELSE IntegerDigits(Times(r, Ten10), ds, s1, ilim, k)
  IN  GivenR(Minus(d, Times(Round(L, 0), ds)))

SmallInteger(d, k, lim) ==
  IF lim.nd < 0 /\ lim.ilim <= 0
  THEN IF lim.ilim < 0 \/ ~Below(Times(Round(5, 0), tens[k]), d) THEN NoDigits(lim.nd) ELSE OneDigit(k)
  ELSE IntegerDigits(d, tens[k], <<>>, lim.ilim, k)
-----------------------------------------------------------------------------
(* Bigints: d / 10^k = b / S.                                              *)

TimesTen(b) == multadd(b, 10, 0)

\* The last digit is rounded, to even when b / S leaves a half.
RoundOff(b, S, s, k) ==
  LET j == cmp(lshift(b, 1), S)
  IN  IF j > 0 \/ (j = 0 /\ s[Len(s)] % 2 = 1) THEN BumpUp(s, k) ELSE Stripped(s, k)

RECURSIVE AllDigits(_, _, _, _, _)
AllDigits(b, S, s, ilim, k) ==
  LET Digit1(q) ==
        IF Len(s) + 1 >= ilim THEN RoundOff(q.b, S, Append(s, q.q), k)
        ELSE AllDigits(TimesTen(q.b), S, Append(s, q.q), ilim, k)
  IN  Digit1(quorem(b, S))

\* A digit that goes up, and may be a nine.
DigitUp(s, dig, k) == IF dig = 9 THEN BumpUp(Append(s, 9), k) ELSE [s |-> Append(s, dig + 1), k |-> k]

\* Both this digit and the next are within the bounds: the nearer, or the even one.
FinalDigit(b, S, s, dig, k) ==
  LET j == cmp(lshift(b, 1), S)
  IN  IF j > 0 \/ (j = 0 /\ dig % 2 = 1) THEN DigitUp(s, dig, k) ELSE [s |-> Append(s, dig), k |-> k]

\* Digits until the rest is within mlo of the number, or the next digit within mhi.
RECURSIVE LeftDigits(_, _, _, _, _, _, _, _, _), LeftDigit(_, _, _, _, _, _, _, _, _, _)
LeftDigits(b, S, mlo, mhi, s, ilim, k, mode, even) ==
  LeftDigit(quorem(b, S), diff(S, mhi), S, mlo, mhi, s, ilim, k, mode, even)

\* q: the next digit and what is left of b.
LeftDigit(q, delta, S, mlo, mhi, s, ilim, k, mode, even) ==
  LET dig == q.q
      j == cmp(q.b, mlo)
      j1 == IF delta.sign = 1 THEN 1 ELSE cmp(q.b, delta)
      s1 == Append(s, dig)
  IN  IF j1 = 0 /\ mode = 0 /\ even
      THEN IF dig = 9 \/ j > 0 THEN DigitUp(s, dig, k) ELSE [s |-> s1, k |-> k]
      ELSE IF j < 0 \/ (j = 0 /\ mode = 0 /\ even)
      THEN IF j1 > 0 THEN FinalDigit(q.b, S, s, dig, k) ELSE [s |-> s1, k |-> k]
      ELSE IF j1 > 0 THEN DigitUp(s, dig, k)
      ELSE IF Len(s1) = ilim THEN RoundOff(q.b, S, s1, k)
      ELSE IF Len(s1) > 20 THEN [s |-> s1, k |-> 1000]
      ELSE LeftDigits(TimesTen(q.b), S, TimesTen(mlo), TimesTen(mhi), s1, ilim, k, mode, even)

\* The powers of two and five in b, S and m, where d = b * 2^be.  Left to right, m is half
\* the last place: of the double in modes 0 and 1, else of the last digit.
PowersOf(d, be, bbits, k, mode, ilim, leftright) ==
  LET short == mode < 2
      b5 == IF k >= 0 THEN 0 ELSE -k
      s5 == IF k >= 0 THEN k ELSE 0
      b2 == (IF be > 0 THEN be ELSE 0) + b5
      s2 == (IF be > 0 THEN 0 ELSE -be) + s5
      more == ilim - 1 - b5                  \* powers of five that b does not have
      less == IF short \/ more > 0 THEN 0 ELSE ilim - 1
      i == IF short THEN IF ExpField(d) = 0 THEN be - Etiny + 1 ELSE 1 + P - bbits
           ELSE IF ilim < 0 THEN 0 ELSE ilim
      extra == IF ~short /\ more > 0 THEN more ELSE 0
      m2 == IF ~short /\ ilim < 0 THEN b2 - ilim ELSE b2
  IN  IF ~leftright THEN [b2 |-> b2, s2 |-> s2, b5 |-> b5, s5 |-> s5, m2 |-> b2, m5 |-> b5]
      ELSE [b2 |-> b2 + i, s2 |-> s2 + i, b5 |-> b5 + extra, s5 |-> s5 + extra, m2 |-> m2,
            m5 |-> IF ~short /\ more > 0 THEN 0 ELSE b5 - less]

\* The shift that leaves four zero bits at the top of S.
Alignment(S, s5, s2) ==
  LET used == ((IF s5 /= 0 THEN WordBits - hi0bits(S.x[wds(S)]) ELSE 1) + s2) % WordBits
      i == IF used = 0 THEN 0 ELSE WordBits - used
  IN  IF i > 4 THEN i - 4 ELSE IF i < 4 THEN i + WordBits - 4 ELSE 0

\* A power of two in a mode of the shortest digits: the number below is nearer.
Special(d, mode) == mode < 2 /\ FracZero(d) /\ ExpField(d) > 0

\* b / S is at least 1: the digits.
DigitsOfRatio(b, S, mlo, ilim, k, d, mode, lim, leftright) ==
  IF ilim <= 0 /\ mode > 2
  THEN IF ilim < 0 \/ cmp(b, multadd(S, 5, 0)) <= 0 THEN NoDigits(lim.nd) ELSE OneDigit(k)
  ELSE IF leftright
  THEN LeftDigits(b, S, mlo, IF Special(d, mode) THEN lshift(mlo, 1) ELSE mlo, <<>>, ilim, k, mode, d.m % 2 = 0)
  ELSE AllDigits(b, S, <<>>, ilim, k)

\* k was one too large: times ten.
FixedDigits(b, S, m, d, k, mode, lim, leftright) ==
  LET low == ~InTable(EstimateK(d)) /\ cmp(b, S) < 0
  IN  DigitsOfRatio(IF low THEN TimesTen(b) ELSE b, S, IF low THEN TimesTen(m) ELSE m,
                    IF low THEN lim.ilim1 ELSE lim.ilim, IF low THEN k - 1 ELSE k, d, mode, lim, leftright)

\* S0 and five: the powers of five of S and of m.
ScaledDigits(S0, five, f, d, k, mode, lim, leftright) ==
  LET b0 == d2b(d).b
      c == IF f.m2 > 0 /\ f.s2 > 0 THEN IF f.m2 < f.s2 THEN f.m2 ELSE f.s2 ELSE 0
      z == IF Special(d, mode) THEN 1 ELSE 0
      a == Alignment(S0, f.s5, f.s2 - c + z)
  IN  FixedDigits(lshift(pow5mult(IF leftright /\ f.b5 > 0 /\ f.m5 > 0 THEN mult(five, b0) ELSE b0,
                                  IF leftright /\ f.b5 > 0 /\ f.m5 > 0 THEN f.b5 - f.m5 ELSE f.b5),
                         f.b2 - c + z + a),
                  lshift(S0, f.s2 - c + z + a),
                  lshift(IF f.b5 > 0 THEN five ELSE i2b(1), f.m2 - c + a),
                  d, k, mode, lim, leftright)

BigDigitsBy(f, d, k, mode, lim, leftright) ==
  ScaledDigits(pow5mult(i2b(1), f.s5), pow5mult(i2b(1), f.m5), f, d, k, mode, lim, leftright)

BigDigits(d, k, mode, lim, leftright) ==
  BigDigitsBy(PowersOf(d, d2b(d).e, d2b(d).bits, k, mode, lim.ilim, leftright), d, k, mode, lim, leftright)

\* The digits and where the point goes; a string is never empty.
\* k digits before the point; fast: the digits floating point found.
DtoaFrom(d, k, fast, mode, lim, leftright) ==
  LET Some(r) == IF r.s = <<>> THEN [s |-> <<0>>, k |-> 0] ELSE r
      Shown(some) == [ds |-> some.s, decpt |-> some.k + 1, room |-> lim.room]
  IN  IF d = Zero THEN [ds |-> <<0>>, decpt |-> 1, room |-> 1]
      ELSE Shown(Some(IF fast /= FAILED THEN fast
                      ELSE IF d2b(d).e >= 0 /\ k <= Int_max THEN SmallInteger(d, k, lim)
                      ELSE BigDigits(d, k, mode, lim, leftright)))

DtoaLimited(d, k, mode, lim, quick) ==
  LET leftright == mode \notin {2, 3}
  IN  DtoaFrom(d, k, IF lim.ilim >= 0 /\ lim.ilim <= Quick_max /\ quick
                     THEN Quick(d, k, ~InTable(EstimateK(d)), lim, leftright) ELSE FAILED,
               mode, lim, leftright)

dtoa(d, mode0, ndigits) ==
  LET quick == mode0 <= 5
      mode == IF mode0 \notin 0 .. 9 THEN 0 ELSE IF quick THEN mode0 ELSE mode0 - 4
  IN  DtoaLimited(d, FirstK(d), mode, Limits(mode, ndigits, FirstK(d)), quick)
-----------------------------------------------------------------------------
(* What it should compute.                                                 *)

\* d = f against n * 10^e / 2.
FloatAgainst(f, n, e) == -Against(n, e, f.m, f.e + 1)

Value10(ds) == FoldLeft(LAMBDA n, x : 10 * n + x, 0, ds)

\* n * 10^e is a double's nearest number with the last digit at 10^e, the even one of two;
\* below 10^e times a power of ten, the digits are a place further on.
RoundedBetween(up, down, n, power) ==
  (up < 0 \/ (up = 0 /\ n % 2 = 0)) /\ (n = 0 \/ down > 0 \/ (down = 0 /\ (power \/ n % 2 = 0)))

Rounded10(d, n, e, power) ==
  RoundedBetween(FloatAgainst(d, 2 * n + 1, e),
                 FloatAgainst(d, IF power THEN 20 * n - 1 ELSE 2 * n - 1, IF power THEN e - 1 ELSE e), n, power)

\* Does n * 10^e read as d?  Strictly: not even when it is half way to another double.
ReadsAs(d, n, e, strict) ==
  /\ n > 0 /\ Nearest(d, n, e)
  /\ strict => Against(n, e, 2 * d.m + 1, d.e - 1) < 0 /\ HalfBelow(n, e, d) > 0

\* Modes 0 and 1: it reads as d, and nothing shorter does.
Shortest(d, r, strict) ==
  LET n == Value10(r.ds)
      e == r.decpt - Len(r.ds)
  IN  /\ ReadsAs(d, n, e, strict)
      /\ Len(r.ds) > 1 => \A i \in {0, 1} : ~ReadsAs(d, (n \div 10) + i, e + 1, strict)

\* Modes 2 and 3: ndigits digits, or ndigits after the point.
RightDigits(d, r, digits) ==
  LET n == Value10(r.ds) * 10^(digits - Len(r.ds))
  IN  Len(r.ds) <= digits /\ r.ds[1] /= 0 /\ Rounded10(d, n, r.decpt - digits, n = 10^(digits - 1))

RightPlaces(d, r, places) ==
  LET zeros == r.decpt - Len(r.ds) + places
  IN  IF r.ds = <<0>> THEN Rounded10(d, 0, -places, FALSE)
      ELSE zeros >= 0 /\ Rounded10(d, Value10(r.ds) * 10^zeros, -places, FALSE)

\* In mode 5 a number below the last place is beyond this code: it takes powers of five
\* with a negative exponent.
Possible(d, mode, ndigits) == mode \in {5, 9} => ndigits + FirstK(d) >= 1

\* Left to right, the tolerance for the last of a given number of digits is 2^be / 10^k of
\* what it should be, where d = b * 2^be: too much for large numbers with few bits.
Tolerant(d, mode) ==
  LET k == IF Against(1, FirstK(d), d.m, d.e) > 0 THEN FirstK(d) - 1 ELSE FirstK(d)
  IN  mode \in {4, 5, 8, 9} => Against(1, k, 1, d2b(d).e) >= 0

\* Bound: the reference computes with numbers of so many digits.
MaxPlaces == 7

DtoaInit ==
  /\ Unanswered
  /\ \E d \in DtoaDoubles, mode \in 0 .. 9, n \in DtoaDigits :
       /\ mode <= 1 => n = 0
       /\ Possible(d, mode, n)
       /\ n + FirstK(d) < MaxPlaces
       /\ question = <<"dtoa", d, mode, n>>

DtoaAnswer(q) == dtoa(q[2], q[3], q[4])

DtoaCompute == question[1] = "dtoa" /\ Ask(DtoaAnswer)

\* The digits are the shortest that read as the number, or the nearest with so many digits,
\* and they fit the room that was made for them.
DigitsRight ==
  (question[1] = "dtoa" /\ answer /= NONE) =>
    LET d == question[2]
        mode == question[3]
        n == question[4]
    IN  /\ Len(answer.ds) <= answer.room
        /\ IF mode \in {0, 1} THEN Shortest(d, answer, mode = 1)
           ELSE IF ~Tolerant(d, mode) THEN TRUE
           ELSE IF mode % 2 = 0 THEN RightDigits(d, answer, IF n <= 0 THEN 1 ELSE n)
           ELSE RightPlaces(d, answer, n)

DecimalInit == BigInit \/ ReadInit \/ DtoaInit
DecimalCompute == BigCompute \/ ReadCompute \/ DtoaCompute

(***************************************************************************)
(* strtod.c, the whole of it: the integers it computes with are right and  *)
(* fit their blocks; strtod reads the longest number and rounds it to the  *)
(* nearest double; __dtoa writes the shortest or the nearest digits into   *)
(* the room it asked for.                                                  *)
(***************************************************************************)
DecimalExact == BigRight /\ ReadRight /\ DigitsRight
=============================================================================
