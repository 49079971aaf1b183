----------------------------- MODULE CompilerRT -----------------------------
(***************************************************************************)
(* The integer half of the compiler runtime.  The library's three integer  *)
(* types are each twice as wide as the one before: si, di and ti have W,   *)
(* 2 * W and 4 * W bits here (32, 64 and 128 in the source).  The          *)
(* functions of di and of ti are the same algorithm on words of W and of   *)
(* 2 * W bits, and each such algorithm is one operator with the width of   *)
(* the word, or of the whole integer, as its first parameter.              *)
(*                                                                         *)
(* A pattern of n bits is a number in 0 .. 2^n - 1, a signed integer the   *)
(* number it denotes.                                                      *)
(***************************************************************************)
EXTENDS Integers, Bitwise

CONSTANT W           \* bits in an si_int, an even number

ASSUME WidthEven == W \in Nat \ {0} /\ W % 2 = 0

ABORT == "abort"     \* compilerrt_abort does not return

Si == W
Di == 2 * W
Ti == 4 * W
-----------------------------------------------------------------------------
U(n, x) == x % 2^n

S(n, x) == LET u == U(n, x) IN IF u >= 2^(n - 1) THEN u - 2^n ELSE u

\* Reading x as two words of w bits each, and putting two together.
High(w, x) == x \div 2^w

Low(w, x) == x % 2^w

Make(w, h, l) == U(w, h) * 2^w + U(w, l)

\* Shifts within n bits.  The processor takes the count modulo n; where the
\* code shifts by n or more, it masks the result away.
Shl(n, x, c) == U(n, x * 2^(c % n))

Shr(n, x, c) == x \div 2^(c % n)

Clz(n, x) ==
  CHOOSE c \in 0 .. n : x < 2^(n - c) /\ (c = n \/ x >= 2^(n - c - 1))

Ctz(n, x) == CHOOSE c \in 0 .. n - 1 : x % 2^c = 0 /\ x % 2^(c + 1) # 0

\* `x & ((int)(...) >> (bits - 1))': the mask is all ones when the number
\* shifted is negative and zero otherwise.
When(negative, x) == IF negative THEN x ELSE 0

\* C's division rounds towards zero.
Quo(a, b) ==
  LET q == (IF a < 0 THEN -a ELSE a) \div (IF b < 0 THEN -b ELSE b)
  IN  IF (a < 0) # (b < 0) THEN -q ELSE q

Rem(a, b) == a - b * Quo(a, b)

\* (a ^ s) - s with s = a >> (n - 1): negate when s is -1.
NegateIf(n, negative, a) ==
  LET s == IF negative THEN 2^n - 1 ELSE 0
  IN  U(n, (U(n, a) ^^ s) - s)

Least(n) == -(2^(n - 1))

Greatest(n) == 2^(n - 1) - 1
-----------------------------------------------------------------------------
\* The loop of the division: one bit of the quotient in each turn.
RECURSIVE ShiftSubtract(_, _, _, _, _, _)
ShiftSubtract(w, sr, q, r, d, carry) ==
  IF sr = 0
  THEN <<U(2 * w, 2 * q + carry), r>>
  ELSE LET rr   == U(2 * w, 2 * r + Shr(2 * w, q, 2 * w - 1))
           qq   == U(2 * w, 2 * q + carry)
           less == U(2 * w, d - rr - 1) >= 2^(2 * w - 1)
       IN  ShiftSubtract(w, sr - 1, qq, IF less THEN U(2 * w, rr - d) ELSE rr,
                         d, IF less THEN 1 ELSE 0)

\* Quotient and remainder of n by d # 0.
Udivmod(w, n, d) ==
  LET nh == High(w, n)    nl == Low(w, n)
      dh == High(w, d)    dl == Low(w, d)
      \* an unsigned difference: large when negative
      sr == Clz(w, dh) - Clz(w, nh)
      s1 == 1 + w + Clz(w, dl) - Clz(w, nh)
  IN  CASE nh = 0 /\ dh = 0 -> <<nl \div dl, nl % dl>>
        [] nh = 0 /\ dh # 0 -> <<0, nl>>
        [] nh # 0 /\ dl = 0 /\ nl = 0 ->
             <<nh \div dh, Make(w, nh % dh, 0)>>
        [] nh # 0 /\ dl = 0 /\ nl # 0 /\ (dh & (dh - 1)) = 0 ->
             <<Shr(w, nh, Ctz(w, dh)), Make(w, nh & (dh - 1), nl)>>
        [] nh # 0 /\ dl = 0 /\ nl # 0 /\ (dh & (dh - 1)) # 0 ->
             IF sr < 0 \/ sr > w - 2
             THEN <<0, n>>
             ELSE ShiftSubtract(w, sr + 1,
                    Make(w, Shl(w, nl, w - sr - 1), 0),
                    Make(w, Shr(w, nh, sr + 1),
                         Shl(w, nh, w - sr - 1) | Shr(w, nl, sr + 1)), d, 0)
        [] nh # 0 /\ dl # 0 /\ dh = 0 /\ (dl & (dl - 1)) = 0 ->
             IF dl = 1
             THEN <<n, nl & (dl - 1)>>
             ELSE LET c == Ctz(w, dl)
                  IN  <<Make(w, Shr(w, nh, c),
                             Shl(w, nh, w - c) | Shr(w, nl, c)),
                        nl & (dl - 1)>>
        [] nh # 0 /\ dl # 0 /\ dh = 0 /\ (dl & (dl - 1)) # 0 ->
             ShiftSubtract(w, s1,
               Make(w, When(s1 < w + 1, Shl(w, nl, w - s1))
                         | When(w < s1, Shl(w, nh, 2 * w - s1)
                                          | Shr(w, nl, s1 - w)),
                       When(w < s1, Shl(w, nl, 2 * w - s1))),
               Make(w, When(s1 < w, Shr(w, nh, s1)),
                       When(w < s1 + 1, Shr(w, nh, s1 - w))
                         | When(s1 < w, Shl(w, nh, w - s1) | Shr(w, nl, s1))),
               d, 0)
        [] nh # 0 /\ dl # 0 /\ dh # 0 ->
             IF sr < 0 \/ sr > w - 1
             THEN <<0, n>>
             ELSE ShiftSubtract(w, sr + 1,
                    Make(w, Shl(w, nl, w - sr - 1), 0),
                    Make(w, When(sr + 1 < w, Shr(w, nh, sr + 1)),
                         Shl(w, nh, w - sr - 1)
                           | When(sr + 1 < w, Shr(w, nl, sr + 1))), d, 0)

udivmoddi4(a, b) == Udivmod(Si, a, b)

udivmodti4(a, b) == Udivmod(Di, a, b)

udivdi3(a, b) == udivmoddi4(a, b)[1]

udivti3(a, b) == udivmodti4(a, b)[1]

umoddi3(a, b) == udivmoddi4(a, b)[2]

umodti3(a, b) == udivmodti4(a, b)[2]

\* Signed division and remainder on the absolute values.
divdi3(a, b) ==
  LET q == udivmoddi4(NegateIf(Di, a < 0, a), NegateIf(Di, b < 0, b))[1]
  IN  S(Di, NegateIf(Di, (a < 0) # (b < 0), q))

divti3(a, b) ==
  LET q == udivmodti4(NegateIf(Ti, a < 0, a), NegateIf(Ti, b < 0, b))[1]
  IN  S(Ti, NegateIf(Ti, (a < 0) # (b < 0), q))

moddi3(a, b) ==
  LET r == udivmoddi4(NegateIf(Di, a < 0, a), NegateIf(Di, b < 0, b))[2]
  IN  S(Di, NegateIf(Di, a < 0, r))

modti3(a, b) ==
  LET r == udivmodti4(NegateIf(Ti, a < 0, a), NegateIf(Ti, b < 0, b))[2]
  IN  S(Ti, NegateIf(Ti, a < 0, r))

divmoddi4(a, b) ==
  LET d == divdi3(a, b) IN <<d, S(Di, a - S(Di, d * b))>>
-----------------------------------------------------------------------------
\* The product of two words, from the products of their halves.
MulWords(w, a, b) ==
  LET h    == w \div 2
      ah   == High(h, a)     al == Low(h, a)
      bh   == High(h, b)     bl == Low(h, b)
      low1 == U(w, al * bl)
      t1   == U(w, High(h, low1) + ah * bl)
      low2 == U(w, Low(h, low1) + Shl(w, Low(h, t1), h))
      t2   == U(w, High(h, low2) + bh * al)
      low3 == U(w, Low(h, low2) + Shl(w, Low(h, t2), h))
  IN  Make(w, High(h, t1) + High(h, t2) + ah * bh, low3)

muldsi3(a, b) == MulWords(Si, a, b)

mulddi3(a, b) == MulWords(Di, a, b)

\* The product modulo the width of the result, on unsigned patterns.
muldi3(a, b) ==
  LET r == muldsi3(Low(Si, a), Low(Si, b))
  IN  Make(Si, High(Si, r) + High(Si, a) * Low(Si, b)
                 + Low(Si, a) * High(Si, b), Low(Si, r))

multi3(a, b) ==
  LET r == mulddi3(Low(Di, a), Low(Di, b))
  IN  Make(Di, High(Di, r) + U(Di, High(Di, a) * Low(Di, b))
                 + U(Di, Low(Di, a) * High(Di, b)), Low(Di, r))

\* Does the signed product of a and b need more than n bits?
Overflows(n, a, b) ==
  LET aa == IF a < 0 THEN -a ELSE a
      ab == IF b < 0 THEN -b ELSE b
  IN  CASE a = Least(n) -> b \notin {0, 1}
        [] a # Least(n) /\ b = Least(n) -> a \notin {0, 1}
        [] a # Least(n) /\ b # Least(n) ->
             /\ aa >= 2 /\ ab >= 2
             /\ IF (a < 0) = (b < 0)
                THEN aa > Quo(Greatest(n), ab)
                ELSE aa > Quo(Least(n), -ab)

MulO(n, a, b) == <<S(n, a * b), Overflows(n, a, b)>>

mulosi4(a, b) == MulO(Si, a, b)

mulodi4(a, b) == MulO(Di, a, b)

muloti4(a, b) == MulO(Ti, a, b)

MulV(n, a, b) == IF Overflows(n, a, b) THEN ABORT ELSE a * b

mulvsi3(a, b) == MulV(Si, a, b)

mulvdi3(a, b) == MulV(Di, a, b)

mulvti3(a, b) == MulV(Ti, a, b)

\* Sums and differences that abort on overflow, seen by the wrapped result.
AddV(n, a, b) ==
  LET s == S(n, a + b)
  IN  IF (b >= 0 /\ s < a) \/ (b < 0 /\ s >= a) THEN ABORT ELSE s

addvsi3(a, b) == AddV(Si, a, b)

addvdi3(a, b) == AddV(Di, a, b)

addvti3(a, b) == AddV(Ti, a, b)

SubV(n, a, b) ==
  LET s == S(n, a - b)
  IN  IF (b >= 0 /\ s > a) \/ (b < 0 /\ s <= a) THEN ABORT ELSE s

subvsi3(a, b) == SubV(Si, a, b)

subvdi3(a, b) == SubV(Di, a, b)

subvti3(a, b) == SubV(Ti, a, b)

AbsV(n, a) == IF a = Least(n) THEN ABORT ELSE S(n, NegateIf(n, a < 0, a))

absvsi2(a) == AbsV(Si, a)

absvdi2(a) == AbsV(Di, a)

absvti2(a) == AbsV(Ti, a)

NegV(n, a) == IF a = Least(n) THEN ABORT ELSE -a

negvsi2(a) == NegV(Si, a)

negvdi2(a) == NegV(Di, a)

negvti2(a) == NegV(Ti, a)

negdi2(a) == S(Di, -a)

negti2(a) == S(Ti, -a)
-----------------------------------------------------------------------------
\* Three-way comparison by words: 0, 1 or 2.
CmpWords(xh, xl, yh, yl) ==
  CASE xh < yh -> 0
    [] xh > yh -> 2
    [] xh = yh /\ xl < yl -> 0
    [] xh = yh /\ xl > yl -> 2
    [] xh = yh /\ xl = yl -> 1

cmpdi2(a, b) ==
  CmpWords(S(Si, High(Si, U(Di, a))), Low(Si, a),
           S(Si, High(Si, U(Di, b))), Low(Si, b))

ucmpdi2(a, b) == CmpWords(High(Si, a), Low(Si, a), High(Si, b), Low(Si, b))

ucmpti2(a, b) == CmpWords(High(Di, a), Low(Di, a), High(Di, b), Low(Di, b))

\* Parity: fold the word onto itself down to four bits, then look it up.
RECURSIVE Fold(_, _)
Fold(n, x) == IF n <= 4 THEN x ELSE Fold(n \div 2, Low(n \div 2, x ^^ High(n \div 2, x)))

paritysi2(x) == Shr(16, 27030, Fold(Si, x) & 15) & 1     \* 27030 = 0x6996

paritydi2(x) == paritysi2(High(Si, x) ^^ Low(Si, x))

parityti2(x) == paritydi2(High(Di, x) ^^ Low(Di, x))

\* A mask of n bits: runs of k ones, k zeros, the low run being ones.
Comb(n, k) ==
  LET m[i \in 0 .. n] ==
        IF i = 0 THEN 0
        ELSE m[i - 1] + (IF ((i - 1) \div k) % 2 = 0 THEN 2^(i - 1) ELSE 0)
  IN  m[n]

\* The population count of n bits: counts of pairs, of nibbles, of bytes.
Bytes(n, x) ==
  LET x1 == x - ((x \div 2) & Comb(n, 1))
      x2 == ((x1 \div 4) & Comb(n, 2)) + (x1 & Comb(n, 2))
  IN  (x2 + x2 \div 16) & Comb(n, 4)

\* ... and the sum of the bytes, by adding the halves of the word; the caller
\* keeps the significant bits of the low byte.
RECURSIVE SumBytes(_, _)
SumBytes(n, x) ==
  IF n <= 8 THEN x ELSE SumBytes(n \div 2, x + High(n \div 2, x))

popcountsi2(x) == SumBytes(Si, Bytes(Si, x)) & 63

popcountdi2(x) == SumBytes(Di, Bytes(Di, x)) & 127

popcountti2(x) == SumBytes(Ti, Bytes(Ti, x)) & 255

\* Raise a to the power b by squaring: the result and whether to invert it.
RECURSIVE Squaring(_, _, _)
Squaring(a, b, r) ==
  LET rr == IF b % 2 = 1 THEN r * a ELSE r
  IN  IF Quo(b, 2) = 0 THEN rr ELSE Squaring(a * a, Quo(b, 2), rr)

Powi(a, b) == [recip |-> b < 0, r |-> Squaring(a, b, 1)]

powisf2(a, b) == Powi(a, b)

powidf2(a, b) == Powi(a, b)

powixf2(a, b) == Powi(a, b)

powitf2(a, b) == Powi(a, b)
=============================================================================
