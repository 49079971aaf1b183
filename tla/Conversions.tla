---------------------------- MODULE Conversions -----------------------------
(***************************************************************************)
(* Conversions between integers and floating-point numbers, and complex    *)
(* arithmetic.  The processor's own floating-point operations, which       *)
(* complex arithmetic and the two hardware conversions are written with,   *)
(* round correctly: Add, Sub and Mul of SoftFloat and HwDiv stand for them.*)
(***************************************************************************)
EXTENDS SoftFloat

\* The number x \in Nat as |value|, with n bits: significant digits first.
\* Drop all but mant bits, rounding to even; <<mantissa, exponent>>.
RoundTo(n, mant, x) ==
  LET sd == n - Clz(n, x)
      a0 == CASE sd = mant + 1 -> x * 2
              [] sd = mant + 2 -> x
              [] sd > mant + 2 -> (x \div 2^(sd - (mant + 2)))
                                    | Sticky(x % 2^(sd - (mant + 2)) # 0)
      a1 == (a0 | Sticky((a0 & 4) # 0)) + 1
      a2 == a1 \div 4
  IN  IF sd <= mant THEN <<x * 2^(mant - sd), sd - 1>>
      ELSE IF a2 >= 2^mant THEN <<a2 \div 2, sd>> ELSE <<a2, sd - 1>>

FromBits(F, n, x, sign) ==
  LET r == RoundTo(n, F.sig + 1, x)
  IN  IF x = 0 THEN 0
      ELSE sign + (r[2] + Bias(F)) * ImplicitBit(F) + (r[1] % ImplicitBit(F))

FromSigned(F, n, a) ==
  FromBits(F, n, NegateIf(n, a < 0, a), IF a < 0 THEN SignBit(F) ELSE 0)

floatdisf(a) == FromSigned(SF, Di, a)

floatundisf(a) == FromBits(SF, Di, a, 0)

floattisf(a) == FromSigned(SF, Ti, a)

floatuntisf(a) == FromBits(SF, Ti, a, 0)

floattidf(a) == FromSigned(DF, Ti, a)

floatuntidf(a) == FromBits(DF, Ti, a, 0)

\* 2^k as a double.
TwoP(k) == (k + Bias(DF)) * ImplicitBit(DF)

\* An exactly representable product of a small integer and a power of two:
\* `(int32_t)(a >> 32) * twop32'.
ExactDF(a, k) ==
  IF a = 0 THEN 0 ELSE FromSigned(DF, Di, a) + k * ImplicitBit(DF)

\* Without __SOFT_FP__ the halves become doubles by or-ing them into the
\* significand of a power of two; one addition rounds.
floatdidf(a) ==
  LET high == ExactDF(S(Si, High(Si, U(Di, a))), W)
      low  == TwoP(DF.sig) | Low(Si, a)
  IN  adddf3(subdf3(high, TwoP(DF.sig)), low)

floatundidf(a) ==
  LET high == TwoP(DF.sig + W) | High(Si, a)
      low  == TwoP(DF.sig) | Low(Si, a)
      both == adddf3(TwoP(DF.sig + W), TwoP(DF.sig))
  IN  adddf3(subdf3(high, both), low)

\* int to double is exact; int to float rounds when it has too many bits.
floatunsidf(a) ==
  LET e == Si - 1 - Clz(Si, a)
  IN  IF a = 0 THEN 0
      ELSE ((a * 2^(DF.sig - e)) ^^ ImplicitBit(DF))
             + (e + Bias(DF)) * ImplicitBit(DF)

floatsidf(a) ==
  IF a >= 0 THEN floatunsidf(a) ELSE floatunsidf(U(Si, -a)) + SignBit(DF)

floatunsisf(a) ==
  LET e     == Si - 1 - Clz(Si, a)
      shift == e - SF.sig
      big   == (a \div 2^shift) ^^ ImplicitBit(SF)
      round == Shl(TypeWidth(SF), a, TypeWidth(SF) - shift)
      frac  == IF e <= SF.sig THEN (a * 2^(SF.sig - e)) ^^ ImplicitBit(SF)
               ELSE RoundUp(round, SignBit(SF), big)
  IN  IF a = 0 THEN 0 ELSE frac + (e + Bias(SF)) * ImplicitBit(SF)

floatsisf(a) ==
  IF a >= 0 THEN floatunsisf(a) ELSE floatunsisf(U(Si, -a)) + SignBit(SF)
-----------------------------------------------------------------------------
\* The bits of |a| as an integer of n bits; the fraction is dropped.
FixAbs(F, n, a) ==
  LET e == Exponent(F, a) - Bias(F)
      r == Significand(F, a) | ImplicitBit(F)
  IN  IF e < 0 THEN 0
      ELSE IF e > F.sig THEN Shl(n, r, e - F.sig)
      ELSE r \div 2^(F.sig - e)

FixSigned(F, n, a) == S(n, NegateIf(n, SignOf(F, a) # 0, FixAbs(F, n, a)))

FixUnsigned(F, n, a) == IF SignOf(F, a) # 0 THEN 0 ELSE FixAbs(F, n, a)

fixsfsi(a) == FixSigned(SF, Si, a)

fixdfsi(a) == FixSigned(DF, Si, a)

fixsfdi(a) == FixSigned(SF, Di, a)

fixdfdi(a) == FixSigned(DF, Di, a)

fixsfti(a) == FixSigned(SF, Ti, a)

fixdfti(a) == FixSigned(DF, Ti, a)

fixunssfsi(a) == FixUnsigned(SF, Si, a)

fixunssfdi(a) == FixUnsigned(SF, Di, a)

fixunsdfdi(a) == FixUnsigned(DF, Di, a)

fixunssfti(a) == FixUnsigned(SF, Ti, a)

fixunsdfti(a) == FixUnsigned(DF, Ti, a)

\* The significand does not fit an unsigned int: its highest bits do.
fixunsdfsi(a) ==
  LET e == Exponent(DF, a) - Bias(DF)
      r == (Significand(DF, a) | ImplicitBit(DF)) \div 2^(DF.sig + 1 - Si)
  IN  IF e < 0 \/ SignOf(DF, a) # 0 THEN 0 ELSE Shr(Si, r, Si - 1 - e)

\* long double: sign, unbiased exponent, mantissa of Di bits.
XF(sign, e, man) == [neg |-> sign, e |-> e, man |-> man]

Zero == XF(FALSE, 0, 0)

floatundixf(a) ==
  LET clz == Clz(Di, a)
  IN  IF a = 0 THEN Zero ELSE XF(FALSE, Di - 1 - clz, Shl(Di, a, clz))

floatdixf(a) ==
  LET x   == NegateIf(Di, a < 0, a)
      clz == Clz(Di, x)
  IN  IF a = 0 THEN Zero ELSE XF(a < 0, Di - 1 - clz, Shl(Di, x, clz))

floatuntixf(a) ==
  LET r == RoundTo(Ti, Di, a)
  IN  IF a = 0 THEN Zero ELSE XF(FALSE, r[2], r[1])

floattixf(a) ==
  LET r == RoundTo(Ti, Di, NegateIf(Ti, a < 0, a))
  IN  IF a = 0 THEN Zero ELSE XF(a < 0, r[2], r[1])

fixunsxfsi(x) ==
  IF x.e < 0 \/ x.neg THEN 0 ELSE Shr(Si, High(Si, x.man), Si - 1 - x.e)

fixunsxfdi(x) ==
  IF x.e < 0 \/ x.neg THEN 0 ELSE Shr(Di, x.man, Di - 1 - x.e)

fixunsxfti(x) ==
  IF x.e < 0 \/ x.neg THEN 0
  ELSE IF x.e > Di - 1 THEN Shl(Ti, x.man, x.e - (Di - 1))
  ELSE x.man \div 2^(Di - 1 - x.e)
-----------------------------------------------------------------------------
\* Numbers as m * 2^e, e counted from the last bit of the least denormal.
Mant(F, x) == IF Exponent(F, x) = 0 THEN Significand(F, x)
              ELSE Significand(F, x) + ImplicitBit(F)

Expo(F, x) == IF Exponent(F, x) = 0 THEN 0 ELSE Exponent(F, x) - 1

\* The value of format F nearest to m * 2^e, ties to even: what IEEE 754
\* asks of every operation.
Nearest(F, m, e, sign) ==
  LET k    == 30 - Clz(30, m)
      t    == LET d == k + e - (F.sig + 1) IN IF d < 0 THEN 0 ELSE d
      down == t - e
      q    == IF down <= 0 THEN m * 2^(-down)
              ELSE IF down > k + 1 THEN 0
              ELSE RoundUp(2 * (m % 2^down), 2^down, m \div 2^down)
      rep  == t * ImplicitBit(F) + q
  IN  IF m = 0 THEN sign
      ELSE sign + (IF rep >= InfRep(F) THEN InfRep(F) ELSE rep)

\* The processor's division: the quotient to more bits than F has and a
\* sticky bit, rounded.
HwDiv(F, a, b) ==
  LET n   == F.sig + 3
      num == Mant(F, a) * 2^(2 * n)
      m   == 2 * (num \div Mant(F, b)) + Sticky(num % Mant(F, b) # 0)
      e   == Expo(F, a) - Expo(F, b) + (Bias(F) - 1 + F.sig) - 2 * n - 1
      finite == 1 .. InfRep(F) - 1
  IN  IF AbsOf(F, a) \in finite /\ AbsOf(F, b) \in finite
      THEN Nearest(F, m, e, IF Differ(F, a, b) THEN SignBit(F) ELSE 0)
      ELSE Div(F, a, b)

Sub(F, a, b) == Add(F, a, Neg(F, b))

One(F) == Bias(F) * ImplicitBit(F)

Copysign(F, x, y) == AbsOf(F, x) + SignOf(F, y)

\* 1 or 0 with the sign of x, for whether x is infinite.
Boxed(F, x) == Copysign(F, IF IsInf(F, x) THEN One(F) ELSE 0, x)

NanToZero(F, x) == IF IsNan(F, x) THEN Copysign(F, 0, x) ELSE x

\* (a + ib) * (c + id).  Both parts NaN: recover the infinity the textbook
\* formula lost.
\* The products again, of operands with the infinities boxed and no NaN.
BoxedProduct(F, a, b, c, d) ==
  <<Mul(F, InfRep(F), Sub(F, Mul(F, a, c), Mul(F, b, d))),
    Mul(F, InfRep(F), Add(F, Mul(F, a, d), Mul(F, b, c)))>>

\* a, b, c, d after the infinities of a factor: is there one, and is one made by the
\* multiplication only?
Recovered(F, a, b, c, d, z, inf, inf3) ==
  LET Last(x) == IF inf3 /\ ~inf THEN NanToZero(F, x) ELSE x
  IN  IF IsNan(F, z[1]) /\ IsNan(F, z[2]) /\ (inf \/ inf3)
      THEN BoxedProduct(F, Last(a), Last(b), Last(c), Last(d)) ELSE z

SecondInfinity(F, a, b, c, d, z, inf1, made) ==
  LET inf2 == IsInf(F, c) \/ IsInf(F, d)
  IN  Recovered(F, IF inf2 THEN NanToZero(F, a) ELSE a, IF inf2 THEN NanToZero(F, b) ELSE b,
                IF inf2 THEN Boxed(F, c) ELSE c, IF inf2 THEN Boxed(F, d) ELSE d,
                z, inf1 \/ inf2, made)

FirstInfinity(F, a, b, c, d, z, made) ==
  LET inf1 == IsInf(F, a) \/ IsInf(F, b)
  IN  SecondInfinity(F, IF inf1 THEN Boxed(F, a) ELSE a, IF inf1 THEN Boxed(F, b) ELSE b,
                     IF inf1 THEN NanToZero(F, c) ELSE c, IF inf1 THEN NanToZero(F, d) ELSE d,
                     z, inf1, made)

Multiplied(F, a, b, c, d, ac, bd, ad, bc) ==
  FirstInfinity(F, a, b, c, d, <<Sub(F, ac, bd), Add(F, ad, bc)>>,
                \E x \in {ac, bd, ad, bc} : IsInf(F, x))

MulComplex(F, a, b, c, d) ==
  Multiplied(F, a, b, c, d, Mul(F, a, c), Mul(F, b, d), Mul(F, a, d), Mul(F, b, c))

mulsc3(a, b, c, d) == MulComplex(SF, a, b, c, d)

muldc3(a, b, c, d) == MulComplex(DF, a, b, c, d)

mulxc3(a, b, c, d) == MulComplex(DF, a, b, c, d)

\* logb(fmax(|c|, |d|)): fmax prefers the operand that is a number.
LogbMax(F, c, d) ==
  LET x == AbsOf(F, c)    y == AbsOf(F, d)
      m == IF IsNan(F, x) THEN y ELSE IF IsNan(F, y) THEN x
           ELSE IF x < y THEN y ELSE x
  IN  IF m \in 1 .. InfRep(F) - 1
      THEN [is |-> "finite", n |-> Norm(F, m).exp - Bias(F)]
      ELSE [is |-> IF m = 0 THEN "-inf" ELSE IF IsNan(F, m) THEN "nan"
                   ELSE "inf", n |-> 0]

Scalbn(F, x, n) ==
  IF AbsOf(F, x) \in 1 .. InfRep(F) - 1
  THEN Nearest(F, Mant(F, x), Expo(F, x) + n, SignOf(F, x)) ELSE x

\* (a + ib) / (c + id), scaled so that the denominator neither overflows
\* nor vanishes.
FiniteRep(F, x) == AbsOf(F, x) < InfRep(F)

\* The numerators of the quotient.
Numerators(F, a, b, c, d) ==
  <<Add(F, Mul(F, a, c), Mul(F, b, d)), Sub(F, Mul(F, b, c), Mul(F, a, d))>>

TimesComplex(F, x, p) == <<Mul(F, x, p[1]), Mul(F, x, p[2])>>

\* z is the quotient by rule; c, d are scaled, denom is their square.
CorrectedQuotient(F, a, b, c, d, denom, unbounded, z) ==
  CASE ~(IsNan(F, z[1]) /\ IsNan(F, z[2])) -> z
    [] OTHER ->
  CASE AbsOf(F, denom) = 0 /\ ~(IsNan(F, a) /\ IsNan(F, b)) ->
         TimesComplex(F, Copysign(F, InfRep(F), c), <<a, b>>)
    [] OTHER ->
  CASE (IsInf(F, a) \/ IsInf(F, b)) /\ FiniteRep(F, c) /\ FiniteRep(F, d) ->
         TimesComplex(F, InfRep(F), Numerators(F, Boxed(F, a), Boxed(F, b), c, d))
    [] unbounded /\ FiniteRep(F, a) /\ FiniteRep(F, b) ->
         TimesComplex(F, 0, Numerators(F, a, b, Boxed(F, c), Boxed(F, d)))
    [] OTHER -> z

Quotient(F, n, denom, ilog) ==
  <<Scalbn(F, HwDiv(F, n[1], denom), -ilog), Scalbn(F, HwDiv(F, n[2], denom), -ilog)>>

DividedBy(F, a, b, c, d, denom, logbw) ==
  CorrectedQuotient(F, a, b, c, d, denom, logbw.is = "inf",
                    Quotient(F, Numerators(F, a, b, c, d), denom, logbw.n))

DivScaled(F, a, b, c, d, logbw) ==
  DividedBy(F, a, b, c, d, Add(F, Mul(F, c, c), Mul(F, d, d)), logbw)

DivByLog(F, a, b, c, d, logbw) ==
  DivScaled(F, a, b, Scalbn(F, c, -logbw.n), Scalbn(F, d, -logbw.n), logbw)

DivComplex(F, a, b, c, d) == DivByLog(F, a, b, c, d, LogbMax(F, c, d))

divsc3(a, b, c, d) == DivComplex(SF, a, b, c, d)

divdc3(a, b, c, d) == DivComplex(DF, a, b, c, d)

divxc3(a, b, c, d) == DivComplex(DF, a, b, c, d)
=============================================================================
