----------------------------- MODULE SoftFloat ------------------------------
(***************************************************************************)
(* The floating-point half of the compiler runtime: IEEE 754 arithmetic    *)
(* on bit patterns.  A format has F.sig explicit significand bits and      *)
(* F.exp exponent bits; SF and DF stand for float and double (23 and 8, 52 *)
(* and 11 in the source).  A value of a format is its pattern, a number in *)
(* 0 .. 2^TypeWidth(F) - 1.                                                *)
(*                                                                         *)
(* long double has an explicit leading significand bit: it is a record of  *)
(* sign, biased exponent and mantissa, of Di bits.                         *)
(***************************************************************************)
EXTENDS CompilerRT

CONSTANTS SF, DF

\* Addition needs three bits below the significand and one above it.
ASSUME Formats ==
  /\ SF.exp >= 4 /\ DF.exp > SF.exp /\ DF.sig > SF.sig
  /\ (DF.sig + DF.exp) % 2 = 1
  /\ W <= DF.sig /\ DF.sig < Di /\ Ti < 2^DF.exp

TypeWidth(F)   == F.sig + F.exp + 1
MaxExponent(F) == 2^F.exp - 1
Bias(F)        == MaxExponent(F) \div 2
ImplicitBit(F) == 2^F.sig
SignBit(F)     == 2^(F.sig + F.exp)
InfRep(F)      == MaxExponent(F) * ImplicitBit(F)
QuietBit(F)    == ImplicitBit(F) \div 2
QnanRep(F)     == InfRep(F) + QuietBit(F)

AbsOf(F, x)         == x % SignBit(F)
SignOf(F, x)        == x - AbsOf(F, x)
Exponent(F, x)      == AbsOf(F, x) \div ImplicitBit(F)
Significand(F, x)   == x % ImplicitBit(F)
IsNan(F, x)         == AbsOf(F, x) > InfRep(F)
IsInf(F, x)         == AbsOf(F, x) = InfRep(F)
Differ(F, a, b)     == SignOf(F, a) # SignOf(F, b)

Quieted(F, x) == x | QuietBit(F)

Sticky(cond) == IF cond THEN 1 ELSE 0

RepClz(F, x) == Clz(TypeWidth(F), x)

\* A denormal significand shifted up to its leading bit, and its exponent.
Normalize(F, sig) ==
  LET shift == RepClz(F, sig) - RepClz(F, ImplicitBit(F))
  IN  [sig |-> sig * 2^shift, exp |-> 1 - shift]

\* Shift x right by n bits, or-ing what falls out into the lowest bit.
ShiftSticky(F, x, n) ==
  Shr(TypeWidth(F), x, n)
    | Sticky(Shl(TypeWidth(F), x, TypeWidth(F) - n) # 0)

Norm(F, x) ==
  IF Exponent(F, x) = 0
  THEN Normalize(F, Significand(F, x))
  ELSE [sig |-> Significand(F, x) | ImplicitBit(F), exp |-> Exponent(F, x)]

\* Ties away from zero.
RoundUpTies(rest, half, result) == result + (IF rest >= half THEN 1 ELSE 0)

\* Round to nearest, ties to even, by the bits below the result.
RoundUp(rest, half, result) ==
  result + (IF rest > half THEN 1 ELSE IF rest = half THEN result % 2 ELSE 0)
-----------------------------------------------------------------------------
\* Zero, infinity or NaN among the operands.
AddSpecial(F, a, b) ==
  LET aAbs == AbsOf(F, a)    bAbs == AbsOf(F, b)
  IN  CASE aAbs > InfRep(F) -> Quieted(F, a)
        [] aAbs <= InfRep(F) /\ bAbs > InfRep(F) -> Quieted(F, b)
        [] aAbs = InfRep(F) /\ bAbs <= InfRep(F) ->
             IF (a ^^ b) = SignBit(F) THEN QnanRep(F) ELSE a
        [] aAbs < InfRep(F) /\ bAbs = InfRep(F) -> b
        [] aAbs = 0 /\ bAbs < InfRep(F) -> IF bAbs = 0 THEN a & b ELSE b
        [] aAbs \in 1 .. InfRep(F) - 1 /\ bAbs = 0 -> a

\* The sum of two finite numbers that are not zero, |a| >= |b|.
\* Rounded, from its significand and its exponent.
RoundedSum(F, a, sig, exp) ==
  LET \* denormal before rounding: exponent zero, significand shifted
      sig2  == IF exp <= 0 THEN ShiftSticky(F, sig, 1 - exp) ELSE sig
      exp2  == IF exp <= 0 THEN 0 ELSE exp
  IN  IF exp >= MaxExponent(F) THEN InfRep(F) + SignOf(F, a)
      ELSE RoundUp(sig2 % 8, 4, ((sig2 \div 8) % ImplicitBit(F)) + exp2 * ImplicitBit(F) + SignOf(F, a))

Subtracted(F, a, exp, diff) ==
  LET shift == IF diff < ImplicitBit(F) * 8
               THEN RepClz(F, diff) - RepClz(F, ImplicitBit(F) * 8) ELSE 0
  IN  IF diff = 0 THEN 0 ELSE RoundedSum(F, a, diff * 2^shift, exp - shift)

Added(F, a, exp, sum) ==
  LET carry == sum >= ImplicitBit(F) * 16
  IN  RoundedSum(F, a, IF carry THEN (sum \div 2) | (sum % 2) ELSE sum, IF carry THEN exp + 1 ELSE exp)

\* The smaller significand against the exponent of the larger.
Aligned(F, nb, align) ==
  IF align = 0 THEN nb.sig * 8
  ELSE IF align < TypeWidth(F) THEN ShiftSticky(F, nb.sig * 8, align) ELSE 1

AddAligned(F, a, na, bSig, differ) ==
  IF differ THEN Subtracted(F, a, na.exp, na.sig * 8 - bSig) ELSE Added(F, a, na.exp, na.sig * 8 + bSig)

AddNormal(F, a, na, nb, differ) ==
  AddAligned(F, a, na, Aligned(F, nb, na.exp - nb.exp), differ)

AddFinite(F, a, b) == AddNormal(F, a, Norm(F, a), Norm(F, b), Differ(F, a, b))

Add(F, a, b) ==
  LET ordinary == 1 .. InfRep(F) - 1
  IN  IF AbsOf(F, a) \notin ordinary \/ AbsOf(F, b) \notin ordinary
      THEN AddSpecial(F, a, b)
      ELSE IF AbsOf(F, b) > AbsOf(F, a)
           THEN AddFinite(F, b, a) ELSE AddFinite(F, a, b)

addsf3(a, b) == Add(SF, a, b)

adddf3(a, b) == Add(DF, a, b)

Neg(F, a) == a ^^ SignBit(F)

negsf2(a) == Neg(SF, a)

negdf2(a) == Neg(DF, a)

subsf3(a, b) == addsf3(a, Neg(SF, b))

subdf3(a, b) == adddf3(a, Neg(DF, b))
-----------------------------------------------------------------------------
\* <<hi, lo>> of the product of two patterns: at once for float, from the
\* half words for double.
WideMultiply(F, a, b) ==
  LET w == TypeWidth(F)    h == w \div 2
      plolo == Low(h, a) * Low(h, b)     plohi == Low(h, a) * High(h, b)
      philo == High(h, a) * Low(h, b)    phihi == High(h, a) * High(h, b)
      r1 == High(h, plolo) + Low(h, plohi) + Low(h, philo)
  IN  IF F = SF
      THEN <<High(w, a * b), Low(w, a * b)>>
      ELSE <<U(w, High(h, plohi) + High(h, philo) + High(h, r1) + phihi),
             U(w, Low(h, plolo) + Shl(w, r1, h))>>

WideLeftShift(F, p) ==
  LET w == TypeWidth(F)
  IN  <<Shl(w, p[1], 1) | Shr(w, p[2], w - 1), Shl(w, p[2], 1)>>

WideRightShiftWithSticky(F, p, n) ==
  LET w == TypeWidth(F)
  IN  CASE n < w ->
             <<Shr(w, p[1], n),
               Shl(w, p[1], w - n) | ShiftSticky(F, p[2], n)>>
        [] n >= w /\ n < 2 * w ->
             <<0, Shr(w, p[1], n - w)
                    | Sticky(Shl(w, p[1], 2 * w - n) # 0 \/ p[2] # 0)>>
        [] n >= 2 * w -> <<0, Sticky(p[1] # 0 \/ p[2] # 0)>>

Special(F, x) == Exponent(F, x) \in {0, MaxExponent(F)}

\* The exponent and significand a product or quotient starts from.
Operand(F, x) ==
  IF Special(F, x) THEN Norm(F, x)
  ELSE [sig |-> Significand(F, x) | ImplicitBit(F), exp |-> Exponent(F, x)]

MulFinite(F, a, b, sign) ==
  LET na == Operand(F, a)
      nb == Operand(F, b)
      GivenP(p) ==
        LET top  == (p[1] & ImplicitBit(F)) # 0
            GivenExp(exp) ==
              LET GivenQ(q) ==
                    LET den  == WideRightShiftWithSticky(F, q, 1 - exp)
                        GivenR(r) ==
                          CASE exp >= MaxExponent(F) -> InfRep(F) + sign
                            [] F = DF /\ exp <= 0 /\ 1 - exp >= TypeWidth(F) -> sign
                            [] OTHER -> RoundUp(r[2], SignBit(F), r[1] + sign)
                    IN  GivenR(IF exp <= 0 THEN den
                               ELSE <<(q[1] % ImplicitBit(F)) + exp * ImplicitBit(F), q[2]>>)
              IN  GivenQ(IF top THEN p ELSE WideLeftShift(F, p))
        IN  GivenExp(na.exp + nb.exp - Bias(F) + (IF top THEN 1 ELSE 0))
  IN  GivenP(WideMultiply(F, na.sig, nb.sig * 2^F.exp))

Mul(F, a, b) ==
  LET aAbs == AbsOf(F, a)    bAbs == AbsOf(F, b)
      sign == IF Differ(F, a, b) THEN SignBit(F) ELSE 0
  IN  CASE aAbs > InfRep(F) -> Quieted(F, a)
        [] aAbs <= InfRep(F) /\ bAbs > InfRep(F) -> Quieted(F, b)
        [] aAbs = InfRep(F) /\ bAbs <= InfRep(F) ->
             IF bAbs # 0 THEN aAbs + sign ELSE QnanRep(F)
        [] aAbs < InfRep(F) /\ bAbs = InfRep(F) ->
             IF aAbs # 0 THEN bAbs + sign ELSE QnanRep(F)
        [] aAbs < InfRep(F) /\ bAbs < InfRep(F) /\ (aAbs = 0 \/ bAbs = 0) ->
             sign
        [] aAbs \in 1 .. InfRep(F) - 1 /\ bAbs \in 1 .. InfRep(F) - 1 ->
             MulFinite(F, a, b, sign)

mulsf3(a, b) == Mul(SF, a, b)

muldf3(a, b) == Mul(DF, a, b)

\* The quotient of the significands before rounding.  The code multiplies by
\* a reciprocal from four Newton-Raphson steps; what it needs of them is that
\* the truncated product is the largest number strictly below the quotient.
Estimate(F, aSig, bSig) == (aSig * 2 * ImplicitBit(F) - 1) \div bSig

DivFinite(F, a, b, sign) ==
  LET na == Operand(F, a)    nb == Operand(F, b)
      q0    == Estimate(F, na.sig, nb.sig)
      small == q0 < 2 * ImplicitBit(F)
      q     == IF small THEN q0 ELSE q0 \div 2
      rest  == na.sig * ImplicitBit(F) * (IF small THEN 2 ELSE 1) - q * nb.sig
      exp   == na.exp - nb.exp + Bias(F) - (IF small THEN 1 ELSE 0)
  IN  IF exp >= MaxExponent(F) THEN InfRep(F) + sign
      ELSE IF exp < 1 THEN sign
      ELSE (q % ImplicitBit(F)) + exp * ImplicitBit(F) + sign
             + (IF 2 * rest > nb.sig THEN 1 ELSE 0)

Div(F, a, b) ==
  LET aAbs == AbsOf(F, a)    bAbs == AbsOf(F, b)
      sign == IF Differ(F, a, b) THEN SignBit(F) ELSE 0
  IN  CASE aAbs > InfRep(F) -> Quieted(F, a)
        [] aAbs <= InfRep(F) /\ bAbs > InfRep(F) -> Quieted(F, b)
        [] aAbs = InfRep(F) /\ bAbs <= InfRep(F) ->
             IF bAbs = InfRep(F) THEN QnanRep(F) ELSE aAbs + sign
        [] aAbs < InfRep(F) /\ bAbs = InfRep(F) -> sign
        [] aAbs = 0 /\ bAbs < InfRep(F) ->
             IF bAbs = 0 THEN QnanRep(F) ELSE sign
        [] aAbs \in 1 .. InfRep(F) - 1 /\ bAbs = 0 -> InfRep(F) + sign
        [] aAbs \in 1 .. InfRep(F) - 1 /\ bAbs \in 1 .. InfRep(F) - 1 ->
             DivFinite(F, a, b, sign)

divsf3(a, b) == Div(SF, a, b)

divdf3(a, b) == Div(DF, a, b)
-----------------------------------------------------------------------------
\* Comparison as signed integers, the other way round when both are negative.
Compare(F, a, b, unordered) ==
  LET n == TypeWidth(F)    x == S(n, a)    y == S(n, b)
      less == IF x >= 0 \/ y >= 0 THEN x < y ELSE x > y
  IN  IF IsNan(F, a) \/ IsNan(F, b) THEN unordered
      ELSE IF (AbsOf(F, a) | AbsOf(F, b)) = 0 THEN 0
      ELSE IF less THEN -1 ELSE IF x = y THEN 0 ELSE 1

lesf2(a, b) == Compare(SF, a, b, 1)

ledf2(a, b) == Compare(DF, a, b, 1)

gesf2(a, b) == Compare(SF, a, b, -1)

gedf2(a, b) == Compare(DF, a, b, -1)

unordsf2(a, b) == IsNan(SF, a) \/ IsNan(SF, b)

unorddf2(a, b) == IsNan(DF, a) \/ IsNan(DF, b)

\* eq, lt and ne are le; gt is ge.
eqltnesf2(a, b) == lesf2(a, b)

eqltnedf2(a, b) == ledf2(a, b)

gtsf2(a, b) == gesf2(a, b)

gtdf2(a, b) == gedf2(a, b)
-----------------------------------------------------------------------------
extendsfdf2(a) ==
  LET aAbs  == AbsOf(SF, a)
      wider == 2^(DF.sig - SF.sig)
      scale == RepClz(SF, aAbs) - RepClz(SF, ImplicitBit(SF))
      sign  == IF SignOf(SF, a) = 0 THEN 0 ELSE SignBit(DF)
      nan   == Significand(SF, a)
  IN  sign +
      CASE aAbs \in ImplicitBit(SF) .. InfRep(SF) - 1 ->
             aAbs * wider + (Bias(DF) - Bias(SF)) * ImplicitBit(DF)
        [] aAbs >= InfRep(SF) ->
             InfRep(DF) + (nan & QuietBit(SF)) * wider
               + (nan % QuietBit(SF))
        [] aAbs \in 1 .. ImplicitBit(SF) - 1 ->
             ((aAbs * wider * 2^scale) ^^ ImplicitBit(DF))
               + (Bias(DF) - Bias(SF) - scale + 1) * ImplicitBit(DF)
        [] aAbs = 0 -> 0

\* A result of double on its way to float: drop the low bits and round.
Narrow(x) ==
  LET drop == DF.sig - SF.sig
  IN  <<x \div 2^drop, x % 2^drop, 2^(drop - 1)>>

TruncDenormal(a) ==
  LET shift == Bias(DF) - Bias(SF) - Exponent(DF, a) + 1
      n     == Narrow(ShiftSticky(DF, Significand(DF, a) | ImplicitBit(DF),
                                  shift))
  IN  IF shift > DF.sig THEN 0 ELSE RoundUp(n[2], n[3], n[1])

truncdfsf2(a) ==
  LET aAbs == AbsOf(DF, a)
      sign == IF SignOf(DF, a) = 0 THEN 0 ELSE SignBit(SF)
      underflow == (Bias(DF) + 1 - Bias(SF)) * ImplicitBit(DF)
      overflow  == (Bias(DF) + MaxExponent(SF) - Bias(SF)) * ImplicitBit(DF)
      n == Narrow(aAbs)
  IN  sign +
      CASE aAbs \in underflow .. overflow - 1 ->
             RoundUp(n[2], n[3],
                     n[1] - (Bias(DF) - Bias(SF)) * ImplicitBit(SF))
        [] aAbs > InfRep(DF) ->
             QnanRep(SF) | (aAbs % QuietBit(SF))
        [] aAbs > overflow /\ aAbs <= InfRep(DF) -> InfRep(SF)
        [] aAbs < underflow \/ aAbs = overflow -> TruncDenormal(a)
=============================================================================
