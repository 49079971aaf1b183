----------------------------- MODULE Arithmetic -----------------------------
(***************************************************************************)
(* The compiler runtime against arithmetic.                                *)
(***************************************************************************)
EXTENDS Conversions, Question, FiniteSets

CONSTANTS Operands,     \* for each kind of call, what its two operands may be
          Parts         \* the parts of complex numbers

ArithKinds == {"si", "di", "ti", "sf", "df", "float", "xf", "complex"}

Ints(n, x, y) ==
  LET a == S(n, x)    b == S(n, y)
  IN  [addv |-> AddV(n, a, b), subv |-> SubV(n, a, b),
       mulv |-> MulV(n, a, b), mulo |-> MulO(n, a, b),
       absv |-> AbsV(n, a),    negv |-> NegV(n, a)]

Answer(q) ==
  LET x == q[2]    a == S(Di, x)    t == S(Ti, x)
  IN  CASE q[1] = "si" ->
             <<Ints(Si, x, q[3]), paritysi2(x), popcountsi2(x),
               powidf2(S(Si, x), S(Si, q[3]))>>
        [] q[1] = "di" ->
             LET b == S(Di, q[3])
             IN  <<Ints(Di, x, q[3]), muldi3(x, q[3]), cmpdi2(a, b),
                   ucmpdi2(x, q[3]), paritydi2(x), popcountdi2(x), negdi2(a),
                   IF q[3] = 0 THEN NONE
                   ELSE <<udivdi3(x, q[3]), umoddi3(x, q[3]), divdi3(a, b),
                          moddi3(a, b), divmoddi4(a, b)>> >>
        [] q[1] = "ti" ->
             LET b == S(Ti, q[3])
             IN  <<Ints(Ti, x, q[3]), multi3(x, q[3]), ucmpti2(x, q[3]),
                   parityti2(x), popcountti2(x), negti2(t),
                   IF q[3] = 0 THEN NONE
                   ELSE <<udivti3(x, q[3]), umodti3(x, q[3]), divti3(t, b),
                          modti3(t, b)>> >>
        [] q[1] = "sf" ->
             <<addsf3(x, q[3]), subsf3(x, q[3]), mulsf3(x, q[3]),
               divsf3(x, q[3]), eqltnesf2(x, q[3]), gtsf2(x, q[3]),
               unordsf2(x, q[3]), negsf2(x), fixsfsi(x), fixunssfsi(x),
               fixsfdi(x), fixunssfdi(x), fixsfti(x), fixunssfti(x),
               extendsfdf2(x)>>
        [] q[1] = "df" ->
             <<adddf3(x, q[3]), subdf3(x, q[3]), muldf3(x, q[3]),
               divdf3(x, q[3]), eqltnedf2(x, q[3]), gtdf2(x, q[3]),
               unorddf2(x, q[3]), negdf2(x), fixdfsi(x), fixunsdfsi(x),
               fixdfdi(x), fixunsdfdi(x), fixdfti(x), fixunsdfti(x),
               truncdfsf2(x)>>
        [] q[1] = "float" ->
             <<floatsisf(S(Si, x)), floatunsisf(U(Si, x)),
               floatdisf(a), floatundisf(U(Di, x)), floattisf(t),
               floatuntisf(x), floatsidf(S(Si, x)), floatunsidf(U(Si, x)),
               floatdidf(a), floatundidf(U(Di, x)), floattidf(t),
               floatuntidf(x)>>
        [] q[1] = "xf" ->
             <<floatdixf(a), floatundixf(U(Di, x)), floattixf(t),
               floatuntixf(x), fixunsxfsi(floatundixf(U(Si, x))),
               fixunsxfdi(floatundixf(U(Di, x))), fixunsxfti(floatuntixf(x))>>
        [] q[1] = "complex" ->
             <<mulsc3(x, q[3], q[4], q[5]), divsc3(x, q[3], q[4], q[5])>>

ArithInit ==
  /\ answer = NONE
  /\ \/ \E k \in DOMAIN Operands :
          \E x \in Operands[k][1], y \in Operands[k][2] :
            question = <<k, x, y>>
     \/ \E a, b, c, d \in Parts : question = <<"complex", a, b, c, d>>

Compute == question[1] \in ArithKinds /\ Ask(Answer)
-----------------------------------------------------------------------------
\* The references: exact integers and exactly rounded rationals.
Fits(n, x) == x >= -(2^(n - 1)) /\ x < 2^(n - 1)

OrAbort(n, x) == IF Fits(n, x) THEN x ELSE ABORT

BitsSet(n, x) == Cardinality({i \in 0 .. n - 1 : (x \div 2^i) % 2 = 1})

IntsRight(n, x, y, ans) ==
  LET a == S(n, x)    b == S(n, y)
  IN  ans = [addv |-> OrAbort(n, a + b), subv |-> OrAbort(n, a - b),
             mulv |-> OrAbort(n, a * b), mulo |-> <<S(n, a * b), ~Fits(n, a * b)>>,
             absv |-> OrAbort(n, IF a < 0 THEN -a ELSE a),
             negv |-> OrAbort(n, -a)]

Power(a, b) == LET p[i \in 0 .. b] == IF i = 0 THEN 1 ELSE a * p[i - 1]
               IN  p[b]

Order(x, y) == IF x < y THEN 0 ELSE IF x > y THEN 2 ELSE 1

\* x * y modulo 2^n without an intermediate result of 2 * n bits.
Product(n, x, y) ==
  LET h == n \div 2 IN U(n, U(h, x * High(h, y)) * 2^h + x * Low(h, y))

Canon(F, x) == IF IsNan(F, x) THEN "nan" ELSE x

IsFinite(F, x) == AbsOf(F, x) < InfRep(F)

\* The exact sum: both numbers in units of the smaller exponent, what is far
\* below the last bit of the larger number kept as one sticky bit.
SumOf(F, a, b) ==
  LET hi == IF Expo(F, a) > Expo(F, b) THEN Expo(F, a) ELSE Expo(F, b)
      lo == IF Expo(F, a) > Expo(F, b) THEN Expo(F, b) ELSE Expo(F, a)
      e  == IF lo < hi - 14 THEN hi - 14 ELSE lo
      M(x) == IF Expo(F, x) >= e THEN 2 * Mant(F, x) * 2^(Expo(F, x) - e)
              ELSE 2 * (Mant(F, x) \div 2^(e - Expo(F, x)))
                     + Sticky(Mant(F, x) # 0)
      V(x) == IF SignOf(F, x) = 0 THEN M(x) ELSE -M(x)
      GivenV(v) ==
        CASE AbsOf(F, a) = 0 /\ AbsOf(F, b) = 0 ->
               IF Differ(F, a, b) THEN 0 ELSE SignOf(F, a)
          [] v = 0 /\ AbsOf(F, a) # 0 -> 0
          [] v > 0 -> Nearest(F, v, e - 1, 0)
          [] v < 0 -> Nearest(F, -v, e - 1, SignBit(F))
  IN  GivenV(V(a) + V(b))

RightSum(F, a, b) ==
  CASE IsNan(F, a) \/ IsNan(F, b) -> "nan"
    [] IsInf(F, a) /\ IsInf(F, b) -> IF a = b THEN a ELSE "nan"
    [] IsInf(F, a) /\ IsFinite(F, b) -> a
    [] IsFinite(F, a) /\ IsInf(F, b) -> b
    [] IsFinite(F, a) /\ IsFinite(F, b) -> SumOf(F, a, b)

Unit(F) == Bias(F) - 1 + F.sig     \* the least denormal is 2^-Unit

RightProduct(F, a, b) ==
  LET sign == IF Differ(F, a, b) THEN SignBit(F) ELSE 0
  IN  CASE IsNan(F, a) \/ IsNan(F, b) -> "nan"
        [] ~IsNan(F, a) /\ ~IsNan(F, b) /\ (IsInf(F, a) \/ IsInf(F, b)) ->
             IF AbsOf(F, a) = 0 \/ AbsOf(F, b) = 0 THEN "nan"
             ELSE InfRep(F) + sign
        [] IsFinite(F, a) /\ IsFinite(F, b) ->
             Nearest(F, Mant(F, a) * Mant(F, b),
                     Expo(F, a) + Expo(F, b) - Unit(F), sign)

\* The quotient, except that what is below the normal numbers before
\* rounding becomes zero, as the code's comment says; so does the least
\* normal number itself, because the estimate is strictly below it.
RightQuotient(F, a, b) ==
  LET sign == IF Differ(F, a, b) THEN SignBit(F) ELSE 0
      na == Norm(F, a)    nb == Norm(F, b)
      exp == na.exp - nb.exp + Bias(F) - (IF na.sig <= nb.sig THEN 1 ELSE 0)
  IN  CASE IsNan(F, a) \/ IsNan(F, b) -> "nan"
        [] IsInf(F, a) /\ ~IsNan(F, b) ->
             IF IsInf(F, b) THEN "nan" ELSE InfRep(F) + sign
        [] IsFinite(F, a) /\ IsInf(F, b) -> sign
        [] AbsOf(F, a) = 0 /\ IsFinite(F, b) ->
             IF AbsOf(F, b) = 0 THEN "nan" ELSE sign
        [] AbsOf(F, a) \in 1 .. InfRep(F) - 1 /\ AbsOf(F, b) = 0 ->
             InfRep(F) + sign
        [] AbsOf(F, a) \in 1 .. InfRep(F) - 1
             /\ AbsOf(F, b) \in 1 .. InfRep(F) - 1 ->
             IF exp < 1 THEN sign ELSE HwDiv(F, a, b)

\* The sign of a - b, by the values.
Sign(F, a, b) ==
  LET V(x) == IF SignOf(F, x) = 0 THEN AbsOf(F, x) ELSE -AbsOf(F, x)
  IN  IF V(a) < V(b) THEN -1 ELSE IF V(a) > V(b) THEN 1 ELSE 0

\* |x| without its fraction, and whether x is an integer of n bits then.
IntPart(F, x) ==
  LET k == Expo(F, x) - Unit(F)
  IN  IF k >= 0 THEN Mant(F, x) * 2^k ELSE Mant(F, x) \div 2^(-k)

FixesRight(F, n, x, signed, unsigned) ==
  LET v == IF SignOf(F, x) = 0 THEN IntPart(F, x) ELSE -IntPart(F, x)
  IN  /\ IsFinite(F, x) /\ Fits(n, v) => signed = v
      /\ IsFinite(F, x) /\ v < 2^n =>
           unsigned = (IF v < 0 \/ SignOf(F, x) # 0 THEN 0 ELSE v)

\* Format F into format G.
Recast(F, G, x) ==
  IF IsInf(F, x)
  THEN InfRep(G) + (IF SignOf(F, x) = 0 THEN 0 ELSE SignBit(G))
  ELSE Nearest(G, Mant(F, x), Expo(F, x) - Unit(F) + Unit(G),
               IF SignOf(F, x) = 0 THEN 0 ELSE SignBit(G))

FloatsRight(F, G, n, x, y, ans) ==
  /\ Canon(F, ans[1]) = RightSum(F, x, y)
  /\ Canon(F, ans[2]) = RightSum(F, x, Neg(F, y))
  /\ Canon(F, ans[3]) = RightProduct(F, x, y)
  /\ Canon(F, ans[4]) = RightQuotient(F, x, y)
  /\ ans[7] = (IsNan(F, x) \/ IsNan(F, y))
  /\ ans[5] = (IF ans[7] THEN 1 ELSE Sign(F, x, y))
  /\ ans[6] = (IF ans[7] THEN -1 ELSE Sign(F, x, y))
  /\ AbsOf(F, ans[8]) = AbsOf(F, x) /\ Differ(F, ans[8], x)
  /\ FixesRight(F, Si, x, ans[9], ans[10])
  /\ FixesRight(F, Di, x, ans[11], ans[12])
  /\ FixesRight(F, Ti, x, ans[13], ans[14])
  \* 2^128 as a double is the one number the code gets wrong: see README.
  /\ \/ F = DF /\ AbsOf(F, x) =
           (Bias(DF) + MaxExponent(SF) - Bias(SF)) * ImplicitBit(DF)
     \/ IF IsNan(F, x) THEN IsNan(G, ans[15]) ELSE ans[15] = Recast(F, G, x)

\* An integer as a value of F.
NearestInt(F, v) ==
  IF v = 0 THEN 0
  ELSE IF v > 0 THEN Nearest(F, v, Unit(F), 0)
  ELSE Nearest(F, -v, Unit(F), SignBit(F))

\* A long double v: man * 2^(e - (Di - 1)) is v to Di bits.
XFRight(x, v) ==
  LET m == IF v < 0 THEN -v ELSE v
      k == 30 - Clz(30, m)
      p == IF k <= Di THEN m * 2^(Di - k)
           ELSE RoundUp(2 * (m % 2^(k - Di)), 2^(k - Di), m \div 2^(k - Di))
  IN  IF v = 0 THEN x = Zero
      ELSE x = IF p = 2^Di THEN XF(v < 0, k, 2^(Di - 1))
               ELSE XF(v < 0, k - 1, p)

IsCInf(z)  == IsInf(SF, z[1]) \/ IsInf(SF, z[2])
IsCFin(z)  == IsFinite(SF, z[1]) /\ IsFinite(SF, z[2])
IsCZero(z) == AbsOf(SF, z[1]) = 0 /\ AbsOf(SF, z[2]) = 0

\* Infinities and zeros of complex products and quotients (C99, annex G).
ComplexRight(x, y, product, quotient) ==
  LET NotZero(z) == IsCInf(z) \/ (IsCFin(z) /\ ~IsCZero(z))
  IN  /\ (IsCInf(x) \/ IsCInf(y)) /\ NotZero(x) /\ NotZero(y) => IsCInf(product)
      /\ IsCInf(x) /\ IsCFin(y) => IsCInf(quotient)
      /\ IsCFin(x) /\ IsCInf(y) => IsCZero(quotient)
      /\ NotZero(x) /\ IsCZero(y) => IsCInf(quotient)

(***************************************************************************)
(* Every function of the compiler runtime returns what arithmetic says:    *)
(* quotients and remainders for each way the words of dividend and divisor *)
(* lie, wrapped products, an abort exactly when a result does not fit,     *)
(* correctly rounded sums, products, quotients and conversions, with       *)
(* denormals, infinities and NaNs among the operands.                      *)
(***************************************************************************)
ArithmeticExact ==
  answer # NONE /\ question[1] \in ArithKinds =>
    LET q == question    x == q[2]    y == q[3]
        a == S(Di, x)    t == S(Ti, x)
        b == S(Di, y)    u == S(Ti, y)
    IN  CASE q[1] = "si" ->
               /\ IntsRight(Si, x, y, answer[1])
               /\ answer[2] = BitsSet(Si, x) % 2
               /\ answer[3] = BitsSet(Si, x)
               /\ answer[4] = [recip |-> S(Si, y) < 0,
                               r |-> Power(S(Si, x), IF S(Si, y) < 0
                                     THEN -S(Si, y) ELSE S(Si, y))]
          [] q[1] = "di" ->
               /\ IntsRight(Di, x, y, answer[1])
               /\ answer[2] = U(Di, x * y)
               /\ answer[3] = Order(a, b) /\ answer[4] = Order(x, y)
               /\ answer[5] = BitsSet(Di, x) % 2
               /\ answer[6] = BitsSet(Di, x)
               /\ answer[7] = S(Di, -a)
               /\ y # 0 =>
                    answer[8] = <<x \div y, x % y, S(Di, Quo(a, b)), Rem(a, b),
                                  <<S(Di, Quo(a, b)), Rem(a, b)>> >>
          [] q[1] = "ti" ->
               /\ IntsRight(Ti, x, y, answer[1])
               /\ answer[2] = Product(Ti, x, y)
               /\ answer[3] = Order(x, y)
               /\ answer[4] = BitsSet(Ti, x) % 2
               /\ answer[5] = BitsSet(Ti, x)
               /\ answer[6] = S(Ti, -t)
               /\ y # 0 => answer[7] = <<x \div y, x % y, S(Ti, Quo(t, u)),
                                         Rem(t, u)>>
          [] q[1] = "sf" -> FloatsRight(SF, DF, Si, x, y, answer)
          [] q[1] = "df" -> FloatsRight(DF, SF, Si, x, y, answer)
          [] q[1] = "float" ->
               /\ SubSeq(answer, 1, 4) =
                    <<NearestInt(SF, S(Si, x)), NearestInt(SF, U(Si, x)),
                      NearestInt(SF, a), NearestInt(SF, U(Di, x))>>
               \* In the source a float has room for every ti.
               /\ Fits(Bias(SF) + 2, t) => answer[5] = NearestInt(SF, t)
               /\ Fits(Bias(SF) + 2, x) => answer[6] = NearestInt(SF, x)
               /\ SubSeq(answer, 7, 12) =
                    <<NearestInt(DF, S(Si, x)), NearestInt(DF, U(Si, x)),
                      NearestInt(DF, a), NearestInt(DF, U(Di, x)),
                      NearestInt(DF, t), NearestInt(DF, x)>>
          [] q[1] = "xf" ->
               /\ XFRight(answer[1], a) /\ XFRight(answer[2], U(Di, x))
               /\ XFRight(answer[3], t) /\ XFRight(answer[4], x)
               /\ answer[5] = U(Si, x) /\ answer[6] = U(Di, x)
               /\ x < 2^Di => answer[7] = x
          [] q[1] = "complex" ->
               ComplexRight(<<x, y>>, <<q[4], q[5]>>, answer[1], answer[2])
=============================================================================
