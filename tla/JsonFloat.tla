----------------------------- MODULE JsonFloat -----------------------------
(***************************************************************************)
(* dtoa_impl: the digits of a float, by the algorithm Grisu2 of Loitsch.   *)
(* The widths are parameters: the code has kPrecision = 64, Significand =  *)
(* 53, kBias = 1075, kAlpha = -60, kGamma = -32 and a table of 79 powers   *)
(* of ten, eight apart, from 10^-300.  A diyfp is f * 2^e.                 *)
(* `holds' in a result collects what the code asserts on its way.          *)
(***************************************************************************)
EXTENDS Integers, Sequences, FiniteSetsExt

CONSTANTS
    kPrecision,                 \* q, bits of a diyfp
    Significand,                \* p, bits of a float, the hidden one included
    kBias,                      \* of exponents of integral significands
    kAlpha, kGamma,             \* exponents of scaled diyfps
    kCachedPowersMinDecExp, kCachedPowersDecStep, kCachedPowersSize

ASSUME FloatAssumption ==
    /\ kPrecision \in Nat /\ kPrecision % 2 = 0
    /\ Significand \in Nat \ {0} /\ kPrecision >= Significand + 3 /\ kBias \in Nat
    /\ kAlpha >= 4 - kPrecision /\ kGamma < 0 /\ kGamma \in Int
    /\ kCachedPowersMinDecExp \in Int /\ kCachedPowersDecStep \in Nat \ {0} /\ kCachedPowersSize \in Nat

diyfp(f, e) == [f |-> f, e |-> e]

Word(n) == n % 2 ^ kPrecision

sub(x, y) == diyfp(x.f - y.f, x.e)

\* The product by halves, of which the upper word is left, rounded.
mul(x, y) ==
    LET half == 2 ^ (kPrecision \div 2)
        hi(n) == n \div half
        lo(n) == n % half
        p0 == lo(x.f) * lo(y.f)
        p1 == lo(x.f) * hi(y.f)
        p2 == hi(x.f) * lo(y.f)
        p3 == hi(x.f) * hi(y.f)
        Q == hi(p0) + lo(p1) + lo(p2) + half \div 2
    IN  diyfp(Word(p3 + hi(p2) + hi(p1) + hi(Q)), x.e + y.e + kPrecision)

RECURSIVE normalize(_)
normalize(x) == IF x.f < 2 ^ (kPrecision - 1) THEN normalize(diyfp(2 * x.f, x.e - 1)) ELSE x

normalize_to(x, exponent) == diyfp(Word(x.f * 2 ^ (x.e - exponent)), exponent)

\* What normalize_to asserts.
Shifts(x, exponent) == x.e >= exponent /\ x.f * 2 ^ (x.e - exponent) < 2 ^ kPrecision

\* The diyfp of a float from the two fields of its bits.
Value(E, F) == IF E = 0 THEN diyfp(F, 1 - kBias) ELSE diyfp(F + 2 ^ (Significand - 1), E - kBias)

LowerIsCloser(E, F) == F = 0 /\ E > 1

\* Half way to the float before, and to the one after.
Lower(E, F) ==
    LET v == Value(E, F) IN
    IF LowerIsCloser(E, F) THEN diyfp(4 * v.f - 1, v.e - 2) ELSE diyfp(2 * v.f - 1, v.e - 1)

Upper(E, F) == LET v == Value(E, F) IN diyfp(2 * v.f + 1, v.e - 1)

compute_boundaries(E, F) ==
    LET plus == normalize(Upper(E, F))
    IN  [w |-> normalize(Value(E, F)), minus |-> normalize_to(Lower(E, F), plus.e), plus |-> plus,
         holds |-> Shifts(Lower(E, F), plus.e)]
-----------------------------------------------------------------------------
(* Powers of ten.                                                           *)
\* Division of C++, towards zero.
Quotient(n, d) == IF n < 0 THEN -((-n) \div d) ELSE n \div d

\* The least k such that 10^k brings exponent `exponent' to kAlpha at least.
PowerNeeded(exponent) ==
    LET n == kAlpha - exponent - 1 IN Quotient(n * 78913, 2 ^ 18) + IF n > 0 THEN 1 ELSE 0

CachedIndex(exponent) ==
    Quotient(PowerNeeded(exponent) - kCachedPowersMinDecExp + kCachedPowersDecStep - 1, kCachedPowersDecStep)

CachedExponent(index) == kCachedPowersMinDecExp + index * kCachedPowersDecStep

\* The exponent beside a normalized 10^k; 1741647 / 2^19 is log2 of 10.
PowerExponent(k) == ((k * 1741647) \div 2 ^ 19) - (kPrecision - 1)

\* The nearest significand: what the table has for 10^k.
PowerSignificand(k) ==
    LET binary == PowerExponent(k)
        num == (IF k > 0 THEN 10 ^ k ELSE 1) * IF binary < 0 THEN 2 ^ (-binary) ELSE 1
        den == (IF k < 0 THEN 10 ^ (-k) ELSE 1) * IF binary > 0 THEN 2 ^ binary ELSE 1
    IN  (2 * num + den) \div (2 * den)

\* What get_cached_power_for_binary_exponent asserts.
InTable(exponent) ==
    /\ CachedIndex(exponent) \in 0 .. kCachedPowersSize - 1
    /\ PowerExponent(CachedExponent(CachedIndex(exponent))) + exponent + kPrecision \in kAlpha .. kGamma

get_cached_power_for_binary_exponent(exponent) ==
    LET k == CachedExponent(CachedIndex(exponent)) IN [c |-> diyfp(PowerSignificand(k), PowerExponent(k)), k |-> k]
-----------------------------------------------------------------------------
(* Digits.                                                                  *)
\* The largest k of those that ten digits allow, for 10^(k-1) <= n.
find_largest_pow10(n) == Max({1} \cup {k \in 2 .. 10 : 10 ^ (k - 1) <= n})

RECURSIVE grisu2_round(_, _, _, _, _, _)
\* Counts the last digit down while that brings the number closer to w.
grisu2_round(digits, dist, delta, rest, ten, holds) ==
    LET n == Len(digits) IN
    IF /\ rest < dist /\ delta - rest >= ten
       /\ rest + ten < dist \/ dist - rest > rest + ten - dist
    THEN grisu2_round([digits EXCEPT ![n] = @ - 1], dist, delta, rest + ten, ten, holds /\ digits[n] # 0)
    ELSE [digits |-> digits, holds |-> holds /\ n >= 1 /\ dist <= delta /\ rest <= delta /\ ten > 0]

Rounded(r, exponent) == [digits |-> r.digits, exponent |-> exponent, holds |-> r.holds]

RECURSIVE FractionalPart(_, _, _, _, _, _, _)
\* The digits of p2 / one, after m that were found.
FractionalPart(digits, p2, m, delta, dist, one, holds) ==
    LET next == Word(p2 * 10)
        more == Append(digits, next \div one)
        sound == holds /\ p2 <= (2 ^ kPrecision - 1) \div 10 /\ next \div one <= 9
    IN  IF next % one <= Word(delta * 10)
        THEN Rounded(grisu2_round(more, Word(dist * 10), Word(delta * 10), next % one, one, sound), -(m + 1))
        ELSE FractionalPart(more, next % one, m + 1, Word(delta * 10), Word(dist * 10), one, sound)

RECURSIVE IntegralPart(_, _, _, _, _, _, _, _)
\* The first n digits of p1 that are left, and then those of p2 / one.
IntegralPart(digits, p1, n, p2, delta, dist, one, holds) ==
    LET ten == 10 ^ (n - 1)
        more == Append(digits, p1 \div ten)
        rest == (p1 % ten) * one + p2
    IN  CASE n = 0 -> FractionalPart(digits, p2, 0, delta, dist, one, holds /\ p2 > delta)
          [] n > 0 /\ rest <= delta ->
                Rounded(grisu2_round(more, dist, delta, rest, Word(ten * one), holds /\ p1 \div ten <= 9), n - 1)
          [] OTHER -> IntegralPart(more, p1 % ten, n - 1, p2, delta, dist, one, holds /\ p1 \div ten <= 9)

\* Digits from the left, until what is left of plus is within the interval.
grisu2_digit_gen(minus, w, plus) ==
    LET one == 2 ^ (-plus.e)
        p1 == plus.f \div one
        holds == plus.e \in kAlpha .. kGamma /\ plus.f >= minus.f /\ plus.f >= w.f /\ p1 > 0
    IN  IntegralPart(<<>>, p1, find_largest_pow10(p1), plus.f % one, sub(plus, minus).f, sub(plus, w).f, one, holds)

\* The digits, and the power of ten that the last one counts.  One is taken
\* off both ends of the interval for what the products have lost.
grisu2(E, F) ==
    LET b == compute_boundaries(E, F)
        cached == get_cached_power_for_binary_exponent(b.plus.e)
        minus == mul(b.minus, cached.c)
        plus == mul(b.plus, cached.c)
        d == grisu2_digit_gen(diyfp(Word(minus.f + 1), minus.e), mul(b.w, cached.c), diyfp(Word(plus.f - 1), plus.e))
    IN  [digits |-> d.digits, exponent |-> d.exponent - cached.k,
         holds |-> d.holds /\ b.holds /\ InTable(b.plus.e) /\ b.w.e = b.plus.e]
=============================================================================
