----------------------------- MODULE GaloisField ----------------------------
(***************************************************************************)
(* GaloisField of finite_field.py: polynomials modulo                      *)
(* x^n + ... + F.modulus[2] x + F.modulus[1] with coefficients modulo      *)
(* F.prime, as the sequence of their n coefficients from the constant one  *)
(* on.  F is the class of an element.                                      *)
(***************************************************************************)
EXTENDS Integers, SequencesExt

CONSTANTS ValueError, AssertionError

Inverted(x, p) ==
    IF x % p = 0 THEN ValueError ELSE CHOOSE y \in 1 .. p - 1 : (x * y) % p = 1

Degree(F) == Len(F.modulus)
Places(F) == 1 .. Degree(F)
\* The values of a function on 1 .. n, as a list.
Listed(f) == <<>> \o f

\* Of longer lists the lowest coefficients.
new(F, coeffs) == Listed([k \in Places(F) |-> coeffs[k] % F.prime])
Monomial(F, power, n) == new(F, [k \in Places(F) |-> IF k = power + 1 THEN n ELSE 0])
from_int(F, n)        == Monomial(F, 0, n)
zero(F)               == from_int(F, 0)
add(F, self, right)   == new(F, [k \in Places(F) |-> self[k] + right[k]])
sub(F, self, right)   == new(F, [k \in Places(F) |-> self[k] - right[k]])
neg(F, self)          == new(F, [k \in Places(F) |-> -self[k]])
scalar_mul(F, self, x) == new(F, [k \in Places(F) |-> x * self[k]])

\* The coefficients of the product before it is reduced.
Convolution(n, self, right) ==
    Listed([k \in 1 .. 2 * n |->
        LET first == IF k <= n THEN 1 ELSE k - n + 1
            last  == IF k <= n THEN k ELSE n
            sum[i \in Nat] ==
                IF i > last THEN 0 ELSE self[i] * right[k + 1 - i] + sum[i + 1]
        IN  sum[first]])

\* The coefficient i is taken to the n below it.
Lowered(F, coeffs, i) ==
    [j \in DOMAIN coeffs |->
        IF j \in i - Degree(F) + 1 .. i
          THEN coeffs[j] - ((coeffs[i + 1] * F.modulus[j - (i - Degree(F))]) % F.prime)
          ELSE coeffs[j]]
RECURSIVE LoweredTo(_, _, _)
LoweredTo(F, coeffs, i) ==
    IF i < Degree(F) THEN coeffs ELSE LoweredTo(F, Lowered(F, coeffs, i), i - 1)

\* BNF12 has its own reduction: its modulus is x^12 + F.modulus[7] x^6 +
\* F.modulus[1].  The coefficients 16 .. 11 have all of 22 .. 17 in them when
\* their turn comes.
BNF12_high(F, coeffs) ==
    Listed([k \in 1 .. 11 |->
        coeffs[k + 12] - IF k <= 5 THEN F.modulus[7] * coeffs[k + 18] ELSE 0])
BNF12_reduced(F, coeffs, high) ==
    new(F, [k \in 1 .. 12 |->
        coeffs[k]
          - (IF k > 6 THEN F.modulus[7] * high[k - 6] ELSE 0)
          - (IF k < 12 THEN F.modulus[1] * high[k] ELSE 0)])

Reduced(F, coeffs) ==
    IF F.class = "BNF12" THEN BNF12_reduced(F, coeffs, BNF12_high(F, coeffs))
    ELSE new(F, LoweredTo(F, coeffs, 2 * Degree(F) - 1))
mul(F, self, right) == Reduced(F, Convolution(Degree(F), self, right))

(***************************************************************************)
(* The Euclidean algorithm.  e holds two remainders, each the polynomial x *)
(* and its multiplier f, with x = f * self modulo the modulus.             *)
(***************************************************************************)
deg(x) ==
    IF \A k \in DOMAIN x : x[k] = 0 THEN ValueError
    ELSE (CHOOSE k \in DOMAIN x : x[k] # 0 /\ \A l \in k + 1 .. Len(x) : x[l] = 0) - 1

\* x - q * y * x^shift, without what leaves the list
Less(F, x, q, y, shift) ==
    new(F, [k \in DOMAIN x |-> IF k <= shift THEN x[k] ELSE x[k] - q * y[k - shift]])

\* Mutant: the multiplier is not shifted along with the polynomial.
LessMultipleUnshifted(F, r, by, q, shift) ==
    [x |-> Less(F, r.x, q, by.x, shift), f |-> Less(F, r.f, q, by.f, 0)]
LessMultiple(F, r, by, q, shift) ==
    [x |-> Less(F, r.x, q, by.x, shift), f |-> Less(F, r.f, q, by.f, shift)]

\* The modulus has its leading coefficient in no list; the first step of the
\* algorithm, which removes it, is made ahead.
EuclidStart(F, self) ==
    LET one == [x |-> self, f |-> from_int(F, 1)]
    IN  <<LessMultiple(F, [x |-> F.modulus, f |-> zero(F)], one,
                       Inverted(self[deg(self) + 1], F.prime), Degree(F) - deg(self)),
          one>>

\* r less the multiple of by that removes its leading term.
Reduce(F, r, by) ==
    LessMultiple(F, r, by, r.x[deg(r.x) + 1] * Inverted(by.x[deg(by.x) + 1], F.prime),
                 deg(r.x) - deg(by.x))

EuclidStep(F, e) ==
    IF deg(e[1].x) < deg(e[2].x) THEN <<e[1], Reduce(F, e[2], e[1])>>
    ELSE <<Reduce(F, e[1], e[2]), e[2]>>

EuclidEnds(e) == deg(e[1].x) = 0 \/ deg(e[2].x) = 0

\* Where the second remainder has become constant, the list of its multiplier
\* and not its members is multiplied by q; unless q is 1 it is too long for an
\* element.
EuclidAnswer(F, e) ==
    IF deg(e[1].x) = 0 THEN scalar_mul(F, e[1].f, Inverted(e[1].x[1], F.prime))
    ELSE IF Inverted(e[2].x[1], F.prime) = 1 THEN e[2].f ELSE AssertionError

RECURSIVE EuclidEnd(_, _)
EuclidEnd(F, e) == IF EuclidEnds(e) THEN e ELSE EuclidEnd(F, EuclidStep(F, e))
multiplicative_inverse(F, self) ==
    IF deg(self) = ValueError THEN ValueError
    ELSE EuclidAnswer(F, EuclidEnd(F, EuclidStart(F, self)))
Raised(value) == value \in {ValueError, AssertionError}
TimesInverse(F, self, inverse) == IF Raised(inverse) THEN inverse ELSE mul(F, self, inverse)
truediv(F, self, right) == TimesInverse(F, self, multiplicative_inverse(F, right))

-----------------------------------------------------------------------------
\* exponent is the sequence of its bits, the low one first.
Bits[n \in Nat] == IF n = 0 THEN <<>> ELSE <<n % 2>> \o Bits[n \div 2]

\* Mutant: a bit that is not set is taken for one that is.
PowStepAlways(F, p) ==
    [res |-> mul(F, p.res, p.s), s |-> mul(F, p.s, p.s), exponent |-> Tail(p.exponent)]
PowStep(F, p) ==
    [res      |-> IF p.exponent[1] = 1 THEN mul(F, p.res, p.s) ELSE p.res,
     s        |-> mul(F, p.s, p.s),
     exponent |-> Tail(p.exponent)]
RECURSIVE PowEnd(_, _)
PowEnd(F, p) == IF p.exponent = <<>> THEN p.res ELSE PowEnd(F, PowStep(F, p))

pow_bits(F, self, bits) ==
    IF Raised(self) THEN self
    ELSE PowEnd(F, [res |-> from_int(F, 1), s |-> self, exponent |-> bits])
pow(F, self, exponent) ==
    pow_bits(F, IF exponent < 0 THEN multiplicative_inverse(F, self) ELSE self,
             Bits[IF exponent < 0 THEN -exponent ELSE exponent])

\* F.frobenius is the sequence of the coefficients, x^(p*i) for each i.
calculate_frobenius_coefficients(F) ==
    Listed([k \in Places(F) |-> pow(F, Monomial(F, k - 1, 1), F.prime)])
frobenius(F, self) ==
    FoldLeft(LAMBDA ans, i : add(F, ans, scalar_mul(F, F.frobenius[i], self[i])),
             from_int(F, 0), [k \in 1 .. Degree(F) |-> k])
=============================================================================
