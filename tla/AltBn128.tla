------------------------------ MODULE AltBn128 ------------------------------
(***************************************************************************)
(* The curve alt_bn128 (alt_bn128.py) and the scripts of its three         *)
(* precompiled contracts, bn_add.py, bn_mul.py and snarkv.py.              *)
(***************************************************************************)
EXTENDS EllipticCurve, Bits

CONSTANTS ALT_BN128_PRIME, ALT_BN128_CURVE_ORDER,
          ATE_PAIRING_COUNT, ATE_PAIRING_COUNT_BITS,
          CurveB,             \* 3: the curve is y^2 = x^3 + 3
          Xi,                 \* 9: the twist is by the root 9 + i
          FinalExponentBits,  \* the bits of (PRIME^12 - 1) / ORDER, low first
          ScriptError,        \* the scripts print error
          BnCoordinates,      \* the pairs of words bn_add gets
          BnMultipliers,      \* the words bn_mul gets
          PairingInputs       \* what snarkv gets: pairs, and the bytes left over

BNF == [class |-> "prime", prime |-> ALT_BN128_PRIME]
BNP == [FIELD |-> BNF, A |-> 0, B |-> from_int(BNF, CurveB)]

\* BNF2 has the square root i of -1.
BNF2 == [class |-> "galois", prime |-> ALT_BN128_PRIME, modulus |-> <<1, 0>>]
BNP2 == [FIELD |-> BNF2,
         A     |-> zero(BNF2),
         B     |-> truediv(BNF2, from_int(BNF2, CurveB), <<Xi, 1>>)]

BNF12_modulus == [k \in 1 .. 12 |-> CASE k = 1 -> Xi * Xi + 1
                                      [] k = 7 -> -2 * Xi
                                      [] OTHER -> 0]
BNF12_frobenius ==
    Galois!calculate_frobenius_coefficients(
        [class |-> "BNF12", prime |-> ALT_BN128_PRIME, modulus |-> BNF12_modulus])
BNF12 == [class     |-> "BNF12",
          prime     |-> ALT_BN128_PRIME,
          modulus   |-> BNF12_modulus,
          frobenius |-> BNF12_frobenius]
One    == from_int(BNF12, 1)
w      == Galois!Monomial(BNF12, 1, 1)
BNF12_i == sub(BNF12, pow(BNF12, w, 6), from_int(BNF12, Xi))
BNP12  == [FIELD |-> BNF12, A |-> zero(BNF12), B |-> from_int(BNF12, CurveB)]

bnf2_to_bnf12(x) ==
    add(BNF12, from_int(BNF12, x[1]), mul(BNF12, from_int(BNF12, x[2]), BNF12_i))
bnp_to_bnp12(p) == init(BNP12, from_int(BNF12, p[1]), from_int(BNF12, p[2]))
twist(p) ==
    init(BNP12, mul(BNF12, bnf2_to_bnf12(p[1]), pow(BNF12, w, 2)),
                mul(BNF12, bnf2_to_bnf12(p[2]), pow(BNF12, w, 3)))

(***************************************************************************)
(* linefunc: the line through p1 and p2 at t, with a slope or upright; C   *)
(* is their class, BNP12, whose A is zero.                                 *)
(***************************************************************************)
Sloped(F, lam, p1, t) == sub(F, mul(F, lam, sub(F, t[1], p1[1])), sub(F, t[2], p1[2]))
linefunc(C, p1, p2, t) ==
    IF p1[1] # p2[1] \/ p1[2] = p2[2]
      THEN Sloped(C.FIELD,
                  IF p1[1] # p2[1] THEN ChordSlope(C, p1, p2) ELSE TangentSlope(C, p1),
                  p1, t)
      ELSE sub(C.FIELD, t[1], p1[1])

-----------------------------------------------------------------------------
(***************************************************************************)
(* miller_loop: its start, one iteration of its loop for bit i, and what   *)
(* comes after it.                                                         *)
(***************************************************************************)
MillerStart(q, p) ==
    [q |-> q, p |-> p, r |-> q, f |-> One, i |-> ATE_PAIRING_COUNT_BITS]

\* f times the line through two points
TimesLine(C, f, p1, p2, p) == mul(C.FIELD, f, linefunc(C, p1, p2, p))

MillerDouble(C, l) ==
    [l EXCEPT !.f = TimesLine(C, mul(C.FIELD, l.f, l.f), l.r, l.r, l.p),
              !.r = double(C, l.r),
              !.i = l.i - 1]
MillerAdd(C, l) ==
    [l EXCEPT !.f = TimesLine(C, l.f, l.r, l.q, l.p),
              !.r = plus(C, l.r, l.q)]
\* Mutant: the bit above is looked at.
IsSetAbove(n, i) == And[n][2 ^ (i + 1)] # 0
IsSet(n, i) == And[n][2 ^ i] # 0
MillerIf(C, set, l) == IF set THEN MillerAdd(C, l) ELSE l
MillerStep(C, l) ==
    MillerIf(C, IsSet(ATE_PAIRING_COUNT - 1, l.i), MillerDouble(C, l))

FrobeniusOf(C, q) ==
    init(C, Galois!frobenius(C.FIELD, q[1]), Galois!frobenius(C.FIELD, q[2]))
\* The image of the image, mirrored.
FrobeniusTwice(C, q1) ==
    init(C, Galois!frobenius(C.FIELD, q1[1]),
            neg(C.FIELD, Galois!frobenius(C.FIELD, q1[2])))

\* The last two factors, which lines through r, q1 and nq2 make.
LastFactors(C, l, q1, nq2) ==
    TimesLine(C, TimesLine(C, l.f, l.r, q1, l.p), plus(C, l.r, q1), nq2, l.p)
MillerFactors(C, l, q1) == LastFactors(C, l, q1, FrobeniusTwice(C, q1))
MillerAnswer(C, l) ==
    IF l.r # mul_by(C, l.q, ATE_PAIRING_COUNT - 1) THEN AssertionError
    ELSE Galois!pow_bits(C.FIELD, MillerFactors(C, l, FrobeniusOf(C, l.q)),
                         FinalExponentBits)

-----------------------------------------------------------------------------
\* bn_add.py
StartBnAdd ==
    Idle /\ \E a, b \in BnCoordinates : Start("bn_add", a \o b, <<>>)

CheckSummands ==
    /\ Running("bn_add")
    /\ locals = <<>>
    /\ LET p0 == init(BNP, argv[1], argv[2])
           p1 == init(BNP, argv[3], argv[4])
       IN  IF (\E k \in DOMAIN argv : argv[k] >= ALT_BN128_PRIME) \/ Raised(p0) \/ Raised(p1)
             THEN Answer(ScriptError)
             ELSE Continue(<<p0, p1>>)

AddSummands ==
    /\ Running("bn_add")
    /\ locals # <<>>
    /\ Answer(plus(BNP, locals[1], locals[2]))

\* bn_mul.py
StartBnMul ==
    Idle /\ \E a \in BnCoordinates, n \in BnMultipliers :
                Start("bn_mul", Append(a, n), <<>>)

CheckMultiplicand ==
    /\ Running("bn_mul")
    /\ locals = <<>>
    /\ LET p0 == init(BNP, argv[1], argv[2])
       IN  IF argv[1] >= ALT_BN128_PRIME \/ argv[2] >= ALT_BN128_PRIME \/ Raised(p0)
             THEN Answer(ScriptError)
             ELSE Continue(<<MulStart(BNP, p0, argv[3])>>)

DoubleAndAdd ==
    /\ Running("bn_mul")
    /\ locals # <<>>
    /\ IF locals[1].n = 0 \/ MulRaised(locals[1])
         THEN Answer(MulAnswer(locals[1]))
         ELSE Continue(<<MulStep(BNP, locals[1])>>)

-----------------------------------------------------------------------------
(***************************************************************************)
(* snarkv.py.  locals has the product of the pairings so far, the pair     *)
(* whose turn it is and, while its pairing is computed, the Miller loop.   *)
(***************************************************************************)
StartSnarkv ==
    Idle /\ \E input \in PairingInputs :
                Start("snarkv", input, [result |-> One, pair |-> 1, loop |-> <<>>])

CheckLength ==
    /\ Running("snarkv")
    /\ argv.rest # 0
    /\ Answer(ScriptError)

NextPair == [locals EXCEPT !.pair = @ + 1]

PairP(v) == init(BNP, v[1], v[2])
PairQ(v) == init(BNP2, <<v[4], v[3]>>, <<v[6], v[5]>>)
AtInfinity(C, p) == p = point_at_infinity(C)

\* What is answered about a pair; NoAnswer if it is accepted.  Outside of the
\* script's try, an exception of mul_by ends the script.
OrderVerdict(C, multiple) ==
    IF Raised(multiple) THEN multiple
    ELSE IF AtInfinity(C, multiple) THEN NoAnswer ELSE ScriptError
SubgroupVerdict(C, p) == OrderVerdict(C, mul_by(C, p, ALT_BN128_CURVE_ORDER))
FirstRefusal(verdict, next) == IF verdict = NoAnswer THEN next ELSE verdict
PairVerdict(v, p, q) ==
    IF (\E k \in 1 .. 6 : v[k] >= ALT_BN128_PRIME) \/ Raised(p) \/ Raised(q)
      THEN ScriptError
      ELSE FirstRefusal(SubgroupVerdict(BNP, p), SubgroupVerdict(BNP2, q))

AfterPair(p, q) ==
    IF AtInfinity(BNP, p) \/ AtInfinity(BNP2, q) THEN NextPair
    ELSE [locals EXCEPT !.loop = <<MillerStart(twist(q), bnp_to_bnp12(p))>>]
Judge(verdict, variables) ==
    IF verdict = NoAnswer THEN Continue(variables) ELSE Answer(verdict)

CheckPair ==
    /\ Running("snarkv")
    /\ argv.rest = 0
    /\ locals.loop = <<>>
    /\ locals.pair <= Len(argv.pairs)
    /\ LET v == argv.pairs[locals.pair]
       IN  Judge(PairVerdict(v, PairP(v), PairQ(v)), AfterPair(PairP(v), PairQ(v)))

MillerLoop ==
    /\ Running("snarkv")
    /\ locals.loop # <<>>
    /\ locals.loop[1].i >= 0
    /\ Continue([locals EXCEPT !.loop = <<MillerStep(BNP12, locals.loop[1])>>])

TimesPairing(value) ==
    IF Raised(value) THEN Answer(value)
    ELSE Continue([NextPair EXCEPT !.result = mul(BNF12, @, value),
                                   !.loop   = <<>>])
MillerEnd ==
    /\ Running("snarkv")
    /\ locals.loop # <<>>
    /\ locals.loop[1].i < 0
    /\ TimesPairing(MillerAnswer(BNP12, locals.loop[1]))

PrintVerdict ==
    /\ Running("snarkv")
    /\ argv.rest = 0
    /\ locals.loop = <<>>
    /\ locals.pair > Len(argv.pairs)
    /\ Answer(IF locals.result = One THEN 1 ELSE 0)

AltBn128Next == \/ StartBnAdd \/ CheckSummands \/ AddSummands
                \/ StartBnMul \/ CheckMultiplicand \/ DoubleAndAdd
                \/ StartSnarkv \/ CheckLength \/ CheckPair
                \/ MillerLoop \/ MillerEnd \/ PrintVerdict

-----------------------------------------------------------------------------
CONSTANTS Generator1, Generator2   \* a point of each group, of the order ORDER

\* The points k * generator, by adding the generator again and again.
RECURSIVE Multiples(_, _, _)
Multiples(C, s, generator) ==
    IF Len(s) = ALT_BN128_CURVE_ORDER THEN s
    ELSE Multiples(C, Append(s, plus(C, s[Len(s)], generator)), generator)
Multiples1 == Multiples(BNP, <<Generator1>>, Generator1)
Multiples2 == Multiples(BNP2, <<Generator2>>, Generator2)
\* The multiplier of a point of the list; 0 if it is not in it.
Place(s, p) == IF \E k \in DOMAIN s : s[k] = p THEN CHOOSE k \in DOMAIN s : s[k] = p ELSE 0
Multiplier1(p) == Place(Multiples1, p)
Multiplier2(q) == Place(Multiples2, q)
Zero(n) == n % ALT_BN128_CURVE_ORDER = 0

(***************************************************************************)
(* Points are added as their multipliers are, whichever of the five cases  *)
(* they are in, and what is no point of the curve is refused.  In the loop *)
(* of mul_by, res and what is left of n times s make up n times the point, *)
(* so it ends with that.                                                   *)
(***************************************************************************)
SumIs(k, l, m) == IF k = 0 \/ l = 0 THEN answer = ScriptError ELSE m > 0 /\ Zero(k + l - m)
AddUpTo(k, n, l, m) == k > 0 /\ l > 0 /\ Zero(k + n * l - m)
PointsAddUp ==
    /\ Answered("bn_add") =>
         SumIs(Multiplier1(<<argv[1], argv[2]>>), Multiplier1(<<argv[3], argv[4]>>),
               Multiplier1(answer))
    /\ Running("bn_mul") /\ locals # <<>> =>
         LET m == locals[1]
         IN  AddUpTo(Multiplier1(m.res), m.n, Multiplier1(m.s),
                     argv[3] * Multiplier1(<<argv[1], argv[2]>>))

Twisted(v) == Multiplier2(<<<<v[4], v[3]>>, <<v[6], v[5]>>>>)
Products == [k \in DOMAIN argv.pairs |->
                Multiplier1(<<argv.pairs[k][1], argv.pairs[k][2]>>) * Twisted(argv.pairs[k])]
RECURSIVE Sum(_)
Sum(s) == IF s = <<>> THEN 0 ELSE Head(s) + Sum(Tail(s))
VerdictOf(products) ==
    IF argv.rest # 0 \/ \E k \in DOMAIN products : products[k] = 0 THEN ScriptError
    ELSE IF Zero(Sum(products)) THEN 1 ELSE 0

(***************************************************************************)
(* The verdict is 1 exactly if the products of the multipliers add up to   *)
(* zero: the pairing is bilinear and not degenerate, and the pairs with an *)
(* infinite point count for nothing.  Input that is not whole pairs of     *)
(* points of the two groups is refused, whatever pair of it is not.  On    *)
(* the way there the point of the Miller loop is what the bits so far of   *)
(* the count make of q, on the twisted curve.                              *)
(***************************************************************************)
VerdictIsBilinear ==
    /\ Running("snarkv") /\ locals.loop # <<>> =>
         LET l == locals.loop[1]
             bits == (ATE_PAIRING_COUNT - 1) \div 2 ^ (l.i + 1)
             k == (IF bits = 0 THEN 1 ELSE bits) * Twisted(argv.pairs[locals.pair])
         IN  l.r = twist(Multiples2[((k - 1) % ALT_BN128_CURVE_ORDER) + 1])
    /\ Answered("snarkv") => answer = VerdictOf(Products)
=============================================================================
