--------------------------- MODULE FieldArithmetic --------------------------
(***************************************************************************)
(* The two algorithms with a loop of GaloisField (finite_field.py), one    *)
(* round after the other: the inverse by the Euclidean algorithm and the   *)
(* power by squaring.                                                      *)
(***************************************************************************)
EXTENDS Field

CONSTANTS Fields,         \* a sequence of classes
          PowerExponents \* the exponents tried, also negative ones

Elements(F) == [1 .. Len(F.modulus) -> 0 .. F.prime - 1]
Class == Fields[argv[1]]
self  == argv[2]

StartInverse ==
    Idle /\ \E k \in DOMAIN Fields : \E x \in Elements(Fields[k]) :
                Start("inverse", <<k, x>>, <<>>)

multiplicative_inverse ==
    /\ Running("inverse")
    /\ locals = <<>>
    /\ IF Galois!deg(self) = ValueError THEN Answer(ValueError)
       ELSE Continue(<<Galois!EuclidStart(Class, self)>>)

DivideOnce ==
    /\ Running("inverse")
    /\ locals # <<>>
    /\ IF Galois!EuclidEnds(locals[1]) THEN Answer(Galois!EuclidAnswer(Class, locals[1]))
       ELSE Continue(<<Galois!EuclidStep(Class, locals[1])>>)

StartPower ==
    Idle /\ \E k \in DOMAIN Fields, n \in PowerExponents : \E x \in Elements(Fields[k]) :
                Start("power", <<k, x, n>>, <<>>)

RaiseBase ==
    /\ Running("power")
    /\ locals = <<>>
    /\ LET n    == argv[3]
           base == IF n < 0 THEN Galois!multiplicative_inverse(Class, self) ELSE self
       IN  IF Raised(base) THEN Answer(base)
           ELSE Continue(<<[res |-> from_int(Class, 1), s |-> base,
                            exponent |-> Galois!Bits[IF n < 0 THEN -n ELSE n]]>>)

SquareOnce ==
    /\ Running("power")
    /\ locals # <<>>
    /\ IF locals[1].exponent = <<>> THEN Answer(locals[1].res)
       ELSE Continue(<<Galois!PowStep(Class, locals[1])>>)

FieldNext == \/ StartInverse \/ multiplicative_inverse \/ DivideOnce
             \/ StartPower \/ RaiseBase \/ SquareOnce

-----------------------------------------------------------------------------
IsConstant(x) == \A k \in DOMAIN x : k > 1 => x[k] = 0

(***************************************************************************)
(* The two remainders are the multiples of the element by f, as long as    *)
(* the first step has brought in the leading coefficient of the modulus,   *)
(* which it does not for a constant; so no other element gets a wrong      *)
(* inverse.  From degree 3 on it may get none, where the algorithm ends in *)
(* the branch that repeats the list.                                       *)
(***************************************************************************)
BezoutKept ==
    /\ Running("inverse") /\ locals # <<>> /\ ~ IsConstant(self) =>
         \A k \in 1 .. 2 : mul(Class, locals[1][k].f, self) = locals[1][k].x
    /\ Answered("inverse") /\ ~ IsConstant(self) =>
         IF answer = AssertionError THEN Len(self) > 2
         ELSE mul(Class, answer, self) = from_int(Class, 1)

(***************************************************************************)
(* "Calculate the multiplicative inverse": of each element but zero.       *)
(***************************************************************************)
InverseExact ==
    Answered("inverse") =>
        IF self = zero(Class) THEN answer = ValueError
        ELSE ~ Raised(answer) /\ mul(Class, answer, self) = from_int(Class, 1)

(***************************************************************************)
(* Squaring computes the power, for each exponent, and the Frobenius       *)
(* endomorphism with its coefficients, which makes no power, is the power  *)
(* to the prime.                                                           *)
(***************************************************************************)
PowersExact ==
    /\ Running("power") /\ locals # <<>> /\ argv[3] >= 0 =>
         LET p == locals[1]
             times[x \in {self, p.s}, n \in Nat] ==
                 IF n = 0 THEN from_int(Class, 1) ELSE mul(Class, times[x, n - 1], x)
             rest[k \in Nat] == IF k > Len(p.exponent) THEN 0
                                ELSE p.exponent[k] + 2 * rest[k + 1]
         IN  mul(Class, p.res, times[p.s, rest[1]]) = times[self, argv[3]]
    /\ Answered("power") /\ argv[3] = Class.prime =>
         answer = Galois!frobenius(Class, self)
=============================================================================
