----------------------------- MODULE PrimeField -----------------------------
(***************************************************************************)
(* PrimeField of finite_field.py: integers modulo F.prime.  F is the class *)
(* of an element, which its methods look up.                               *)
(***************************************************************************)
EXTENDS Integers

CONSTANTS ValueError

\* pow(x, -1, p), which has no result for 0.
Inverted(x, p) ==
    IF x % p = 0 THEN ValueError ELSE CHOOSE y \in 1 .. p - 1 : (x * y) % p = 1

new(F, value)      == value % F.prime
zero(F)            == new(F, 0)
from_int(F, n)     == new(F, n)
add(F, self, right) == new(F, self + right)
sub(F, self, right) == new(F, self - right)
mul(F, self, right) == new(F, self * right)
neg(F, self)        == new(F, -self)
pow(F, self, exponent) ==
    IF exponent < 0 THEN Inverted(self ^ (-exponent), F.prime)
    ELSE IF exponent = 0 THEN 1 ELSE new(F, self ^ exponent)
multiplicative_inverse(F, self) == pow(F, self, -1)
truediv(F, self, right) ==
    LET inverse == multiplicative_inverse(F, right)
    IN  IF inverse = ValueError THEN ValueError ELSE mul(F, self, inverse)
=============================================================================
