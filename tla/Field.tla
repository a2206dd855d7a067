------------------------------- MODULE Field --------------------------------
(***************************************************************************)
(* The protocol of finite_field.py that elliptic curves are written        *)
(* against.  A field is the record of its class and its class variables;   *)
(* the class decides whose method is called.                               *)
(***************************************************************************)
EXTENDS Computation

Prime == INSTANCE PrimeField
Galois == INSTANCE GaloisField

IsPrime(F) == F.class = "prime"

zero(F)        == IF IsPrime(F) THEN Prime!zero(F) ELSE Galois!zero(F)
from_int(F, n) == IF IsPrime(F) THEN Prime!from_int(F, n) ELSE Galois!from_int(F, n)
add(F, self, right) == IF IsPrime(F) THEN Prime!add(F, self, right) ELSE Galois!add(F, self, right)
sub(F, self, right) == IF IsPrime(F) THEN Prime!sub(F, self, right) ELSE Galois!sub(F, self, right)
mul(F, self, right) == IF IsPrime(F) THEN Prime!mul(F, self, right) ELSE Galois!mul(F, self, right)
neg(F, self)        == IF IsPrime(F) THEN Prime!neg(F, self) ELSE Galois!neg(F, self)
truediv(F, self, right) ==
    IF IsPrime(F) THEN Prime!truediv(F, self, right) ELSE Galois!truediv(F, self, right)
pow(F, self, exponent) ==
    IF IsPrime(F) THEN Prime!pow(F, self, exponent) ELSE Galois!pow(F, self, exponent)

Raised(value) == value \in {ValueError, AssertionError}
=============================================================================
