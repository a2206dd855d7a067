----------------------------- MODULE FixedUint ------------------------------
(***************************************************************************)
(* FixedUint and U256 of base_types.py.  Every method makes its result     *)
(* with int.__new__, which checks nothing, so each one has to see itself   *)
(* that its operands and its result are words.  A result is a word or an   *)
(* exception; an operand is any integer.                                   *)
(***************************************************************************)
EXTENDS PythonInt

CONSTANTS MAX_VALUE   \* the largest word, 2^256 - 1 of U256

Fits(value)          == value \in 0 .. MAX_VALUE
\* value & MAX_VALUE, also of a negative value
Masked(value)        == value % (MAX_VALUE + 1)

init(value) == Checked(Fits(value), value)

add(self, right) ==
    Checked(right >= 0 /\ self + right <= MAX_VALUE, self + right)
wrapping_add(self, right) == Checked(Fits(right), Masked(self + right))
\* Mutant: the operands are not compared.
subUnchecked(self, right) == Checked(Fits(right), self - right)
sub(self, right) == Checked(Fits(right) /\ self >= right, self - right)
wrapping_sub(self, right) == Checked(Fits(right), Masked(self - right))
rsub(self, left) == Checked(Fits(left) /\ self <= left, left - self)
mul(self, right) ==
    Checked(right >= 0 /\ self * right <= MAX_VALUE, self * right)
wrapping_mul(self, right) == Checked(Fits(right), Masked(self * right))

floordiv(self, right) == Checked(Fits(right), Divided(right, self \div right))
rfloordiv(self, left) == Checked(Fits(left), Divided(self, left \div self))
mod(self, right) == Checked(Fits(right), Divided(right, self % right))
rmod(self, left) == Checked(Fits(left), Divided(self, left % self))
\* The two results are made one by one from the pair of the quotient and rest.
divmod(self, right) ==
    Checked(Fits(right), Divided(right, <<self \div right, self % right>>))
rdivmod(self, left) ==
    Checked(Fits(left), Divided(self, <<left \div self, left % self>>))

FitsModulo(modulo) == modulo = None \/ Fits(modulo)

pow(self, right, modulo) ==
    LET result == Power(self, right, modulo)
    IN  IF ~ FitsModulo(modulo) THEN OverflowError
        ELSE IF result = ValueError THEN ValueError
             ELSE Checked(Fits(right) /\ result <= MAX_VALUE, result)
wrapping_pow(self, right, modulo) ==
    LET result == Power(self, right, modulo)
    IN  IF ~ FitsModulo(modulo) \/ ~ Fits(right) THEN OverflowError
        ELSE IF result = ValueError THEN ValueError ELSE Masked(result)
\* The one method that looks at neither the result nor a mask.
rpow(self, left, modulo) ==
    Checked(FitsModulo(modulo) /\ Fits(left), Power(left, self, modulo))

and(self, right) == Checked(Fits(right), And[self][right])
or(self, right)  == Checked(Fits(right), Or(self, right))
xor(self, right) == Checked(Fits(right), Xor(self, right))
rxor(self, left) == Checked(Fits(left), Xor(left, self))
invert(self) == Masked(-self - 1)
rshift(self, shift_by) ==
    IF shift_by < 0 THEN ValueError ELSE self \div ToThe(2, shift_by)

-----------------------------------------------------------------------------
to_be_bytes(self) == to_bytes(self, LeastBytes(self))
to_be_bytes32(self) == to_bytes(self, WordBytes)
from_be_bytes(buffer) ==
    IF Len(buffer) > WordBytes THEN ValueError ELSE init(Value(buffer))

\* The two's complement of a negative integer; masks what it cannot hold.
from_signed(value) == IF value >= 0 THEN init(value) ELSE init(Masked(value))
to_signed(self) ==
    IF 2 * self <= MAX_VALUE THEN self ELSE self - (MAX_VALUE + 1)
=============================================================================
