-------------------------------- MODULE Uint --------------------------------
(***************************************************************************)
(* Uint of base_types.py: integers of any size that are never negative.    *)
(* As in FixedUint, no result is checked once it is made.                  *)
(***************************************************************************)
EXTENDS PythonInt

init(value) == Checked(value >= 0, value)

add(self, right)  == Checked(right >= 0, self + right)
sub(self, right)  == Checked(right >= 0 /\ self >= right, self - right)
rsub(self, left)  == Checked(left >= 0 /\ self <= left, left - self)
mul(self, right)  == Checked(right >= 0, self * right)

floordiv(self, right) == Checked(right >= 0, Divided(right, self \div right))
rfloordiv(self, left) == Checked(left >= 0, Divided(self, left \div self))
mod(self, right)      == Checked(right >= 0, Divided(right, self % right))
rmod(self, left)      == Checked(left >= 0, Divided(self, left % self))
divmod(self, right) ==
    Checked(right >= 0, Divided(right, <<self \div right, self % right>>))
rdivmod(self, left) ==
    Checked(left >= 0, Divided(self, <<left \div self, left % self>>))

pow(self, right, modulo) ==
    Checked((modulo = None \/ modulo >= 0) /\ right >= 0,
            Power(self, right, modulo))
rpow(self, left, modulo) ==
    Checked((modulo = None \/ modulo >= 0) /\ left >= 0,
            Power(left, self, modulo))
xor(self, right) == Checked(right >= 0, Xor(self, right))
rxor(self, left) == Checked(left >= 0, Xor(left, self))

from_be_bytes(buffer) == init(Value(buffer))
from_le_bytes(buffer) == init(Value(little(buffer)))
to_be_bytes(self)     == to_bytes(self, LeastBytes(self))
to_be_bytes32(self)   == to_bytes(self, WordBytes)
to_le_bytes(self, number_bytes) ==
    LET length == IF number_bytes = None THEN LeastBytes(self) ELSE number_bytes
        bytes  == to_bytes(self, length)
    IN  IF bytes = OverflowError THEN bytes ELSE little(bytes)
=============================================================================
