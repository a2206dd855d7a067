----------------------------- MODULE PythonInt ------------------------------
(***************************************************************************)
(* What base_types.py uses of Python's own int, for the operands it is     *)
(* used with.  A method returns its result or the exception it raises.     *)
(***************************************************************************)
EXTENDS Integers, Sequences, Bits

CONSTANTS Byte,        \* the number of values of a byte
          WordBytes,   \* the number of bytes of a word
          OverflowError, ZeroDivisionError, ValueError

None == -1   \* an argument that is left out

Checked(fits, value) == IF fits THEN value ELSE OverflowError
Divided(divisor, quotient) ==
    IF divisor = 0 THEN ZeroDivisionError ELSE quotient

\* pow(base, exponent, modulo) for an exponent that is no less than 0.
Power(base, exponent, modulo) ==
    IF modulo = None THEN ToThe(base, exponent)
    ELSE IF modulo = 0 THEN ValueError ELSE ToThe(base, exponent) % modulo

\* int.from_bytes, and int.to_bytes, which refuses too few bytes.
Value(bytes) == ValueOf(Byte, bytes)
LeastBytes(value) == CHOOSE n \in 0 .. value :
                         ToThe(Byte, n) > value /\ \A m \in 0 .. n - 1 : ToThe(Byte, m) <= value
to_bytes(value, length) ==
    Checked(LeastBytes(value) <= length,
            [k \in 1 .. length |-> value \div ToThe(Byte, length - k) % Byte])
little(bytes) == [k \in 1 .. Len(bytes) |-> bytes[Len(bytes) + 1 - k]]
=============================================================================
