------------------------------ MODULE UInt256 -------------------------------
(***************************************************************************)
(* The words of the EVM (UInt256.lean): a word is a Fin size, so + - *     *)
(* wrap.  The operations of the EVM on signed words are made of unsigned   *)
(* ones.  A word has WordBytes bytes of Byte values each; 255, 31, 8 and   *)
(* 0xFF of the source follow from these.                                   *)
(***************************************************************************)
EXTENDS Integers, Bits

CONSTANTS Byte,      \* the number of values of a byte
          BitsOfByte, \* the number of bits of a byte
          WordBytes  \* the number of bytes of a word

bits == BitsOfByte * WordBytes
size == ToThe(Byte, WordBytes)
half == size \div 2          \* 2 ^ 255, the least word that is negative

ofNat(n) == n % size
Negated(a) == (-a) % size    \* a.val * (-1)
fromBool(b) == IF b THEN 1 ELSE 0

add(a, b) == (a + b) % size
sub(a, b) == (a - b) % size
mul(a, b) == (a * b) % size
div(a, b) == IF b = 0 THEN 0 ELSE a \div b
mod(a, b) == IF b = 0 THEN 0 ELSE a % b
land(a, b) == And[a][b]
lor(a, b)  == Or(a, b)
xor(a, b)  == Xor(a, b)
shiftLeft(a, b)  == IF b >= bits THEN 0 ELSE (a * ToThe(2, b)) % size
shiftRight(a, b) == IF b >= bits THEN 0 ELSE a \div ToThe(2, b)
complement(a) == sub(0, add(a, 1))
lnot(a) == sub(size - 1, a)

abs(a) == IF half <= a THEN Negated(a) ELSE a
sgn(a) == IF half <= a THEN -1 ELSE fromBool(a # 0)
toSigned(i) == IF i >= 0 THEN ofNat(i) ELSE ofNat(size - 1 - (-i - 1))

\* The exponent is consumed from its low bit on, a is what is collected.
powAux[n \in Nat] == [a \in Nat |-> [c \in Nat |->
    IF n = 0 THEN a
    ELSE powAux[n \div 2][IF n % 2 = 1 THEN mul(a, c) ELSE a][mul(c, c)]]]
exp(a, b) == powAux[b][1][a]

\* Mutant: two negative operands are divided as they are.
sdivOfRaw(a, b) ==
    IF (half <= a) = (half <= b) THEN div(a, b) ELSE Negated(div(abs(a), abs(b)))
sdiv(a, b) ==
    IF (half <= a) = (half <= b) THEN div(abs(a), abs(b))
    ELSE Negated(div(abs(a), abs(b)))
smod(a, b) == IF b = 0 THEN 0 ELSE toSigned(sgn(a) * mod(abs(a), abs(b)))
sltBool(a, b) == IF (a >= half) = (b >= half) THEN a < b ELSE a >= half
sgtBool(a, b) == IF (a >= half) = (b >= half) THEN a > b ELSE b >= half
slt(a, b) == fromBool(sltBool(a, b))
sgt(a, b) == fromBool(sgtBool(a, b))

sar(a, b) ==
    IF sltBool(b, 0) THEN complement(shiftRight(complement(b), a))
    ELSE shiftRight(b, a)

byteAt(a, b) ==
    IF a > WordBytes - 1 THEN 0
    ELSE land(shiftRight(b, (WordBytes - 1 - a) * BitsOfByte), Byte - 1)

signextend(a, b) ==
    IF a > WordBytes - 1 THEN b
    ELSE LET test_bit == add(mul(a, BitsOfByte), BitsOfByte - 1)
             sign_bit == shiftLeft(1, test_bit)
         IN  IF land(b, sign_bit) # 0 THEN lor(b, sub(ofNat(size), sign_bit))
             ELSE land(b, sub(sign_bit, 1))

\* The intermediate results do not wrap.
addMod(a, b, c) == IF c = 0 THEN 0 ELSE ofNat((a + b) % c)
mulMod(a, b, c) == IF c = 0 THEN 0 ELSE ofNat((a * b) % c)
=============================================================================
