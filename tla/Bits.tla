-------------------------------- MODULE Bits --------------------------------
(***************************************************************************)
(* The bitwise operations on natural numbers, the powers of an integer and *)
(* the numbers that bytes stand for, which Python, Lean and C have built   *)
(* in or build of loops that do the same; and the byte arrays of Lean.     *)
(***************************************************************************)
EXTENDS Integers, Sequences

And[x \in Nat] ==
    [y \in Nat |->
        IF x = 0 \/ y = 0 THEN 0
        ELSE 2 * And[x \div 2][y \div 2] + (x % 2) * (y % 2)]

Or(x, y)  == x + y - And[x][y]
Xor(x, y) == x + y - 2 * And[x][y]

\* 0 to the 0 is 1.
ToThe(base, exponent) ==
    LET power[n \in Nat] == IF n = 0 THEN 1 ELSE base * power[n - 1]
    IN  power[exponent]

\* What the first n digits write in the base, the highest first, for every n.
PrefixValues(base, digits) ==
    LET value[n \in 0 .. Len(digits)] ==
            IF n = 0 THEN 0 ELSE base * value[n - 1] + digits[n]
    IN  value
ValueOf(base, digits) == PrefixValues(base, digits)[Len(digits)]

-----------------------------------------------------------------------------
\* Uint.to_be_bytes and BE: as few bytes as the number needs.
BE(n) ==
    LET bytes[m \in Nat] ==
            IF m = 0 THEN <<>> ELSE Append(bytes[m \div 256], m % 256)
    IN  bytes[n]
fromByteArrayBigEndian(b) == ValueOf(256, b)

\* readWithoutPadding: what there is of len bytes from addr on.
Slice(source, addr, len) ==
    SubSeq(source, addr + 1, IF addr + len < Len(source) THEN addr + len
                             ELSE Len(source))
=============================================================================
