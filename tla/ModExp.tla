------------------------------- MODULE ModExp -------------------------------
(***************************************************************************)
(* The precompiled contract EXPMOD (PrecompiledContracts.lean): the base   *)
(* to the exponent modulo the modulus, numbers of any length that stand    *)
(* one after the other behind their lengths.  A word has EvmWordBytes      *)
(* bytes, 32 in the source.  What is paid for it is not modelled.          *)
(***************************************************************************)
EXTENDS Computation, Bits

CONSTANTS EvmWordBytes,
          ExpModData      \* the call data tried

\* Call data is bytes.
ASSUME ExpModAssumption ==
    EvmWordBytes \in Nat /\ ExpModData \subseteq Seq(0 .. 255)

\* Bytes that are missing at the end of the data are zero.
nat_of_slice(B, start, width) ==
    LET slice == Slice(B, start, width)
    IN  fromByteArrayBigEndian(slice) * ToThe(256, width - Len(slice))

Lengths(data) ==
    [base     |-> nat_of_slice(data, 0, EvmWordBytes),
     exp      |-> nat_of_slice(data, EvmWordBytes, EvmWordBytes),
     modulus  |-> nat_of_slice(data, 2 * EvmWordBytes, EvmWordBytes)]
Numbers(data) ==
    LET l     == Lengths(data)
        start == 3 * EvmWordBytes
    IN  [base    |-> nat_of_slice(data, start, l.base),
         exp     |-> nat_of_slice(data, start + l.base, l.exp),
         modulus |-> nat_of_slice(data, start + l.base + l.exp, l.modulus)]
zeroes(n) == [k \in 1 .. n |-> 0]

StartExpMod == Idle /\ \E data \in ExpModData : Start("expmod", data, <<>>)

\* The base is made a word, which keeps the lower bytes of a longer one.
expMod ==
    /\ Running("expmod")
    /\ locals = <<>>
    /\ LET n == Numbers(argv)
       IN  IF n.modulus = 0 THEN Answer(zeroes(Lengths(argv).modulus))
           ELSE Continue([a |-> 1, c |-> n.base % ToThe(256, EvmWordBytes), n |-> n.exp])

\* Mutant: the result is not multiplied when the exponent is odd.
nextPowerSquares(m, l) == [a |-> l.a % m, c |-> (l.c * l.c) % m, n |-> l.n \div 2]
nextPower(m, l) ==
    [a |-> IF l.n % 2 = 1 THEN (l.a * l.c) % m ELSE l.a % m,
     c |-> (l.c * l.c) % m,
     n |-> l.n \div 2]

expModAux ==
    /\ Running("expmod")
    /\ locals # <<>>
    /\ LET m      == Numbers(argv).modulus
           result == BE(locals.a % m)
       IN  IF locals.n > 0 THEN Continue(nextPower(m, locals))
           ELSE Answer(zeroes(Lengths(argv).modulus - Len(result)) \o result)

ModExpNext == StartExpMod \/ expMod \/ expModAux
ModExpSpec == Idle /\ [][ModExpNext \/ Respond]_computation

-----------------------------------------------------------------------------
PowerMod(b, n, m) ==
    LET power[k \in Nat] ==
            IF k = 0 THEN 1 % m ELSE (power[k - 1] * (b % m)) % m
    IN  power[n]

(***************************************************************************)
(* a times the n-th power of c stays the power that is wanted, and the     *)
(* result has the length of the modulus: for bases that are not longer     *)
(* than a word.                                                            *)
(***************************************************************************)
PowerOfBase ==
    LET n == Numbers(argv)
    IN  /\ Running("expmod") /\ locals # <<>> /\ Lengths(argv).base <= EvmWordBytes =>
             (locals.a * PowerMod(locals.c, locals.n, n.modulus)) % n.modulus
               = PowerMod(n.base, n.exp, n.modulus)
        /\ Answered("expmod") =>
             /\ Len(answer) = Lengths(argv).modulus
             /\ n.modulus # 0 /\ Lengths(argv).base <= EvmWordBytes =>
                  fromByteArrayBigEndian(answer) = PowerMod(n.base, n.exp, n.modulus)
=============================================================================
