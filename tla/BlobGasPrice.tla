---------------------------- MODULE BlobGasPrice ----------------------------
(***************************************************************************)
(* The price of blob gas, MIN_BASE_FEE * e ^ (excess / FRACTION), computed *)
(* by the loop of fakeExponential (BlockHeader.lean): the terms of the     *)
(* Taylor series, each made from the one before and rounded down.          *)
(***************************************************************************)
EXTENDS Computation, Bits

CONSTANTS MIN_BASE_FEE_PER_BLOB_GAS, BLOB_BASE_FEE_UPDATE_FRACTION,
          ExcessBlobGas   \* the excesses a header may have

ASSUME BlobAssumption ==
    /\ MIN_BASE_FEE_PER_BLOB_GAS \in Nat
    /\ BLOB_BASE_FEE_UPDATE_FRACTION \in Nat \ {0}
    /\ ExcessBlobGas \subseteq Nat
    /\ NoAnswer \notin Nat

factor      == MIN_BASE_FEE_PER_BLOB_GAS
denominator == BLOB_BASE_FEE_UPDATE_FRACTION

getBlobGasprice ==
    Idle /\ \E excess \in ExcessBlobGas :
        Start("blob", <<excess>>,
              [i |-> 1, output |-> 0, numeratorAccum |-> factor * denominator])

\* Mutant: the terms are not divided by the factorial.
nextAccumUnscaled(accum, numerator, i) == (accum * numerator) \div denominator
\* Mutant: the terms are rounded up.
nextAccumUp(accum, numerator, i) ==
    (accum * numerator + denominator * i - 1) \div (denominator * i)
nextAccum(accum, numerator, i) == (accum * numerator) \div (denominator * i)

fakeExponential0 ==
    /\ Running("blob")
    /\ IF locals.numeratorAccum = 0
         THEN Answer(locals.output \div denominator)
         ELSE Continue(
                [i |-> locals.i + 1,
                 output |-> locals.output + locals.numeratorAccum,
                 numeratorAccum |-> nextAccum(locals.numeratorAccum, argv[1], locals.i)])

BlobNext == getBlobGasprice \/ fakeExponential0
BlobSpec == Idle /\ [][BlobNext \/ Respond]_computation

-----------------------------------------------------------------------------
\* denominator ^ k * k!
Scale[k \in Nat] == IF k = 0 THEN 1 ELSE denominator * k * Scale[k - 1]
\* The first k terms of the exponential of x / denominator, times Scale[k].
Terms(x) ==
    LET sum[k \in Nat] ==
            IF k = 0 THEN 0 ELSE denominator * k * (sum[k - 1] + ToThe(x, k - 1))
    IN  sum

(***************************************************************************)
(* The loop holds the terms of the series, each rounded down, and their    *)
(* sum: the next term is at most                                           *)
(*     factor * denominator * (excess / denominator) ^ k / k!              *)
(* and the sum at most that of these terms, so the price never exceeds the *)
(* exponential; and the first two terms are whole in the price.            *)
(***************************************************************************)
BlobPriceBracketed ==
    /\ task = "blob" =>
         LET k == locals.i - 1
         IN  /\ locals.numeratorAccum * Scale[k] <=
                  factor * denominator * ToThe(argv[1], k)
             /\ locals.output * Scale[k] <= factor * denominator * Terms(argv[1])[k]
    /\ Answered("blob") =>
         /\ answer >= factor + (factor * argv[1]) \div denominator
         /\ answer * denominator <= locals.output
=============================================================================
