----------------------------- MODULE BlockHeader -----------------------------
(***************************************************************************)
(* What the header of a block says, and how a header follows from that of  *)
(* its parent: validateHeaderBeforeTransactions of Conform/TestRunner.lean *)
(* and the blob gas of Ethereum/State/BlockHeader.lean.                    *)
(*                                                                         *)
(* A state root is the state itself, a receipts root the receipts and a    *)
(* logs bloom the set of logs: hashes do not collide.                      *)
(***************************************************************************)
EXTENDS Naturals, Sequences

CONSTANTS
    MinGasLimit,   \* 5000
    TargetBlobGas, \* TARGET_BLOB_GAS_PER_BLOCK
    MaxBlobGas     \* MAX_BLOB_GAS_PER_BLOCK

HeaderAssumption ==
    /\ MinGasLimit \in Nat \ {0, 1}
    /\ TargetBlobGas \in Nat
    /\ MaxBlobGas \in Nat

ASSUME HeaderAssumption

LargerOf(a, b) == IF a <= b THEN b ELSE a

-----------------------------------------------------------------------------
\* The gas a block should use is half of its limit.
GasTarget(P) == P.gasLimit \div 2

\* (45) and (46): a change of the base fee by at most an eighth.
BaseFeeChange(P) ==
    LET target == GasTarget(P)
    IN  IF P.gasUsed < target
          THEN ((P.baseFee * (target - P.gasUsed)) \div target) \div 8
          ELSE LargerOf(((P.baseFee * (P.gasUsed - target)) \div target) \div 8, 1)

ExpectedBaseFee(P) ==
    CASE P.gasUsed = GasTarget(P) -> P.baseFee
      [] P.gasUsed < GasTarget(P) -> P.baseFee - BaseFeeChange(P)
      [] P.gasUsed > GasTarget(P) -> P.baseFee + BaseFeeChange(P)

GasLimitWithin(P, H) ==
    /\ H.gasLimit >= MinGasLimit
    /\ H.gasLimit < P.gasLimit + P.gasLimit \div 1024
    /\ H.gasLimit > P.gasLimit - P.gasLimit \div 1024

CalcExcessBlobGas(P) ==
    IF P.excessBlobGas + P.blobGasUsed < TargetBlobGas
      THEN 0
      ELSE P.excessBlobGas + P.blobGasUsed - TargetBlobGas
=============================================================================
