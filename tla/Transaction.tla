----------------------------- MODULE Transaction -----------------------------
(***************************************************************************)
(* The transactions of a block: validateTransaction and executeTransaction *)
(* of Conform/TestRunner.lean around Υ of Ethereum/Semantics.lean, which   *)
(* pays, runs the message-call machine of Evm, and settles.                *)
(*                                                                         *)
(* A transaction is a record of what these functions read.  Its signature, *)
(* encoding and init code size have been found good, and its sender        *)
(* recovered; its intrinsic gas is a field of it.                          *)
(***************************************************************************)
EXTENDS Evm, FiniteSets

CONSTANTS
    Transactions,   \* the transactions that may be in the block
    NoRecipient,    \* the recipient of a creation
    Beneficiary,    \* H_c
    BaseFee,        \* H_f
    BlobGasPrice,   \* the price of a blob's gas in this block
    BlobGas,        \* GAS_PER_BLOB
    MaxBlobs,       \* 6
    BlockGasLimit,  \* H_l
    BlockSize       \* bound: transactions in the block

TransactionType ==
    [kind      : {"legacy", "dynamic", "blob"},
     sender    : Address,
     recipient : Address \cup {NoRecipient},
     nonce     : Nat,
     gasLimit  : Nat,
     intrinsic : Nat,
     maxFee    : Uint,     \* gasPrice, of a legacy transaction
     priority  : Uint,
     value     : Uint,
     blobs     : Nat,
     blobFee   : Uint]     \* maxFeePerBlobGas

TransactionAssumption ==
    /\ NoRecipient \notin Address
    /\ Transactions \subseteq TransactionType
    /\ Beneficiary \in WarmAccount
    /\ {BaseFee, BlobGasPrice, BlobGas, MaxBlobs, BlockGasLimit, BlockSize} \subseteq Nat

ASSUME TransactionAssumption

VARIABLES
    state,    \* σ after the last transaction
    phase,    \* "validate", "execute" or "settle"
    tx,       \* the transaction that is being executed
    gasUsed,  \* totalGasUsedInBlock
    executed  \* the sender and nonce of every transaction of the block

blockVars == <<state, phase, tx, gasUsed, executed>>
allVars   == <<vars, blockVars>>

MulWord(x, y) == (x * y) % WordSize

-----------------------------------------------------------------------------
TotalBlobGas(T) == IF T.kind = "blob" THEN BlobGas * T.blobs ELSE 0

\* v₀, in natural numbers.
UpfrontCost(T) ==
    T.gasLimit * T.maxFee + T.value + TotalBlobGas(T) * T.blobFee

ValidKind(T) ==
    /\ T.kind = "dynamic" => T.priority <= T.maxFee
    /\ T.kind = "blob" => /\ T.recipient # NoRecipient
                          /\ BlobGasPrice <= T.blobFee
                          /\ T.blobs \in 1 .. MaxBlobs

Valid(T) ==
    LET sender == Lookup(state, T.sender)
    IN  /\ T.gasLimit + gasUsed <= BlockGasLimit
        /\ T.nonce < MaxNonce
        /\ BaseFee <= T.maxFee
        /\ T.intrinsic <= T.gasLimit
        /\ ValidKind(T)
        /\ sender.code = 0
        /\ T.nonce = sender.nonce
        /\ UpfrontCost(T) <= sender.balance

-----------------------------------------------------------------------------
\* Mutant: the priority fee may take the price above what the sender allows.
PriorityFeeUncapped(T) ==
    IF T.kind = "legacy" THEN SubWord(T.maxFee, BaseFee) ELSE T.priority

\* f and p, (67) and (66).
PriorityFee(T) ==
    IF T.kind = "legacy"
      THEN SubWord(T.maxFee, BaseFee)
      ELSE MinOf(T.priority, SubWord(T.maxFee, BaseFee))

EffectiveGasPrice(T) ==
    IF T.kind = "legacy" THEN T.maxFee ELSE AddWord(PriorityFee(T), BaseFee)

BlobFee(T) == TotalBlobGas(T) * BlobGasPrice

\* Mutant: the nonce is left to the creations.
PaidSenderSameNonce(T) ==
    [Lookup(state, T.sender) EXCEPT
       !.balance = SubWord(SubWord(@, MulWord(T.gasLimit, EffectiveGasPrice(T))),
                           BlobFee(T) % WordSize)]

\* (74) and (75).
PaidSender(T) ==
    [Lookup(state, T.sender) EXCEPT
       !.balance = SubWord(SubWord(@, MulWord(T.gasLimit, EffectiveGasPrice(T))),
                           BlobFee(T) % WordSize),
       !.nonce = @ + 1]

\* A transaction is valid, and paid for: σ₀.
Pay(T) ==
    /\ phase = "validate"
    /\ Cardinality(executed) < BlockSize
    /\ Valid(T)
    /\ origin' = [state EXCEPT ![T.sender] = PaidSender(T)]
    /\ world' = origin'
    /\ tx' = T
    /\ phase' = "execute"
    /\ UNCHANGED <<frames, sub, halt, flag, status, state, gasUsed, executed>>

\* Θ or Λ, from its call to its return.
Execute ==
    /\ phase = "execute"
    /\ LET g == tx.gasLimit - tx.intrinsic
       IN  \/ tx.recipient # NoRecipient /\ StartCall(tx.sender, tx.recipient, tx.value, g)
           \/ /\ tx.recipient = NoRecipient
              /\ \E a \in Address : StartCreate(tx.sender, a, tx.value, g)
           \/ Instruction
           \/ Resume
           \/ Finish
    /\ phase' = IF status' = "done" THEN "settle" ELSE "execute"
    /\ UNCHANGED <<state, tx, gasUsed, executed>>

-----------------------------------------------------------------------------
\* g*, (82): the gas left and at most a fifth of the gas spent.
GasReturned ==
    halt.gas + MinOf((tx.gasLimit - halt.gas) \div 5, sub.refundBalance)

TransactionGasUsed == tx.gasLimit - GasReturned

\* increaseBalance, which brings an account into being.
IncreaseBalance(m, a, v) ==
    [m EXCEPT ![a] = [Lookup(m, a) EXCEPT !.balance = AddWord(@, v)]]

BeneficiaryFee == MulWord(TransactionGasUsed, PriorityFee(tx))

Refunded == IncreaseBalance(world, tx.sender, MulWord(GasReturned, EffectiveGasPrice(tx)))

\* Mutant: the beneficiary gets even nothing.
RewardedEvenNothing == IncreaseBalance(Refunded, Beneficiary, BeneficiaryFee)

Rewarded ==
    IF BeneficiaryFee # 0
      THEN IncreaseBalance(Refunded, Beneficiary, BeneficiaryFee)
      ELSE Refunded

(***************************************************************************)
(* (87): what destroyed itself is erased, and transient storage is reset.  *)
(* No account is ever put in touchedAccounts, so (88) erases nothing.      *)
(***************************************************************************)
Settled ==
    [a \in Address |->
        IF a \in sub.selfDestructSet \/ ~Exists(Rewarded, a)
          THEN NoAccount
          ELSE [Rewarded[a] EXCEPT !.tstorage = ZeroStorage]]

\* The machine as it is before it has a transaction.
Reset ==
    /\ origin' = state'
    /\ world' = state'
    /\ sub' = InitialSubstate({})
    /\ halt' = Running
    /\ flag' = FALSE
    /\ status' = "idle"
    /\ UNCHANGED frames

Settle ==
    /\ phase = "settle"
    /\ state' = Settled
    /\ gasUsed' = gasUsed + TransactionGasUsed
    /\ executed' = executed \cup {<<tx.sender, tx.nonce>>}
    /\ phase' = "validate"
    /\ Reset
    /\ UNCHANGED tx

-----------------------------------------------------------------------------
BlockInit ==
    /\ Init
    /\ state = origin
    /\ phase = "validate"
    /\ tx = CHOOSE T \in Transactions : TRUE
    /\ gasUsed = 0
    /\ executed = {}

BlockNext == (\E T \in Transactions : Pay(T)) \/ Execute \/ Settle

BlockSpec == BlockInit /\ [][BlockNext]_allVars
=============================================================================
