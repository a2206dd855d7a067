-------------------------- MODULE TransactionProofs --------------------------
(***************************************************************************)
(* The transactions of a block, whatever contracts run in them: none is    *)
(* executed twice, accounts stay and none is left empty (BlockInv), and    *)
(* what a transaction costs is burned, given back or rewarded (MoneyInv).  *)
(***************************************************************************)
EXTENDS TransactionInvariants, EvmAccountProofs

(***************************************************************************)
(* Types of what is paid and given back.                                   *)
(***************************************************************************)
\* A product of words is a word, also of numbers that are too large for one.
LEMMA MulWordType ==
  ASSUME NEW x \in Int, NEW y \in Int
  PROVE  MulWord(x, y) \in Uint
<1>1. PICK p \in Int : p = x * y
  OBVIOUS
<1>2. p % WordSize \in Uint
  BY WordSizeAssumption DEF WordSizeAssumption, Uint
<1> QED BY <1>1, <1>2 DEF MulWord

\* The fields of a transaction.
LEMMA TransactionFields ==
  ASSUME NEW T \in Transactions
  PROVE  /\ T.sender \in Address
         /\ T.recipient \in Address \cup {NoRecipient}
         /\ T.nonce \in Nat /\ T.gasLimit \in Nat /\ T.intrinsic \in Nat
         /\ T.maxFee \in Uint /\ T.priority \in Uint /\ T.value \in Uint
         /\ T.blobs \in Nat /\ T.blobFee \in Uint
BY TransactionAssumption DEF TransactionAssumption, TransactionType

\* The prices of gas are words.
LEMMA PriceTypes ==
  ASSUME NEW T \in Transactions
  PROVE  PriorityFee(T) \in Uint /\ EffectiveGasPrice(T) \in Uint
<1>1. T.maxFee \in Uint /\ T.priority \in Uint
  BY TransactionFields
<1>2. \A x \in Nat, y \in Nat : AddWord(x, y) \in Uint
  BY WordSizeAssumption DEF AddWord, WordSizeAssumption, Uint
<1>3. SubWord(T.maxFee, BaseFee) \in Uint
  <2>1. BaseFee \in Nat
    BY TransactionAssumption DEF TransactionAssumption
  <2>2. T.maxFee + (WordSize - BaseFee) \in Int
    BY <1>1, <2>1, WordSizeAssumption DEF WordSizeAssumption, Uint
  <2>3. \A n \in Int : n % WordSize \in Uint
    BY WordSizeAssumption DEF WordSizeAssumption, Uint
  <2> QED BY <2>2, <2>3 DEF SubWord
<1>4. PriorityFee(T) \in Uint
  BY <1>1, <1>3 DEF PriorityFee, MinOf
<1>5. EffectiveGasPrice(T) \in Uint
  <2>1. BaseFee \in Nat /\ PriorityFee(T) \in Nat
    BY <1>4, TransactionAssumption, WordSizeAssumption
    DEF TransactionAssumption, WordSizeAssumption, Uint
  <2> QED BY <1>1, <1>2, <2>1 DEF EffectiveGasPrice
<1> QED BY <1>4, <1>5

\* The sender that has paid is an account whose nonce is one higher.
LEMMA PaidSenderType ==
  ASSUME state \in AccountMap, NEW T \in Transactions
  PROVE  /\ PaidSender(T) \in Account
         /\ PaidSender(T).nonce = Lookup(state, T.sender).nonce + 1
         /\ PaidSender(T).code = Lookup(state, T.sender).code
         /\ PaidSender(T).storage = Lookup(state, T.sender).storage
<1> DEFINE acc == Lookup(state, T.sender)
           w   == MulWord(T.gasLimit, EffectiveGasPrice(T))
           b   == BlobFee(T) % WordSize
<1>1. acc \in Account
  BY TransactionFields, LookupType
<1>2. w \in Uint
  <2>1. T.gasLimit \in Int /\ EffectiveGasPrice(T) \in Int
    BY TransactionFields, PriceTypes, WordSizeAssumption
    DEF Uint, WordSizeAssumption
  <2> QED BY <2>1, MulWordType
<1>3. b \in Uint
  <2>1. BlobGas \in Nat /\ BlobGasPrice \in Nat /\ T.blobs \in Nat
    BY TransactionAssumption, TransactionFields DEF TransactionAssumption
  <2>2. BlobFee(T) \in Nat
    BY <2>1 DEF BlobFee, TotalBlobGas
  <2> QED BY <2>2, WordSizeAssumption DEF WordSizeAssumption, Uint
<1>4. PaidSender(T) = [acc EXCEPT !.balance = SubWord(SubWord(acc.balance, w), b),
                                  !.nonce = acc.nonce + 1]
  BY DEF PaidSender
<1> HIDE DEF acc, w, b
<1>5. SubWord(SubWord(acc.balance, w), b) \in Uint /\ acc.nonce + 1 \in Nat
  <2>1. acc.balance \in Uint /\ acc.nonce \in Nat
    BY <1>1 DEF Account
  <2> QED BY <1>2, <1>3, <2>1, WordArithmetic
<1>6. PaidSender(T) \in Account
  BY <1>1, <1>4, <1>5 DEF Account
<1> QED BY <1>1, <1>4, <1>6 DEF Account, acc

\* The state the machine begins with.
LEMMA PaidState ==
  ASSUME state \in AccountMap, NEW T \in Transactions
  PROVE  LET m == [state EXCEPT ![T.sender] = PaidSender(T)]
         IN  /\ m \in AccountMap
             /\ \A a \in Address :
                  /\ Lookup(m, a).nonce = IF a = T.sender THEN Lookup(state, a).nonce + 1
                                          ELSE Lookup(state, a).nonce
                  /\ Lookup(m, a).code = Lookup(state, a).code
                  /\ Lookup(m, a).storage = Lookup(state, a).storage
             /\ Exists(m, T.sender)
<1> DEFINE m == [state EXCEPT ![T.sender] = PaidSender(T)]
<1>1. T.sender \in Address /\ PaidSender(T) \in Account
  BY TransactionFields, PaidSenderType
<1>2. m \in AccountMap /\ m[T.sender] = PaidSender(T)
  BY <1>1 DEF AccountMap
<1>3. \A a \in Address : a # T.sender => m[a] = state[a]
  BY DEF AccountMap
<1>4. PaidSender(T) # NoAccount
  BY <1>1, NoAccountAssumption DEF NoAccountAssumption
<1>5. Exists(m, T.sender)
  BY <1>2, <1>4 DEF Exists
<1> HIDE DEF m
<1>6. ASSUME NEW a \in Address
      PROVE  /\ Lookup(m, a).nonce = IF a = T.sender THEN Lookup(state, a).nonce + 1
                                     ELSE Lookup(state, a).nonce
             /\ Lookup(m, a).code = Lookup(state, a).code
             /\ Lookup(m, a).storage = Lookup(state, a).storage
  <2>1. CASE a = T.sender
    <3>1. Lookup(m, a) = PaidSender(T)
      BY <1>2, <1>5, <2>1 DEF Lookup
    <3> QED BY <2>1, <3>1, PaidSenderType
  <2>2. CASE a # T.sender
    BY <1>3, <2>2 DEF Lookup, Exists
  <2> QED BY <2>1, <2>2
<1> QED BY <1>2, <1>5, <1>6 DEF m

-----------------------------------------------------------------------------
(***************************************************************************)
(* What is left of an account when a transaction is settled.               *)
(***************************************************************************)
\* A payment changes nothing of an account but its balance.
LEMMA IncreaseBalanceFacts ==
  ASSUME NEW m \in AccountMap, NEW a \in Address, NEW v \in Uint
  PROVE  /\ IncreaseBalance(m, a, v) \in AccountMap
         /\ SameButMoney(m, IncreaseBalance(m, a, v))
<1> DEFINE acc == [Lookup(m, a) EXCEPT !.balance = AddWord(@, v)]
           n   == IncreaseBalance(m, a, v)
<1>1. Lookup(m, a) \in Account /\ Lookup(m, a).balance \in Uint
  BY LookupType DEF Account
<1>2. AddWord(Lookup(m, a).balance, v) \in Uint
  BY <1>1, WordArithmetic
<1>3. /\ acc \in Account /\ acc.nonce = Lookup(m, a).nonce
      /\ acc.code = Lookup(m, a).code /\ acc.storage = Lookup(m, a).storage
  BY <1>1, <1>2 DEF Account
<1>4. n = [m EXCEPT ![a] = acc]
  BY DEF IncreaseBalance
<1> HIDE DEF acc, n
<1>5. n \in AccountMap /\ n[a] = acc /\ acc # NoAccount
  BY <1>3, <1>4, NoAccountAssumption DEF AccountMap, NoAccountAssumption
<1>6. \A b \in Address : b # a => n[b] = m[b]
  BY <1>4 DEF AccountMap
<1>7. SameButMoney(m, n)
  <2> SUFFICES ASSUME NEW b \in Address
               PROVE  /\ Exists(m, b) => Exists(n, b)
                      /\ Lookup(n, b).nonce = Lookup(m, b).nonce
                      /\ Lookup(n, b).code = Lookup(m, b).code
                      /\ Lookup(n, b).storage = Lookup(m, b).storage
    BY DEF SameButMoney
  <2>1. CASE b = a
    <3>1. Exists(n, b) /\ Lookup(n, b) = acc
      BY <1>5, <2>1 DEF Exists, Lookup
    <3> QED BY <1>3, <2>1, <3>1
  <2>2. CASE b # a
    BY <1>6, <2>2 DEF Exists, Lookup
  <2> QED BY <2>1, <2>2
<1> QED BY <1>5, <1>7 DEF n

\* What Υ gives back and rewards.
LEMMA RewardedFacts ==
  ASSUME TypeOK, tx \in Transactions
  PROVE  Rewarded \in AccountMap /\ SameButMoney(world, Rewarded)
<1>1. GasReturned \in Int /\ TransactionGasUsed \in Int
  <2>1. halt.gas \in Nat /\ tx.gasLimit \in Nat /\ sub.refundBalance \in Nat
    BY TransactionFields, WordSizeAssumption
    DEF TypeOK, Halt, Substate, Uint, WordSizeAssumption
  <2>2. (tx.gasLimit - halt.gas) \div 5 \in Int
    BY <2>1
  <2> QED BY <2>1, <2>2 DEF GasReturned, TransactionGasUsed, MinOf
<1>2. EffectiveGasPrice(tx) \in Int /\ PriorityFee(tx) \in Int
  BY PriceTypes, WordSizeAssumption DEF Uint, WordSizeAssumption
<1>3. MulWord(GasReturned, EffectiveGasPrice(tx)) \in Uint /\ BeneficiaryFee \in Uint
  BY <1>1, <1>2, MulWordType DEF BeneficiaryFee
<1>4. world \in AccountMap /\ tx.sender \in Address /\ Beneficiary \in Address
  BY TransactionFields, TransactionAssumption, MachineAssumption
  DEF TypeOK, TransactionAssumption, MachineAssumption
<1>5. Refunded \in AccountMap /\ SameButMoney(world, Refunded)
  BY <1>3, <1>4, IncreaseBalanceFacts DEF Refunded
<1>6. CASE BeneficiaryFee = 0
  BY <1>5, <1>6 DEF Rewarded
<1>7. CASE BeneficiaryFee # 0
  <2>1. Rewarded = IncreaseBalance(Refunded, Beneficiary, BeneficiaryFee)
    BY <1>7 DEF Rewarded
  <2>2. Rewarded \in AccountMap /\ SameButMoney(Refunded, Rewarded)
    BY <1>3, <1>4, <1>5, <2>1, IncreaseBalanceFacts
  <2> QED BY <1>5, <2>2 DEF SameButMoney
<1> QED BY <1>6, <1>7

\* The state of the next transaction: what is not destroyed keeps its history.
LEMMA SettledFacts ==
  ASSUME TypeOK, tx \in Transactions
  PROVE  /\ Settled \in AccountMap
         /\ \A a \in Address \ sub.selfDestructSet :
              /\ Exists(world, a) => Exists(Settled, a)
              /\ Lookup(Settled, a).nonce = Lookup(world, a).nonce
              /\ Lookup(Settled, a).code = Lookup(world, a).code
<1>1. Rewarded \in AccountMap /\ SameButMoney(world, Rewarded)
  BY RewardedFacts
<1>2. ZeroStorage \in Storage
  BY WordAssumption DEF ZeroStorage, Storage, WordAssumption
<1>3. ASSUME NEW a \in Address, Exists(Rewarded, a)
      PROVE  LET acc == [Rewarded[a] EXCEPT !.tstorage = ZeroStorage]
             IN  /\ acc \in Account /\ acc # NoAccount
                 /\ acc.nonce = Rewarded[a].nonce /\ acc.code = Rewarded[a].code
  <2>1. Rewarded[a] \in Account
    BY <1>1, <1>3 DEF AccountMap, Exists
  <2>2. [Rewarded[a] EXCEPT !.tstorage = ZeroStorage] \in Account
    BY <1>2, <2>1 DEF Account
  <2> QED BY <2>1, <2>2, NoAccountAssumption DEF NoAccountAssumption, Account
<1>4. Settled \in AccountMap
  BY <1>3 DEF Settled, AccountMap
<1>5. ASSUME NEW a \in Address, a \notin sub.selfDestructSet
      PROVE  /\ Exists(world, a) => Exists(Settled, a)
             /\ Lookup(Settled, a).nonce = Lookup(world, a).nonce
             /\ Lookup(Settled, a).code = Lookup(world, a).code
  <2>1. /\ Exists(world, a) => Exists(Rewarded, a)
        /\ Lookup(Rewarded, a).nonce = Lookup(world, a).nonce
        /\ Lookup(Rewarded, a).code = Lookup(world, a).code
    BY <1>1 DEF SameButMoney
  <2>2. CASE Exists(Rewarded, a)
    <3> DEFINE acc == [Rewarded[a] EXCEPT !.tstorage = ZeroStorage]
    <3>1. Settled[a] = acc
      BY <1>5, <2>2 DEF Settled
    <3>2. acc # NoAccount /\ acc.nonce = Rewarded[a].nonce /\ acc.code = Rewarded[a].code
      BY <1>3, <2>2
    <3> HIDE DEF acc
    <3>3. Exists(Settled, a) /\ Lookup(Settled, a) = acc
      BY <3>1, <3>2 DEF Exists, Lookup
    <3>4. Lookup(Rewarded, a) = Rewarded[a]
      BY <2>2 DEF Lookup
    <3> QED BY <2>1, <3>2, <3>3, <3>4
  <2>3. CASE ~Exists(Rewarded, a)
    <3>1. Settled[a] = NoAccount
      BY <2>3 DEF Settled
    <3> QED BY <2>1, <2>3, <3>1 DEF Exists, Lookup
  <2> QED BY <2>2, <2>3
<1> QED BY <1>4, <1>5

-----------------------------------------------------------------------------
(***************************************************************************)
(* The machine within a transaction.                                       *)
(***************************************************************************)
\* A machine that has no transaction yet.
LEMMA FreshMachine ==
  ASSUME origin' \in AccountMap, world' = origin', frames' = <<>>,
         sub' = InitialSubstate({}), halt' = Running, flag' \in BOOLEAN,
         status' = "idle"
  PROVE  TypeOK' /\ AccountInv'
<1>1. sub' \in Substate /\ sub'.selfDestructSet = {} /\ sub'.createdAccounts = {}
  BY EmptySeq, MachineAssumption, WordSizeAssumption
  DEF InitialSubstate, Substate, Uint, MachineAssumption, WordSizeAssumption
<1>2. <<>> \in Seq(Frame) /\ Len(<<>>) = 0
  BY EmptySeq
<1>3. TypeOK'
  BY <1>1, <1>2 DEF TypeOK, Running, Halt
<1>4. \A a \in Address : Lookup(origin', a).nonce <= Lookup(origin', a).nonce
  BY NonceType
<1>5. Descends(world, sub)'
  BY <1>1, <1>4 DEF Descends
<1>6. History(frames, world, sub)'
  BY <1>2, <1>5 DEF History
<1> QED BY <1>3, <1>6 DEF AccountInv

\* Instructions and returns go on with the transaction that runs.
LEMMA MachineGoesOn ==
  ASSUME Instruction \/ Resume
  PROVE  status = "running" /\ status' = "running" /\ origin' = origin
<1>1. CASE CallInstruction
  BY <1>1 DEF CallInstruction, Call, CallRefused, CallExecutes, Executes
<1>2. CASE CreateInstruction
  BY <1>2 DEF CreateInstruction, Create, CreateRefused, CreateExecutes, Executes
<1>3. CASE StorageInstruction
  BY <1>3 DEF StorageInstruction, Sload, Sstore, Tstore, Executes
<1>4. CASE MemoryInstruction
  BY <1>4 DEF MemoryInstruction, Compute, ReadAccount, Return, Log, Revert, Halts,
              Executes
<1>5. CASE \E r \in Address : Selfdestruct(r)
  BY <1>5 DEF Selfdestruct, Halts, Executes
<1>6. CASE Stop \/ Fault \/ RunPrecompile
  BY <1>6 DEF Stop, Fault, RunPrecompile, Halting, Halts
<1>7. CASE Resume
  BY <1>7 DEF Resume
<1> QED BY <1>1, <1>2, <1>3, <1>4, <1>5, <1>6, <1>7 DEF Instruction

\* A transaction begins with a call or a creation by its sender.
LEMMA BeginStep ==
  ASSUME TypeOK, AccountInv, NEW s \in Sender(origin), NEW a \in Address,
         NEW v \in Uint, NEW g \in Nat, StartCall(s, a, v, g) \/ StartCreate(s, a, v, g)
  PROVE  TypeOK' /\ AccountInv' /\ status' = "running" /\ origin' = origin
<1>1. s \in Address
  BY DEF Sender
<1>2. /\ world' \in AccountMap /\ sub' \in Substate
      /\ frames' \in Seq(Frame) /\ frames' # <<>>
  BY <1>1, StartTypes DEF StartCall, StartCreate
<1>3. status' = "running" /\ UNCHANGED <<origin, halt, flag>>
  BY DEF StartCall, StartCreate
<1>4. TypeOK'
  BY <1>2, <1>3 DEF TypeOK
<1> QED BY <1>3, <1>4, StartCallStep, StartCreateStep

-----------------------------------------------------------------------------
(***************************************************************************)
(* Fees.  Nothing that is bought, given back or rewarded wraps, because    *)
(* the sender could pay the price it named.                                *)
(***************************************************************************)
\* Products of natural numbers, for provers that cannot multiply.
LEMMA ProductFacts ==
  /\ \A x, y \in Nat : x * y \in Nat
  /\ \A x, y, z \in Nat : x * (y + z) = x * y + x * z
  /\ \A x, y, z \in Nat : (x + y) * z = x * z + y * z
  /\ \A x, y, z \in Nat : y <= z => x * y <= x * z
<1>1. \A x, y \in Nat : x * y \in Nat
  OBVIOUS
<1>2. \A x, y, z \in Nat : x * (y + z) = x * y + x * z
  OBVIOUS
<1>3. \A x, y, z \in Nat : (x + y) * z = x * z + y * z
  OBVIOUS
<1>4. ASSUME NEW x \in Nat, NEW y \in Nat, NEW z \in Nat, y <= z
      PROVE  x * y <= x * z
  <2>1. PICK d \in Nat : z = y + d
    <3>1. z - y \in Nat /\ z = y + (z - y)
      BY <1>4
    <3> QED BY <3>1
  <2>2. x * z = x * y + x * d
    BY <1>2, <2>1
  <2> QED BY <1>1, <2>2
<1> QED BY <1>1, <1>2, <1>3, <1>4

\* A product that fits a word is one.
LEMMA MulWordExact ==
  ASSUME NEW x \in Nat, NEW y \in Nat, x * y < WordSize
  PROVE  MulWord(x, y) = x * y /\ x * y \in Uint
<1>1. \A n \in Nat : n < WordSize => n % WordSize = n /\ n \in Uint
  BY WordSizeAssumption DEF WordSizeAssumption, Uint
<1>2. x * y \in Nat
  BY ProductFacts
<1> QED BY <1>1, <1>2 DEF MulWord

\* The price is the base fee and what goes to the beneficiary.
LEMMA PriceFacts ==
  ASSUME NEW T \in Transactions, BaseFee <= T.maxFee
  PROVE  /\ PriorityFee(T) \in Nat /\ EffectiveGasPrice(T) \in Nat /\ BaseFee \in Nat
         /\ EffectiveGasPrice(T) = PriorityFee(T) + BaseFee
         /\ EffectiveGasPrice(T) <= T.maxFee
<1>1. /\ T.maxFee \in Uint /\ T.priority \in Uint /\ T.maxFee \in Nat
      /\ T.priority \in Nat /\ BaseFee \in Nat /\ T.maxFee < WordSize
      /\ WordSize \in Nat
  BY TransactionFields, TransactionAssumption, WordSizeAssumption
  DEF TransactionAssumption, WordSizeAssumption, Uint
<1>2. BaseFee \in Uint
  BY <1>1 DEF Uint
<1>3. SubWord(T.maxFee, BaseFee) = T.maxFee - BaseFee
  BY <1>1, <1>2, WordArithmetic
<1>4. T.maxFee - BaseFee \in Nat
  BY <1>1
<1>5. PriorityFee(T) \in Nat /\ PriorityFee(T) <= T.maxFee - BaseFee
  BY <1>1, <1>3, <1>4 DEF PriorityFee, MinOf
<1>6. EffectiveGasPrice(T) = PriorityFee(T) + BaseFee
  <2>1. CASE T.kind = "legacy"
    <3>1. PriorityFee(T) = T.maxFee - BaseFee
      BY <1>3, <2>1 DEF PriorityFee
    <3> QED BY <1>1, <2>1, <3>1 DEF EffectiveGasPrice
  <2>2. CASE T.kind # "legacy"
    <3>1. PriorityFee(T) + BaseFee < WordSize /\ PriorityFee(T) \in Uint
      BY <1>1, <1>5 DEF Uint
    <3>2. AddWord(PriorityFee(T), BaseFee) = PriorityFee(T) + BaseFee
      BY <1>2, <3>1, WordArithmetic
    <3> QED BY <2>2, <3>2 DEF EffectiveGasPrice
  <2> QED BY <2>1, <2>2
<1> QED BY <1>1, <1>5, <1>6

\* What a valid transaction costs at once is no more than what it may cost.
LEMMA CostFacts ==
  ASSUME NEW T \in Transactions, BaseFee <= T.maxFee, ValidKind(T)
  PROVE  LET gas == T.gasLimit * EffectiveGasPrice(T)
         IN  /\ gas \in Nat /\ BlobFee(T) \in Nat /\ UpfrontCost(T) \in Nat
             /\ gas + BlobFee(T) + T.value <= UpfrontCost(T)
<1> DEFINE gas   == T.gasLimit * EffectiveGasPrice(T)
           most  == T.gasLimit * T.maxFee
           total == TotalBlobGas(T)
           blob  == total * BlobGasPrice
           asked == total * T.blobFee
<1>1. /\ T.gasLimit \in Nat /\ T.maxFee \in Nat /\ T.value \in Nat
      /\ T.blobs \in Nat /\ T.blobFee \in Nat
      /\ BlobGas \in Nat /\ BlobGasPrice \in Nat
  BY TransactionFields, TransactionAssumption DEF TransactionAssumption, Uint
<1>2. gas \in Nat /\ most \in Nat /\ gas <= most
  BY <1>1, PriceFacts, ProductFacts
<1>3. total \in Nat
  BY <1>1, ProductFacts DEF TotalBlobGas
<1>4. blob \in Nat /\ asked \in Nat /\ blob <= asked
  <2>1. CASE T.kind = "blob"
    <3>1. BlobGasPrice <= T.blobFee
      BY <2>1 DEF ValidKind
    <3> HIDE DEF total
    <3> QED BY <1>1, <1>3, <3>1, ProductFacts
  <2>2. CASE T.kind # "blob"
    <3>1. total = 0
      BY <2>2 DEF TotalBlobGas
    <3> HIDE DEF total
    <3> QED BY <1>1, <3>1
  <2> QED BY <2>1, <2>2
<1>5. BlobFee(T) = blob /\ UpfrontCost(T) = most + T.value + asked
  BY DEF BlobFee, UpfrontCost
<1> HIDE DEF gas, most, blob, asked
<1>6. gas + blob + T.value <= most + T.value + asked /\ most + T.value + asked \in Nat
  BY <1>1, <1>2, <1>4
<1> QED BY <1>2, <1>4, <1>5, <1>6 DEF gas

\* What the sender is left with when it has paid.
LEMMA PaidBalance ==
  ASSUME state \in AccountMap, NEW T \in Transactions, BaseFee <= T.maxFee,
         ValidKind(T), UpfrontCost(T) <= Balance(state, T.sender)
  PROVE  /\ PaidSender(T).balance = Balance(state, T.sender)
                                      - T.gasLimit * EffectiveGasPrice(T) - BlobFee(T)
         /\ T.value <= PaidSender(T).balance
         /\ T.gasLimit * EffectiveGasPrice(T) < WordSize
<1> DEFINE gas  == T.gasLimit * EffectiveGasPrice(T)
           blob == BlobFee(T)
           b    == Balance(state, T.sender)
<1>1. /\ gas \in Nat /\ blob \in Nat /\ UpfrontCost(T) \in Nat
      /\ gas + blob + T.value <= UpfrontCost(T)
  BY CostFacts
<1>2. b \in Uint /\ Lookup(state, T.sender) \in Account
  BY TransactionFields, LookupType
<1>3. T.gasLimit \in Nat /\ EffectiveGasPrice(T) \in Nat /\ T.value \in Nat
  BY TransactionFields, PriceFacts DEF Uint
<1>4. UpfrontCost(T) <= b
  OBVIOUS
<1> DEFINE word == MulWord(T.gasLimit, EffectiveGasPrice(T))
<1>5. PaidSender(T).balance = SubWord(SubWord(b, word), blob % WordSize)
  BY <1>2 DEF PaidSender, Balance, Account
<1>6. \A n \in Nat : n < WordSize => n % WordSize = n
  BY WordSizeAssumption DEF WordSizeAssumption
<1> HIDE DEF b, blob
<1>7. gas < WordSize /\ blob < WordSize
  <2> HIDE DEF gas
  <2> QED BY <1>1, <1>2, <1>3, <1>4, WordSizeAssumption DEF WordSizeAssumption, Uint
<1>8. word = gas
  BY <1>3, <1>7, MulWordExact
<1> HIDE DEF gas, word
<1>9. gas \in Uint /\ blob \in Uint /\ gas <= b /\ b - gas \in Uint /\ blob <= b - gas
      /\ T.value <= b - gas - blob
  BY <1>1, <1>2, <1>3, <1>4, <1>7, WordSizeAssumption DEF WordSizeAssumption, Uint
<1>10. PaidSender(T).balance = b - gas - blob
  <2>1. SubWord(b, gas) = b - gas /\ SubWord(b - gas, blob) = b - gas - blob
    BY <1>2, <1>9, WordArithmetic
  <2>2. blob % WordSize = blob
    BY <1>1, <1>6, <1>7
  <2> QED BY <1>5, <1>8, <2>1, <2>2
<1> QED BY <1>7, <1>9, <1>10 DEF b, gas, blob

\* What all have when the sender has paid.
LEMMA PaidTotal ==
  ASSUME state \in AccountMap, NEW T \in Transactions, BaseFee <= T.maxFee,
         ValidKind(T), UpfrontCost(T) <= Balance(state, T.sender)
  PROVE  LET m   == [state EXCEPT ![T.sender] = PaidSender(T)]
             gas == T.gasLimit * EffectiveGasPrice(T)
         IN  /\ TotalBalance(m) + gas + BlobFee(T) = TotalBalance(state)
             /\ Balance(m, T.sender) + gas + BlobFee(T) = Balance(state, T.sender)
             /\ T.value <= Balance(m, T.sender)
             /\ NoEmpties(state) => NoEmpties(m)
<1> DEFINE m    == [state EXCEPT ![T.sender] = PaidSender(T)]
           gas  == T.gasLimit * EffectiveGasPrice(T)
           blob == BlobFee(T)
           acc  == PaidSender(T)
           b    == Balance(state, T.sender)
<1>1. T.sender \in Address /\ acc \in Account /\ acc.nonce = Lookup(state, T.sender).nonce + 1
  BY TransactionFields, PaidSenderType
<1>2. /\ acc.balance = b - gas - blob /\ T.value <= acc.balance
      /\ gas \in Nat /\ blob \in Nat
  BY PaidBalance, CostFacts
<1> HIDE DEF acc
<1>3. Updated(state, T.sender, acc, [state EXCEPT ![T.sender] = acc])
  BY <1>1, TotalUpdated
<1>4. m = [state EXCEPT ![T.sender] = acc]
  BY DEF acc
<1> HIDE DEF m, gas, blob, b
<1>5. Updated(state, T.sender, acc, m)
  BY <1>3, <1>4
<1>6. /\ TotalBalance(state) + acc.balance = TotalBalance(m) + b
      /\ Balance(m, T.sender) = acc.balance /\ acc.balance \in Nat
      /\ m \in AccountMap
  BY <1>1, <1>5 DEF Updated, b
<1>7. TotalBalance(m) \in Nat /\ TotalBalance(state) \in Nat /\ b \in Nat
  BY <1>1, <1>6, TotalType DEF b
<1>8. /\ TotalBalance(m) + gas + blob = TotalBalance(state)
      /\ acc.balance + gas + blob = b
  BY <1>2, <1>6, <1>7
<1>9. NoEmpties(state) => NoEmpties(m)
  <2> SUFFICES ASSUME NoEmpties(state), NEW a \in Address, Exists(m, a)
               PROVE  ~IsEmptyAccount(m[a])
    BY DEF NoEmpties
  <2>1. CASE a = T.sender
    <3>1. m[a] = acc /\ acc.nonce # 0
      BY <1>1, <1>5, <2>1, NonceType DEF Updated
    <3> QED BY <3>1 DEF IsEmptyAccount
  <2>2. CASE a # T.sender
    BY <1>5, <2>2 DEF Updated, NoEmpties
  <2> QED BY <2>1, <2>2
<1> QED BY <1>2, <1>6, <1>8, <1>9 DEF m, gas, blob, b

-----------------------------------------------------------------------------
(***************************************************************************)
(* The sender pays for the gas and sends a value, and no more.             *)
(***************************************************************************)
\* A transfer takes no more than the value from who sends it.
LEMMA TransferTakes ==
  ASSUME NEW m \in AccountMap, NEW s \in Address, NEW r \in Address, NEW v \in Uint,
         v <= Balance(m, s)
  PROVE  Balance(m, s) <= Balance(Transfer(m, s, r, v), s) + v
<1> DEFINE y == Balance(m, s)
<1>1. y \in Uint /\ y \in Nat /\ v \in Nat /\ y - v \in Uint
  BY LookupType, WordSizeAssumption DEF Uint, WordSizeAssumption
<1>2. CASE s = r
  BY <1>1, <1>2, TransferToItself
<1>3. CASE s # r /\ ~Exists(m, s)
  <2>1. y = 0 /\ v = 0
    BY <1>1, <1>3 DEF Balance, Lookup, DefaultAccount
  <2> QED BY <1>1, <2>1, TransferNothing
<1>4. CASE s # r /\ Exists(m, s)
  <2> DEFINE c == Credit(m, r, v)
             acc == [m[s] EXCEPT !.balance = y - v]
             d == [c EXCEPT ![s] = acc]
  <2>1. c \in AccountMap /\ c[s] = m[s]
    BY <1>4, CreditType DEF Credit, AccountMap
  <2>2. m[s] \in Account /\ m[s].balance = y /\ Exists(c, s)
    BY <1>4, <2>1, LookupType DEF Balance, Exists
  <2>3. acc \in Account /\ acc.balance = y - v
    BY <1>1, <2>2, BalanceSet
  <2>4. Transfer(m, s, r, v) = d
    <3>1. SubWord(y, v) = y - v
      BY <1>1, WordArithmetic
    <3> HIDE DEF c
    <3>2. Debit(c, s, v) = d
      BY <2>1, <2>2, <3>1 DEF Debit
    <3> QED BY <3>2 DEF Transfer, c
  <2> HIDE DEF c, acc
  <2>5. Balance(d, s) = y - v
    BY <2>1, <2>3, LookupUpdated DEF Balance
  <2> QED BY <1>1, <2>4, <2>5
<1> QED BY <1>2, <1>3, <1>4

\* Nor does the endowment of a creation.
LEMMA LambdaTakes ==
  ASSUME NEW m \in AccountMap, NEW s \in Address, NEW a \in Address, a # s,
         NEW v \in Uint, v <= Balance(m, s)
  PROVE  Balance(m, s) <= Balance(LambdaWorld(m, s, a, v), s) + v
<1> DEFINE y   == Balance(m, s)
           d   == LambdaWorld(m, s, a, v)
<1>1. y \in Uint /\ y \in Nat /\ v \in Nat /\ y - v \in Uint
  BY LookupType, WordSizeAssumption DEF Uint, WordSizeAssumption
<1>2. CASE ~Exists(m, s)
  <2>1. d = m
    BY <1>2 DEF LambdaWorld
  <2> QED BY <1>1, <2>1
<1>3. CASE Exists(m, s)
  <2>1. m[s] \in Account /\ m[s].balance = y
    BY <1>3, LookupType DEF Balance
  <2>2. SubWord(y, v) = y - v
    BY <1>1, WordArithmetic
  <2>3. d[s] = [m[s] EXCEPT !.balance = y - v]
    BY <1>3, <2>1, <2>2 DEF LambdaWorld, AccountMap
  <2>4. [m[s] EXCEPT !.balance = y - v] \in Account
        /\ [m[s] EXCEPT !.balance = y - v].balance = y - v
    BY <1>1, <2>1, BalanceSet
  <2> HIDE DEF d
  <2>5. Balance(d, s) = y - v
    BY <2>3, <2>4, NoAccountAssumption DEF Balance, Lookup, Exists, NoAccountAssumption
  <2> QED BY <1>1, <2>5 DEF d
<1> QED BY <1>2, <1>3

\* The first frame has the gas that was bought, and the state that was paid from.
LEMMA BeginPays ==
  ASSUME TypeOK, EtherInv, NEW s \in Sender(origin), NEW a \in Address,
         NEW v \in Uint, NEW g \in Nat, StartCall(s, a, v, g) \/ StartCreate(s, a, v, g)
  PROVE  /\ Balance(origin, s) <= Balance(world', s) + v
         /\ Len(frames') = 1 /\ frames'[1].world = origin /\ frames'[1].given = g
<1>1. origin \in AccountMap /\ s \in Address
  BY DEF TypeOK, Sender
<1>2. Balance(origin, s) <= Balance(world', s) + v
  <2>1. CASE StartCall(s, a, v, g)
    <3>1. v <= Balance(origin, s) /\ world' = Transfer(origin, s, a, v)
      BY <2>1 DEF StartCall
    <3> QED BY <1>1, <3>1, TransferTakes
  <2>2. CASE StartCreate(s, a, v, g)
    <3>1. v <= Balance(origin, s) /\ world' = LambdaWorld(origin, s, a, v) /\ a # s
      BY <2>2 DEF StartCreate, NewAddress
    <3> QED BY <1>1, <3>1, LambdaTakes
  <2> QED BY <2>1, <2>2
<1>3. PICK new : frames' = <<new>> /\ new.world = origin /\ new.given = g
  BY StartMoves
<1>4. Len(frames') = 1 /\ frames'[1] = new
  BY <1>3
<1> QED BY <1>2, <1>3, <1>4

\* No code runs at an account that had a nonce and no code.
LEMMA SenderSpendsNothing ==
  ASSUME TypeOK, AccountInv, status = "running", NEW s \in Sender(origin)
  PROVE  s \notin Spenders
<1> SUFFICES ASSUME Top.code = "program", Top.owner = s PROVE FALSE
  BY DEF Spenders
<1>1. s \in Address /\ Lookup(origin, s).code = 0 /\ Lookup(origin, s).nonce # 0
  BY DEF Sender, Lookup
<1>2. Descends(world, sub) /\ Rooted(world, sub, Top)
  BY TopType DEF AccountInv, History, Top
<1>3. s \notin sub.createdAccounts
  BY <1>1, <1>2 DEF Descends, Blank
<1>4. Lookup(world, s).code = 0
  BY <1>1, <1>2, <1>3 DEF Descends
<1> QED BY <1>2, <1>3, <1>4 DEF Rooted

\* So it keeps what it had, in every state that may come back.
LEMMA StepsKeep ==
  ASSUME TypeOK, TypeOK', AccountInv, EtherInv, Instruction \/ Resume \/ Finish,
         NEW s \in Sender(origin), NEW b \in Nat, NEW v \in Nat,
         b <= Balance(world, s) + v,
         \A k \in 1 .. Len(frames) : b <= Balance(frames[k].world, s) + v
  PROVE  /\ b <= Balance(world', s) + v
         /\ \A k \in 1 .. Len(frames') : b <= Balance(frames'[k].world, s) + v
         /\ Len(frames') > 0 => frames'[1].given = frames[1].given
<1>1. AllCome
  BY StepsCome
<1>2. status = "running"
  BY MachineGoesOn DEF Finish
<1>3. s \in Address \ Spenders
  BY <1>2, SenderSpendsNothing DEF Sender
<1>4. ASSUME NEW m2, NEW A2, Comes(m2, A2) PROVE b <= Balance(m2, s) + v
  <2>1. PICK m, A : m \in AccountMap /\ Held(m, A) /\ MoneyStep(m, A, m2, A2, Spenders)
    BY <1>4 DEF Comes
  <2>2. b <= Balance(m, s) + v
    BY <2>1 DEF Held
  <2>3. Balance(m, s) <= Balance(m2, s)
    BY <1>3, <2>1 DEF MoneyStep, Moves
  <2>4. Balance(m, s) \in Nat /\ Balance(m2, s) \in Nat
    <3>1. m \in AccountMap /\ m2 \in AccountMap /\ s \in Address
      BY <1>3, <1>4, <2>1 DEF Comes
    <3> QED BY <3>1, TotalType
  <2> QED BY <2>2, <2>3, <2>4
<1> QED BY <1>1, <1>4 DEF AllCome

-----------------------------------------------------------------------------
(***************************************************************************)
(* Settling: what is given back, rewarded and erased.                      *)
(***************************************************************************)
\* A payment into an account, when a word has room for all there is.
LEMMA IncreaseMoney ==
  ASSUME NEW m \in AccountMap, NEW a \in Address, NEW v \in Nat,
         TotalBalance(m) + v < WordSize
  PROVE  LET n == IncreaseBalance(m, a, v)
         IN  /\ n \in AccountMap
             /\ TotalBalance(n) = TotalBalance(m) + v
             /\ \A b \in Address : Balance(m, b) <= Balance(n, b)
             /\ (v # 0 \/ Live(m, a)) /\ NoEmpties(m) => NoEmpties(n)
<1> DEFINE x   == Balance(m, a)
           acc == [Lookup(m, a) EXCEPT !.balance = x + v]
           n   == [m EXCEPT ![a] = acc]
<1>1. /\ x \in Uint /\ x \in Nat /\ x <= TotalBalance(m) /\ TotalBalance(m) \in Nat
      /\ Lookup(m, a) \in Account
  BY LookupType, TotalType
<1>2. x + v < WordSize /\ v \in Uint /\ x + v \in Uint
  BY <1>1, WordSizeAssumption DEF WordSizeAssumption, Uint
<1>3. AddWord(x, v) = x + v
  BY <1>1, <1>2, WordArithmetic
<1>4. IncreaseBalance(m, a, v) = n
  BY <1>1, <1>3 DEF IncreaseBalance, Balance, Account
<1>5. /\ acc \in Account /\ acc.balance = x + v
      /\ x + v # 0 \/ Live(m, a) => ~IsEmptyAccount(acc)
  BY <1>1, <1>2, BalanceSet DEF Live
<1> HIDE DEF acc
<1>6. Updated(m, a, acc, n)
  BY <1>5, TotalUpdated
<1> HIDE DEF n
<1>7. /\ n \in AccountMap /\ TotalBalance(m) + (x + v) = TotalBalance(n) + x
      /\ \A b \in Address :
           /\ Balance(n, b) = IF b = a THEN x + v ELSE Balance(m, b)
           /\ Exists(n, b) <=> (b = a \/ Exists(m, b))
           /\ n[b] = IF b = a THEN acc ELSE m[b]
  BY <1>5, <1>6 DEF Updated, x
<1>8. \A b \in Address : Balance(m, b) \in Nat
  BY TotalType
<1>9. TotalBalance(n) = TotalBalance(m) + v
  <2>1. TotalBalance(n) \in Nat
    BY <1>7, TotalType
  <2> HIDE DEF x
  <2> QED BY <1>1, <1>7, <2>1
<1>10. \A b \in Address : Balance(m, b) <= Balance(n, b)
  <2> SUFFICES ASSUME NEW b \in Address PROVE Balance(m, b) <= Balance(n, b)
    OBVIOUS
  <2>1. CASE b = a
    BY <1>1, <1>7, <2>1
  <2>2. CASE b # a
    BY <1>7, <1>8, <2>2
  <2> QED BY <2>1, <2>2
<1>11. ASSUME v # 0 \/ Live(m, a), NoEmpties(m) PROVE NoEmpties(n)
  <2>1. v # 0 => x + v # 0
    BY <1>1
  <2>2. ~IsEmptyAccount(acc)
    BY <1>5, <1>11, <2>1
  <2> QED BY <1>7, <1>11, <2>2 DEF NoEmpties
<1> QED BY <1>4, <1>7, <1>9, <1>10, <1>11

\* What destroyed itself is erased, and all else has the balance it had.
LEMMA SettledMoney ==
  ASSUME TypeOK, tx \in Transactions
  PROVE  /\ Settled \in AccountMap
         /\ TotalBalance(Settled) <= TotalBalance(Rewarded)
         /\ sub.selfDestructSet = {} => TotalBalance(Settled) = TotalBalance(Rewarded)
         /\ \A a \in Address \ sub.selfDestructSet :
              Balance(Settled, a) = Balance(Rewarded, a)
         /\ NoEmpties(Rewarded) => NoEmpties(Settled)
<1> DEFINE m == Rewarded
           n == Settled
           D == sub.selfDestructSet
<1>1. m \in AccountMap /\ n \in AccountMap
  BY RewardedFacts, SettledFacts
<1>2. ASSUME NEW a \in Address, Exists(m, a), a \notin D
      PROVE  /\ Exists(n, a) /\ n[a].balance = m[a].balance
             /\ n[a].nonce = m[a].nonce /\ n[a].code = m[a].code
  <2> DEFINE acc == [m[a] EXCEPT !.tstorage = ZeroStorage]
  <2>1. m[a] \in Account
    BY <1>1, <1>2 DEF AccountMap, Exists
  <2>2. /\ acc.balance = m[a].balance /\ acc.nonce = m[a].nonce /\ acc.code = m[a].code
        /\ acc \in Account
    <3>1. ZeroStorage \in Storage
      BY WordAssumption DEF ZeroStorage, Storage, WordAssumption
    <3> QED BY <2>1, <3>1 DEF Account
  <2>3. n[a] = acc
    BY <1>2 DEF Settled
  <2> QED BY <2>2, <2>3, NoAccountAssumption DEF Exists, NoAccountAssumption
<1>3. ASSUME NEW a \in Address, ~Exists(m, a) \/ a \in D PROVE ~Exists(n, a)
  BY <1>3 DEF Settled, Exists
<1> HIDE DEF m, n
<1>4. ASSUME NEW a \in Address
      PROVE  /\ a \notin D => Balance(n, a) = Balance(m, a)
             /\ Balance(n, a) <= Balance(m, a)
  <2>1. Balance(m, a) \in Nat /\ DefaultAccount.balance = 0
    BY <1>1, TotalType DEF DefaultAccount
  <2>2. CASE Exists(m, a) /\ a \notin D
    <3>1. Balance(n, a) = Balance(m, a)
      BY <1>2, <2>2 DEF Balance, Lookup
    <3> QED BY <2>1, <3>1
  <2>3. CASE ~Exists(m, a) \/ a \in D
    <3>1. Balance(n, a) = 0
      BY <1>3, <2>1, <2>3 DEF Balance, Lookup
    <3>2. a \notin D => Balance(m, a) = 0
      BY <2>1, <2>3 DEF Balance, Lookup
    <3> QED BY <2>1, <3>1, <3>2
  <2> QED BY <2>2, <2>3
<1>5. IsFiniteSet(Address)
  BY AddressAssumption DEF AddressAssumption
<1>6. /\ BalanceOf(m) \in [Address -> Nat] /\ BalanceOf(n) \in [Address -> Nat]
      /\ \A a \in Address : BalanceOf(n)[a] <= BalanceOf(m)[a]
  BY <1>1, <1>4, TotalType
<1>7. TotalBalance(n) <= TotalBalance(m)
  BY <1>5, <1>6, SumOfSmaller DEF TotalBalance
<1>8. D = {} => BalanceOf(n) = BalanceOf(m)
  BY <1>4 DEF BalanceOf
<1>9. D = {} => TotalBalance(n) = TotalBalance(m)
  BY <1>8 DEF TotalBalance
<1>10. NoEmpties(m) => NoEmpties(n)
  BY <1>2, <1>3 DEF NoEmpties, IsEmptyAccount
<1> QED BY <1>1, <1>4, <1>7, <1>9, <1>10 DEF m, n

\* The sum of what is given back, rewarded and burned is what was bought.
LEMMA GasShares ==
  ASSUME tx \in Transactions, BaseFee <= tx.maxFee, halt.gas \in Nat,
         halt.gas <= tx.gasLimit - tx.intrinsic, sub.refundBalance \in Nat
  PROVE  /\ GasReturned \in Nat /\ TransactionGasUsed \in Nat
         /\ TransactionGasUsed <= tx.gasLimit
         /\ LET back   == GasReturned * EffectiveGasPrice(tx)
                reward == TransactionGasUsed * PriorityFee(tx)
                burned == TransactionGasUsed * BaseFee
            IN  /\ back \in Nat /\ reward \in Nat /\ burned \in Nat
                /\ back + reward + burned = tx.gasLimit * EffectiveGasPrice(tx)
<1>1. /\ PriorityFee(tx) \in Nat /\ EffectiveGasPrice(tx) \in Nat /\ BaseFee \in Nat
      /\ EffectiveGasPrice(tx) = PriorityFee(tx) + BaseFee
  BY PriceFacts
<1>2. tx.gasLimit \in Nat /\ tx.intrinsic \in Nat
  BY TransactionFields
<1> DEFINE R == GasReturned
           U == TransactionGasUsed
           P == EffectiveGasPrice(tx)
           f == PriorityFee(tx)
<1>3. R \in Nat /\ R <= tx.gasLimit
  <2> DEFINE spent == tx.gasLimit - halt.gas
             fifth == spent \div 5
  <2>1. spent \in Nat /\ halt.gas + spent = tx.gasLimit
    BY <1>2
  <2>2. fifth \in Nat /\ fifth <= spent
    <3> HIDE DEF spent
    <3> QED BY <2>1
  <2>3. R = halt.gas + MinOf(fifth, sub.refundBalance)
    BY DEF GasReturned
  <2> HIDE DEF R, fifth, spent
  <2>4. MinOf(fifth, sub.refundBalance) \in Nat /\ MinOf(fifth, sub.refundBalance) <= fifth
    BY <2>2 DEF MinOf
  <2> QED BY <2>1, <2>2, <2>3, <2>4
<1>4. U = tx.gasLimit - R
  BY DEF TransactionGasUsed
<1> HIDE DEF R, U, P, f
<1>5. U \in Nat /\ U <= tx.gasLimit /\ R + U = tx.gasLimit
  BY <1>2, <1>3, <1>4
<1>6. /\ R * P \in Nat /\ U * f \in Nat /\ U * BaseFee \in Nat
      /\ (R + U) * P = R * P + U * P
      /\ U * (f + BaseFee) = U * f + U * BaseFee
  BY <1>1, <1>3, <1>5, ProductFacts DEF P, f
<1>7. R * P + U * f + U * BaseFee = tx.gasLimit * P
  <2>1. U * P = U * f + U * BaseFee
    BY <1>1, <1>6 DEF P, f
  <2>2. tx.gasLimit * P = R * P + U * P
    BY <1>5, <1>6
  <2> DEFINE rp == R * P  uf == U * f  ub == U * BaseFee  up == U * P  all == tx.gasLimit * P
  <2>3. rp \in Nat /\ uf \in Nat /\ ub \in Nat /\ up = uf + ub /\ all = rp + up
    BY <1>6, <2>1, <2>2
  <2> HIDE DEF rp, uf, ub, up, all
  <2>4. rp + uf + ub = all
    BY <2>3
  <2> QED BY <2>4 DEF rp, uf, ub, all
<1> QED BY <1>3, <1>5, <1>6, <1>7 DEF R, U, P, f

-----------------------------------------------------------------------------
(***************************************************************************)
(* The steps of a block.                                                   *)
(***************************************************************************)
LEMMA BlockStarts == BlockInit => BlockInv
<1> SUFFICES ASSUME BlockInit PROVE BlockInv
  OBVIOUS
<1>1. TypeOK /\ AccountInv
  BY InitType, AccountInit DEF BlockInit
<1>2. /\ origin \in AccountMap /\ state = origin /\ phase = "validate"
      /\ executed = {} /\ status = "idle" /\ sub = InitialSubstate({})
  BY MachineAssumption DEF BlockInit, Init, MachineAssumption
<1>3. Phases /\ Paid /\ UsedUp
  BY <1>2 DEF Phases, Paid, UsedUp
<1> QED BY <1>1, <1>3 DEF BlockInv

\* A payment.
LEMMA PayStep ==
  ASSUME BlockInv, NEW T \in Transactions, Pay(T)
  PROVE  BlockInv'
<1> USE DEF BlockInv
<1>1. /\ phase = "validate" /\ tx' = T /\ phase' = "execute" /\ world' = origin'
      /\ origin' = [state EXCEPT ![T.sender] = PaidSender(T)]
      /\ UNCHANGED <<frames, sub, halt, flag, status, state, gasUsed, executed>>
      /\ T.intrinsic <= T.gasLimit /\ T.nonce = Lookup(state, T.sender).nonce
      /\ Lookup(state, T.sender).code = 0
  BY DEF Pay, Valid
<1>2. /\ state \in AccountMap /\ status = "idle" /\ sub = InitialSubstate({})
      /\ halt = Running /\ flag \in BOOLEAN /\ frames = <<>>
  BY <1>1 DEF Phases, TypeOK, AccountInv
<1>3. origin' \in AccountMap
  BY <1>1, <1>2, PaidState
<1>4. TypeOK' /\ AccountInv'
  BY <1>1, <1>2, <1>3, FreshMachine
<1>5. Phases'
  BY <1>1, <1>2 DEF Phases
<1>6. Paid'
  <2>1. PaidSender(T)' = PaidSender(T)
    BY <1>1 DEF PaidSender, EffectiveGasPrice, PriorityFee, BlobFee, TotalBlobGas
  <2>2. PaidSender(tx)' = PaidSender(T)
    BY <1>1 DEF PaidSender, EffectiveGasPrice, PriorityFee, BlobFee, TotalBlobGas
  <2>3. origin' = [state' EXCEPT ![tx'.sender] = PaidSender(tx)']
    BY <1>1, <2>2
  <2> QED BY <1>1, <2>3 DEF Paid
<1>7. UsedUp'
  BY <1>1 DEF UsedUp
<1> QED BY <1>4, <1>5, <1>6, <1>7

\* A step of the machine.
LEMMA ExecuteStep ==
  ASSUME BlockInv, Execute
  PROVE  BlockInv'
<1> USE DEF BlockInv
<1> DEFINE g == tx.gasLimit - tx.intrinsic
<1>1. /\ phase = "execute" /\ UNCHANGED <<state, tx, gasUsed, executed>>
      /\ phase' = IF status' = "done" THEN "settle" ELSE "execute"
  BY DEF Execute
<1>2. /\ tx \in Transactions /\ state \in AccountMap
      /\ origin = [state EXCEPT ![tx.sender] = PaidSender(tx)]
      /\ Lookup(state, tx.sender).code = 0
      /\ tx.intrinsic <= tx.gasLimit
  BY <1>1 DEF Phases, Paid
<1>3. tx.sender \in Sender(origin)
  <2>1. /\ tx.sender \in Address /\ Exists(origin, tx.sender)
        /\ Lookup(origin, tx.sender).code = 0
        /\ Lookup(origin, tx.sender).nonce = Lookup(state, tx.sender).nonce + 1
    BY <1>2, PaidState, TransactionFields
  <2>2. Lookup(state, tx.sender).nonce + 1 # 0
    BY <1>2, <2>1, NonceType
  <2> QED BY <2>1, <2>2 DEF Sender, Lookup
<1>4. g \in Nat /\ tx.value \in Uint /\ tx.recipient \in Address \cup {NoRecipient}
  BY <1>2, TransactionFields
<1> HIDE DEF g
<1>5. \/ tx.recipient # NoRecipient /\ StartCall(tx.sender, tx.recipient, tx.value, g)
      \/ \E a \in Address : StartCreate(tx.sender, a, tx.value, g)
      \/ Instruction \/ Resume
      \/ Finish
  BY DEF Execute, g
<1>6. /\ TypeOK' /\ AccountInv' /\ origin' = origin
      /\ status' \in {"running", "done"}
  <2>1. ASSUME NEW a \in Address,
               \/ StartCall(tx.sender, a, tx.value, g)
               \/ StartCreate(tx.sender, a, tx.value, g)
        PROVE  TypeOK' /\ AccountInv' /\ origin' = origin /\ status' = "running"
    BY <1>3, <1>4, <2>1, BeginStep
  <2>2. CASE Instruction \/ Resume
    <3>1. TypeOK' /\ AccountInv'
      BY <2>2, TypeStep, AccountStep DEF Next
    <3> QED BY <2>2, <3>1, MachineGoesOn
  <2>3. CASE Finish
    <3>1. TypeOK' /\ AccountInv'
      BY <2>3, TypeStep, AccountStep DEF Next
    <3>2. origin' = origin /\ status' = "done"
      BY <2>3 DEF Finish
    <3> QED BY <3>1, <3>2
  <2> QED BY <1>4, <1>5, <2>1, <2>2, <2>3
<1>7. Phases'
  BY <1>1, <1>6 DEF Phases
<1>8. Paid'
  <2>1. PaidSender(tx)' = PaidSender(tx)
    BY <1>1 DEF PaidSender, EffectiveGasPrice, PriorityFee, BlobFee, TotalBlobGas
  <2> QED BY <1>1, <1>6, <2>1 DEF Paid
<1>9. UsedUp'
  BY <1>1 DEF UsedUp
<1> QED BY <1>6, <1>7, <1>8, <1>9

\* What is left, when a transaction is settled, of an account that was not blank.
LEMMA AccountSettled ==
  ASSUME BlockInv, phase = "settle", NEW a \in Address,
         ~Blank(state, a) \/ a = tx.sender
  PROVE  /\ Lookup(Settled, a).code = Lookup(state, a).code
         /\ Lookup(state, a).nonce <= Lookup(Settled, a).nonce
         /\ a = tx.sender => Lookup(state, a).nonce < Lookup(Settled, a).nonce
         /\ Exists(Settled, a)
<1> USE DEF BlockInv
<1>1. /\ tx \in Transactions /\ state \in AccountMap
      /\ origin = [state EXCEPT ![tx.sender] = PaidSender(tx)]
      /\ world \in AccountMap
  BY DEF Phases, Paid, TypeOK
<1>2. /\ Lookup(origin, a).nonce = IF a = tx.sender THEN Lookup(state, a).nonce + 1
                                   ELSE Lookup(state, a).nonce
      /\ Lookup(origin, a).code = Lookup(state, a).code
      /\ Lookup(origin, a).storage = Lookup(state, a).storage
  BY <1>1, PaidState
<1>3. /\ Lookup(state, a).nonce \in Nat /\ Lookup(world, a).nonce \in Nat
      /\ Lookup(state, a).nonce + 1 # 0
  BY <1>1, NonceType
<1>4. ~Blank(origin, a)
  BY <1>2, <1>3 DEF Blank
<1>5. Descends(world, sub)
  BY DEF AccountInv, History
<1>6. /\ Lookup(origin, a).nonce <= Lookup(world, a).nonce
      /\ Lookup(world, a).code = Lookup(origin, a).code
      /\ Lookup(world, a).storage # Lookup(origin, a).storage => Live(world, a)
      /\ a \notin sub.selfDestructSet
  BY <1>4, <1>5 DEF Descends
<1>7. Exists(world, a)
  <2>1. \/ Lookup(world, a).nonce # 0
        \/ Lookup(world, a).code # 0
        \/ Lookup(world, a).storage # ZeroStorage
    <3>1. CASE Lookup(world, a).storage = Lookup(origin, a).storage
      <4>1. Lookup(origin, a).nonce # 0 => Lookup(world, a).nonce # 0
        BY <1>2, <1>3, <1>6
      <4> QED BY <1>4, <1>6, <3>1, <4>1 DEF Blank
    <3>2. CASE Lookup(world, a).storage # Lookup(origin, a).storage
      BY <1>6, <3>2 DEF Live
    <3> QED BY <3>1, <3>2
  <2> QED BY <2>1 DEF Lookup, DefaultAccount
<1>8. /\ Exists(Settled, a)
      /\ Lookup(Settled, a).nonce = Lookup(world, a).nonce
      /\ Lookup(Settled, a).code = Lookup(world, a).code
  BY <1>1, <1>6, <1>7, SettledFacts
<1>9. /\ Lookup(state, a).nonce <= Lookup(world, a).nonce
      /\ a = tx.sender => Lookup(state, a).nonce < Lookup(world, a).nonce
  BY <1>2, <1>3, <1>6
<1> QED BY <1>2, <1>6, <1>8, <1>9

\* A settlement: the sender's nonce has been used, and no used nonce returns.
LEMMA SettleStep ==
  ASSUME BlockInv, Settle
  PROVE  BlockInv'
<1> USE DEF BlockInv
<1>1. /\ phase = "settle" /\ phase' = "validate" /\ state' = Settled /\ tx' = tx
      /\ executed' = executed \cup {<<tx.sender, tx.nonce>>}
      /\ origin' = state' /\ world' = state' /\ sub' = InitialSubstate({})
      /\ halt' = Running /\ flag' = FALSE /\ status' = "idle" /\ frames' = frames
  BY DEF Settle, Reset
<1>2. /\ tx \in Transactions /\ status = "done" /\ state \in AccountMap
      /\ tx.nonce = Lookup(state, tx.sender).nonce /\ frames = <<>>
      /\ tx.sender \in Address /\ tx.nonce \in Nat
  BY <1>1, TransactionFields DEF Phases, Paid, TypeOK
<1>3. Settled \in AccountMap
  BY <1>2, SettledFacts
<1>4. TypeOK' /\ AccountInv'
  BY <1>1, <1>2, <1>3, FreshMachine
<1>5. Phases'
  BY <1>1, <1>2, <1>3 DEF Phases
<1>6. Paid'
  BY <1>1 DEF Paid
<1>7. UsedUp'
  <2> SUFFICES ASSUME NEW e \in executed'
               PROVE  e[2] < Lookup(Settled, e[1]).nonce
    BY <1>1 DEF UsedUp
  <2>1. CASE e \in executed
    <3>1. e[1] \in Address /\ e[2] \in Nat
      BY <2>1 DEF Phases
    <3>2. e[2] < Lookup(state, e[1]).nonce /\ Lookup(state, e[1]).nonce \in Nat
      BY <1>2, <2>1, <3>1, NonceType DEF UsedUp
    <3>3. ~Blank(state, e[1])
      BY <3>1, <3>2 DEF Blank
    <3>4. Lookup(state, e[1]).nonce <= Lookup(Settled, e[1]).nonce
      BY <1>1, <3>1, <3>3, AccountSettled
    <3>5. Lookup(Settled, e[1]).nonce \in Nat
      BY <1>3, <3>1, NonceType
    <3> QED BY <3>1, <3>2, <3>4, <3>5
  <2>2. CASE e = <<tx.sender, tx.nonce>>
    BY <1>1, <1>2, <2>2, AccountSettled
  <2> QED BY <1>1, <2>1, <2>2
<1> QED BY <1>4, <1>5, <1>6, <1>7

\* A step of something else.
LEMMA BlockStutters ==
  ASSUME BlockInv, UNCHANGED allVars
  PROVE  BlockInv'
<1>1. UNCHANGED vars /\ UNCHANGED <<state, phase, tx, gasUsed, executed>>
  BY DEF allVars, blockVars
<1>2. TypeOK' /\ AccountInv'
  BY <1>1, TypeStep, AccountStep DEF BlockInv
<1>3. status' = status /\ sub' = sub /\ origin' = origin
  BY <1>1 DEF vars
<1>4. Phases'
  BY <1>1, <1>3 DEF BlockInv, Phases
<1>5. Paid'
  <2>1. PaidSender(tx)' = PaidSender(tx)
    BY <1>1 DEF PaidSender, EffectiveGasPrice, PriorityFee, BlobFee, TotalBlobGas
  <2> QED BY <1>1, <1>3, <2>1 DEF BlockInv, Paid
<1>6. UsedUp'
  BY <1>1 DEF BlockInv, UsedUp
<1> QED BY <1>2, <1>4, <1>5, <1>6 DEF BlockInv

LEMMA BlockStep == BlockInv /\ [BlockNext]_allVars => BlockInv'
BY PayStep, ExecuteStep, SettleStep, BlockStutters DEF BlockNext

-----------------------------------------------------------------------------
(***************************************************************************)
(* The fees of a block: MoneyInv is inductive, and FeesSettle follows.     *)
(***************************************************************************)
\* The sender is one, for the machine, in any state that was paid from.
LEMMA SenderIsPlain ==
  ASSUME Phases, Paid, phase # "validate"
  PROVE  /\ tx \in Transactions /\ tx.sender \in Address /\ state \in AccountMap
         /\ tx.sender \in Sender(origin)
         /\ ~Blank(origin, tx.sender)
<1>1. /\ tx \in Transactions /\ state \in AccountMap
      /\ origin = [state EXCEPT ![tx.sender] = PaidSender(tx)]
      /\ Lookup(state, tx.sender).code = 0
  BY DEF Phases, Paid
<1>2. /\ tx.sender \in Address /\ Exists(origin, tx.sender)
      /\ Lookup(origin, tx.sender).code = 0
      /\ Lookup(origin, tx.sender).nonce = Lookup(state, tx.sender).nonce + 1
  BY <1>1, PaidState, TransactionFields
<1>3. Lookup(origin, tx.sender).nonce # 0
  BY <1>1, <1>2, NonceType
<1> QED BY <1>1, <1>2, <1>3 DEF Sender, Lookup, Blank

\* What the states of a transaction have in all.
LEMMA MoneyFacts ==
  ASSUME MoneyInv, phase # "validate"
  PROVE  LET gas == tx.gasLimit * EffectiveGasPrice(tx)
         IN  /\ gas \in Nat /\ BlobFee(tx) \in Nat
             /\ tx.value \in Nat /\ UpfrontCost(tx) \in Nat
             /\ gas + BlobFee(tx) + tx.value <= UpfrontCost(tx)
             /\ TotalBalance(origin) + gas + BlobFee(tx) = TotalBalance(state)
             /\ Balance(origin, tx.sender) + gas + BlobFee(tx)
                  = Balance(state, tx.sender)
             /\ NoEmpties(state) => NoEmpties(origin)
<1>1. /\ tx \in Transactions /\ state \in AccountMap
      /\ origin = [state EXCEPT ![tx.sender] = PaidSender(tx)]
      /\ BaseFee <= tx.maxFee /\ ValidKind(tx)
      /\ UpfrontCost(tx) <= Balance(state, tx.sender)
  BY DEF MoneyInv, BlockInv, Phases, Paid, Affordable
<1>2. tx.value \in Nat
  BY <1>1, TransactionFields DEF Uint
<1> QED BY <1>1, <1>2, CostFacts, PaidTotal

\* A settlement burns what it must, and no more.
LEMMA SettleMoney ==
  ASSUME MoneyInv, phase = "settle"
  PROVE  /\ Burned \in Nat /\ TransactionGasUsed \in Nat
         /\ TotalBalance(Settled) \in Nat
         /\ TotalBalance(Settled) + Burned <= TotalBalance(state)
         /\ sub.selfDestructSet = {} =>
              TotalBalance(Settled) + Burned = TotalBalance(state)
         /\ Balance(state, tx.sender) <= Balance(Settled, tx.sender) + UpfrontCost(tx)
         /\ gasUsed + TransactionGasUsed <= BlockGasLimit
         /\ NoEmpties(world) => NoEmpties(Settled)
<1> DEFINE gas    == tx.gasLimit * EffectiveGasPrice(tx)
           blob   == BlobFee(tx)
           back   == GasReturned * EffectiveGasPrice(tx)
           reward == TransactionGasUsed * PriorityFee(tx)
           burned == TransactionGasUsed * BaseFee
           s      == tx.sender
<1>1. /\ TypeOK /\ AccountInv /\ EtherInv /\ tx \in Transactions /\ s \in Address
      /\ s \in Sender(origin) /\ ~Blank(origin, s)
      /\ state \in AccountMap /\ origin \in AccountMap /\ world \in AccountMap
      /\ status = "done" /\ BaseFee <= tx.maxFee
      /\ tx.gasLimit + gasUsed <= BlockGasLimit /\ gasUsed \in Nat
      /\ TotalBalance(state) < WordSize
  <2>1. Phases /\ Paid
    BY DEF MoneyInv, BlockInv
  <2> QED BY <2>1, SenderIsPlain
      DEF MoneyInv, BlockInv, Affordable, Phases, TypeOK
<1>2. /\ gas \in Nat /\ blob \in Nat /\ tx.value \in Nat /\ UpfrontCost(tx) \in Nat
      /\ gas + blob + tx.value <= UpfrontCost(tx)
      /\ TotalBalance(origin) + gas + blob = TotalBalance(state)
      /\ Balance(origin, s) + gas + blob = Balance(state, s)
  BY MoneyFacts
<1>3. /\ GasReturned \in Nat /\ TransactionGasUsed \in Nat
      /\ TransactionGasUsed <= tx.gasLimit
      /\ back \in Nat /\ reward \in Nat /\ burned \in Nat
      /\ back + reward + burned = gas
  <2>1. halt.gas \in Nat /\ sub.refundBalance \in Nat
    BY <1>1, WordSizeAssumption DEF TypeOK, Halt, Substate, Uint, WordSizeAssumption
  <2>2. halt.gas <= tx.gasLimit - tx.intrinsic
    BY <1>1 DEF MoneyInv, GasBought
  <2> QED BY <1>1, <2>1, <2>2, GasShares
<1>4. /\ TotalBalance(world) \in Nat /\ TotalBalance(world) <= TotalBalance(origin)
      /\ sub.selfDestructSet = {} => TotalBalance(world) = TotalBalance(origin)
      /\ TotalBalance(origin) \in Nat /\ TotalBalance(state) \in Nat
      /\ Balance(origin, s) \in Nat /\ Balance(world, s) \in Nat
  BY <1>1, TotalType DEF EtherInv, Conserved
<1>5. Burned = burned + blob
  BY DEF Burned
<1> HIDE DEF gas, blob
<1>6. /\ back < WordSize /\ reward < WordSize
      /\ TotalBalance(world) + back < WordSize
      /\ TotalBalance(world) + back + reward < WordSize
  <2> HIDE DEF back, reward, burned
  <2> QED BY <1>1, <1>2, <1>3, <1>4, WordSizeAssumption DEF WordSizeAssumption
<1>7. /\ Refunded = IncreaseBalance(world, s, back) /\ BeneficiaryFee = reward
  <2>1. PriorityFee(tx) \in Nat /\ EffectiveGasPrice(tx) \in Nat
    BY <1>1, PriceFacts
  <2> QED BY <1>3, <1>6, <2>1, MulWordExact DEF Refunded, BeneficiaryFee
<1>8. Live(world, s) /\ s \notin sub.selfDestructSet
  <2>1. Descends(world, sub)
    BY <1>1 DEF AccountInv, History
  <2>2. Lookup(origin, s).nonce # 0
    BY <1>1 DEF Sender, Lookup
  <2>3. Lookup(origin, s).nonce <= Lookup(world, s).nonce
    BY <1>1, <2>1 DEF Descends
  <2>4. Lookup(origin, s).nonce \in Nat /\ Lookup(world, s).nonce \in Nat
    BY <1>1, NonceType
  <2> QED BY <1>1, <2>1, <2>2, <2>3, <2>4 DEF Descends, Live
<1>9. Beneficiary \in Address
  BY TransactionAssumption, MachineAssumption
  DEF TransactionAssumption, MachineAssumption
<1> HIDE DEF back, reward, burned, s
<1>10. /\ Refunded \in AccountMap
       /\ TotalBalance(Refunded) = TotalBalance(world) + back
       /\ Balance(world, s) <= Balance(Refunded, s)
       /\ NoEmpties(world) => NoEmpties(Refunded)
  BY <1>1, <1>3, <1>6, <1>7, <1>8, IncreaseMoney DEF s
<1>11. /\ Rewarded \in AccountMap
       /\ TotalBalance(Rewarded) = TotalBalance(world) + back + reward
       /\ Balance(Refunded, s) <= Balance(Rewarded, s)
       /\ NoEmpties(Refunded) => NoEmpties(Rewarded)
  <2>1. CASE reward = 0
    <3>1. Rewarded = Refunded
      BY <1>7, <2>1 DEF Rewarded
    <3>2. Balance(Refunded, s) \in Nat
      BY <1>1, <1>10, TotalType
    <3> QED BY <1>3, <1>4, <1>10, <2>1, <3>1, <3>2
  <2>2. CASE reward # 0
    <3>1. Rewarded = IncreaseBalance(Refunded, Beneficiary, reward)
      BY <1>7, <2>2 DEF Rewarded
    <3>2. TotalBalance(Refunded) + reward < WordSize
      BY <1>6, <1>10
    <3> QED BY <1>1, <1>3, <1>9, <1>10, <2>2, <3>1, <3>2, IncreaseMoney
  <2> QED BY <2>1, <2>2
<1>12. /\ Settled \in AccountMap
       /\ TotalBalance(Settled) <= TotalBalance(Rewarded)
       /\ sub.selfDestructSet = {} => TotalBalance(Settled) = TotalBalance(Rewarded)
       /\ Balance(Settled, s) = Balance(Rewarded, s)
       /\ NoEmpties(Rewarded) => NoEmpties(Settled)
  BY <1>1, <1>8, SettledMoney
<1>13. /\ TotalBalance(Settled) \in Nat /\ Balance(Settled, s) \in Nat
       /\ Balance(Refunded, s) \in Nat
  BY <1>1, <1>10, <1>12, TotalType
<1>14. /\ TotalBalance(Settled) + (burned + blob) <= TotalBalance(state)
       /\ sub.selfDestructSet = {} =>
            TotalBalance(Settled) + (burned + blob) = TotalBalance(state)
       /\ burned + blob \in Nat
  BY <1>2, <1>3, <1>4, <1>11, <1>12, <1>13
<1>15. Balance(origin, s) <= Balance(world, s) + tx.value
  BY DEF MoneyInv, SenderKeeps, Kept, s
<1>16. Balance(state, s) <= Balance(Settled, s) + UpfrontCost(tx)
  BY <1>2, <1>4, <1>10, <1>11, <1>12, <1>13, <1>15
<1>17. gasUsed + TransactionGasUsed <= BlockGasLimit
  <2>1. BlockGasLimit \in Nat /\ tx.gasLimit \in Nat
    BY <1>1, TransactionFields, TransactionAssumption DEF TransactionAssumption
  <2> QED BY <1>1, <1>3, <2>1
<1> QED BY <1>3, <1>5, <1>10, <1>11, <1>12, <1>13, <1>14, <1>16, <1>17 DEF s

\* Nothing has been bought yet.
LEMMA MoneyStarts == BlockInit => MoneyInv
<1> SUFFICES ASSUME BlockInit PROVE MoneyInv
  OBVIOUS
<1>1. BlockInv /\ GasInv /\ EtherInv /\ SparseInv
  BY BlockStarts, GasInit, EtherInit DEF BlockInit
<1>2. TotalBalance(state) < WordSize
  BY <1>1 DEF BlockInit, EtherInv
<1>3. gasUsed \in Nat /\ phase = "validate" /\ status = "idle"
  BY DEF BlockInit, Init
<1> QED BY <1>1, <1>2, <1>3 DEF MoneyInv, Affordable, GasBought, SenderKeeps

\* A machine that has no transaction yet: its money.
LEMMA FreshMoney ==
  ASSUME origin' \in AccountMap, world' = origin', Len(frames') = 0,
         halt' = Running, status' = "idle", TotalBalance(origin') < WordSize
  PROVE  GasInv' /\ EtherInv' /\ SparseInv'
<1>1. GasInv'
  BY DEF GasInv, Solvent, FuelSufficient
<1>2. TotalBalance(origin') \in Nat
  BY TotalType
<1>3. Conserved(world, sub)'
  BY <1>2 DEF Conserved
<1> QED BY <1>1, <1>3 DEF EtherInv, SparseInv

\* A payment keeps it.
LEMMA PayMoney ==
  ASSUME MoneyInv, NEW T \in Transactions, Pay(T)
  PROVE  MoneyInv' /\ (FilledInv => FilledInv')
<1>1. /\ phase' = "execute" /\ world' = origin' /\ tx' = T
      /\ origin' = [state EXCEPT ![T.sender] = PaidSender(T)]
      /\ UNCHANGED <<frames, halt, status, state, gasUsed>>
      /\ phase = "validate" /\ Valid(T)
  BY DEF Pay
<1>2. /\ BaseFee <= T.maxFee /\ ValidKind(T)
      /\ UpfrontCost(T) <= Balance(state, T.sender)
      /\ T.gasLimit + gasUsed <= BlockGasLimit
  BY <1>1 DEF Valid, Balance
<1>3. /\ TypeOK /\ state \in AccountMap /\ status = "idle" /\ frames = <<>>
      /\ halt = Running /\ TotalBalance(state) < WordSize /\ gasUsed \in Nat
  BY <1>1 DEF MoneyInv, BlockInv, Phases, TypeOK, AccountInv
<1>4. BlockInv'
  BY PayStep DEF MoneyInv
<1>5. /\ T.sender \in Address /\ T.value \in Nat
      /\ origin' \in AccountMap
  <2>1. T.sender \in Address /\ T.value \in Nat
    BY TransactionFields DEF Uint
  <2>2. [state EXCEPT ![T.sender] = PaidSender(T)] \in AccountMap
    BY <1>3, PaidState
  <2> QED BY <1>1, <2>1, <2>2
<1>6. /\ TotalBalance(origin') < WordSize
      /\ NoEmpties(state) => NoEmpties(origin')
  <2> DEFINE gas == T.gasLimit * EffectiveGasPrice(T)
  <2>1. /\ TotalBalance(origin') + gas + BlobFee(T) = TotalBalance(state)
        /\ NoEmpties(state) => NoEmpties(origin')
    BY <1>1, <1>2, <1>3, PaidTotal
  <2>2. gas \in Nat /\ BlobFee(T) \in Nat
    BY <1>2, CostFacts
  <2> HIDE DEF gas
  <2>3. TotalBalance(origin') \in Nat /\ TotalBalance(state) \in Nat
    BY <1>3, <1>5, TotalType
  <2> QED BY <1>3, <2>1, <2>2, <2>3, WordSizeAssumption DEF WordSizeAssumption
<1>7. Len(frames') = 0
  BY <1>1, <1>3, EmptySeq
<1>8. GasInv' /\ EtherInv' /\ SparseInv'
  BY <1>1, <1>3, <1>5, <1>6, <1>7, FreshMoney
<1>9. Affordable' /\ GasBought'
  <2>1. status' = "idle"
    BY <1>1, <1>3
  <2> QED BY <1>1, <1>2, <2>1
      DEF Affordable, GasBought, ValidKind, UpfrontCost, TotalBlobGas
<1>10. SenderKeeps'
  <2>1. Balance(origin', T.sender) \in Nat
    BY <1>5, TotalType
  <2>2. Balance(origin', T.sender) <= Balance(world', T.sender) + T.value
    BY <1>1, <1>5, <2>1
  <2> QED BY <1>1, <1>7, <2>2 DEF SenderKeeps, Kept
<1>11. TotalBalance(state') < WordSize /\ gasUsed' \in Nat
  BY <1>1, <1>3
<1> QED BY <1>1, <1>4, <1>6, <1>8, <1>9, <1>10, <1>11 DEF MoneyInv, FilledInv

\* The machine runs.
LEMMA ExecuteMoney ==
  ASSUME MoneyInv, Execute
  PROVE  MoneyInv' /\ (FilledInv => FilledInv')
<1> DEFINE g == tx.gasLimit - tx.intrinsic
           s == tx.sender
<1>1. /\ phase = "execute" /\ UNCHANGED <<state, tx, gasUsed>>
      /\ phase' = IF status' = "done" THEN "settle" ELSE "execute"
  BY DEF Execute
<1>2. /\ TypeOK /\ AccountInv /\ GasInv /\ EtherInv /\ SparseInv /\ BlockInv
      /\ Phases /\ Paid /\ status # "done" /\ gasUsed \in Nat
      /\ TotalBalance(state) < WordSize /\ Affordable /\ GasBought /\ SenderKeeps
  BY <1>1 DEF MoneyInv, BlockInv, Phases
<1>3. BlockInv' /\ TypeOK'
  BY <1>2, ExecuteStep DEF BlockInv
<1>4. s \in Sender(origin) /\ s \in Address /\ tx \in Transactions /\ origin \in AccountMap
  BY <1>1, <1>2, SenderIsPlain DEF TypeOK
<1>5. /\ g \in Nat /\ tx.value \in Uint /\ tx.value \in Nat
      /\ tx.recipient \in Address \cup {NoRecipient}
  BY <1>1, <1>2, <1>4, TransactionFields DEF Paid, Uint
<1> HIDE DEF g
<1>6. \/ \E a \in Address : \/ StartCall(s, a, tx.value, g)
                            \/ StartCreate(s, a, tx.value, g)
      \/ Instruction \/ Resume
      \/ Finish
  BY <1>5 DEF Execute, g
<1> HIDE DEF s
<1>7. Balance(origin, s) \in Nat
  BY <1>4, TotalType
<1>8. /\ Kept(world) /\ \A k \in 1 .. Len(frames) : Kept(frames[k].world)
  BY <1>1, <1>2 DEF SenderKeeps
<1>9. /\ GasInv' /\ EtherInv' /\ SparseInv' /\ origin' = origin
      /\ Balance(origin, s) <= Balance(world', s) + tx.value
      /\ \A k \in 1 .. Len(frames') : Balance(origin, s) <= Balance(frames'[k].world, s) + tx.value
      /\ status' = "running" => frames'[1].given = g
      /\ status' = "done" => halt'.gas <= g
  <2>1. ASSUME NEW a \in Address,
               StartCall(s, a, tx.value, g) \/ StartCreate(s, a, tx.value, g)
        PROVE  <1>9!:
    <3>1. /\ status = "idle" /\ status' = "running" /\ halt' = halt /\ origin' = origin
      BY <2>1 DEF StartCall, StartCreate
    <3>2. GasInv'
      BY <1>2, <1>5, <2>1, <3>1, StartGas
      DEF StartCall, StartCreate, ThetaFrame, LambdaFrame
    <3>3. EtherInv' /\ SparseInv'
      BY <1>2, <1>4, <1>5, <2>1, StartEther
    <3>4. /\ Balance(origin, s) <= Balance(world', s) + tx.value
          /\ Len(frames') = 1 /\ frames'[1].world = origin /\ frames'[1].given = g
      BY <1>2, <1>4, <1>5, <2>1, BeginPays
    <3> QED BY <1>5, <1>7, <3>1, <3>2, <3>3, <3>4
  <2>2. CASE Instruction \/ Resume \/ Finish
    <3>1. /\ Next /\ status = "running"
      BY <2>2, MachineGoesOn DEF Next, Finish
    <3>2. GasInv' /\ EtherInv' /\ SparseInv' /\ origin' = origin
      BY <1>2, <1>3, <3>1, GasStep, EtherStep, OriginStays
    <3>3. /\ Balance(origin, s) <= Balance(world, s) + tx.value
          /\ \A k \in 1 .. Len(frames) :
               Balance(origin, s) <= Balance(frames[k].world, s) + tx.value
      BY <1>8 DEF Kept, s
    <3>4. /\ Balance(origin, s) <= Balance(world', s) + tx.value
          /\ \A k \in 1 .. Len(frames') :
               Balance(origin, s) <= Balance(frames'[k].world, s) + tx.value
          /\ Len(frames') > 0 => frames'[1].given = frames[1].given
      BY <1>2, <1>3, <1>4, <1>5, <1>7, <2>2, <3>3, StepsKeep
    <3>5. frames[1].given = g
      BY <1>2, <3>1 DEF GasBought, g
    <3>6. status' = "running" => Len(frames') > 0
      BY <1>3 DEF TypeOK
    <3>7. ASSUME status' = "done" PROVE halt'.gas <= g
      <4>1. Finish
        BY <2>2, <3>7, MachineGoesOn
      <4>2. /\ halt' = [halt EXCEPT !.gas = FrameResult.gas] /\ Len(frames) = 1
        BY <4>1 DEF Finish
      <4>3. halt'.gas = FrameResult.gas
        BY <1>2, <4>2 DEF TypeOK, Halt
      <4>4. FrameResult.gas <= halt.gas /\ FrameResult.gas \in Nat
        BY <1>2, <3>1, ResultTypes
      <4>5. /\ halt.gas <= Top.gas /\ Top.gas <= Top.given
            /\ halt.gas \in Nat /\ Top.gas \in Nat /\ Top.given \in Nat
        BY <1>2, <3>1, <4>2, TopType DEF GasInv, Solvent, Top, TypeOK, Halt, Frame
      <4>6. Top.given = g
        BY <3>5, <4>2 DEF Top
      <4> QED BY <4>3, <4>4, <4>5, <4>6
    <3> QED BY <3>2, <3>4, <3>5, <3>6, <3>7
  <2> QED BY <1>6, <2>1, <2>2
<1>10. Affordable'
  BY <1>1, <1>2 DEF Affordable, ValidKind, UpfrontCost, TotalBlobGas
<1>11. GasBought'
  BY <1>1, <1>9 DEF GasBought, g
<1>12. SenderKeeps'
  BY <1>1, <1>9 DEF SenderKeeps, Kept, s
<1> QED BY <1>1, <1>2, <1>3, <1>9, <1>10, <1>11, <1>12 DEF MoneyInv, FilledInv

\* A transaction is settled.
LEMMA SettleKeepsMoney ==
  ASSUME MoneyInv, Settle
  PROVE  MoneyInv' /\ (FilledInv => FilledInv')
<1>1. /\ phase = "settle" /\ phase' = "validate" /\ state' = Settled
      /\ gasUsed' = gasUsed + TransactionGasUsed
      /\ origin' = state' /\ world' = state' /\ halt' = Running
      /\ status' = "idle" /\ frames' = frames
  BY DEF Settle, Reset
<1>2. /\ TypeOK /\ tx \in Transactions /\ frames = <<>> /\ gasUsed \in Nat
      /\ state \in AccountMap /\ TotalBalance(state) < WordSize
      /\ NoEmpties(origin) => NoEmpties(world)
  BY <1>1 DEF MoneyInv, SparseInv, BlockInv, Phases, Paid, TypeOK
<1>3. BlockInv'
  BY SettleStep DEF MoneyInv
<1>4. /\ Burned \in Nat /\ TransactionGasUsed \in Nat /\ TotalBalance(Settled) \in Nat
      /\ TotalBalance(Settled) + Burned <= TotalBalance(state)
      /\ NoEmpties(world) => NoEmpties(Settled)
  BY <1>1, SettleMoney
<1>5. TotalBalance(Settled) < WordSize
  BY <1>2, <1>4, TotalType, WordSizeAssumption DEF WordSizeAssumption
<1>6. Settled \in AccountMap
  BY <1>2, SettledFacts
<1>7. Len(frames') = 0
  BY <1>1, <1>2, EmptySeq
<1>8. GasInv' /\ EtherInv' /\ SparseInv'
  BY <1>1, <1>5, <1>6, <1>7, FreshMoney
<1>9. Affordable' /\ GasBought' /\ SenderKeeps'
  BY <1>1 DEF Affordable, GasBought, SenderKeeps
<1>10. gasUsed' \in Nat /\ TotalBalance(state') < WordSize
  BY <1>1, <1>2, <1>4, <1>5
<1>11. NoEmpties(origin) => NoEmpties(origin') /\ NoEmpties(state')
  BY <1>1, <1>2, <1>4
<1> QED BY <1>3, <1>8, <1>9, <1>10, <1>11 DEF MoneyInv, FilledInv

\* A step of something else.
LEMMA MoneyStutters ==
  ASSUME MoneyInv, UNCHANGED allVars
  PROVE  MoneyInv' /\ (FilledInv => FilledInv')
<1>1. UNCHANGED vars /\ UNCHANGED <<state, phase, tx, gasUsed, executed>>
  BY DEF allVars, blockVars
<1>2. /\ UNCHANGED <<origin, frames, world, sub, halt, status>> /\ [Next]_vars
  BY <1>1 DEF vars
<1>3. TypeOK /\ TypeOK' /\ BlockInv'
  BY BlockStutters DEF MoneyInv, BlockInv
<1>4. GasInv' /\ EtherInv' /\ SparseInv'
  BY <1>2, <1>3, GasStep, EtherStep DEF MoneyInv, BlockInv
<1>5. Affordable' /\ GasBought' /\ SenderKeeps'
  BY <1>1, <1>2
  DEF MoneyInv, Affordable, GasBought, SenderKeeps, Kept, ValidKind, UpfrontCost,
      TotalBlobGas
<1> QED BY <1>1, <1>2, <1>3, <1>4, <1>5 DEF MoneyInv, FilledInv

LEMMA MoneyKept ==
  MoneyInv /\ [BlockNext]_allVars => MoneyInv' /\ (FilledInv => FilledInv')
BY PayMoney, ExecuteMoney, SettleKeepsMoney, MoneyStutters DEF BlockNext

(***************************************************************************)
(* Fees: every settlement, in any block of any transactions, burns exactly *)
(* the base fee of the gas used and the blob fee, but for what newborn     *)
(* contracts took along; it never costs a sender more than what            *)
(* validateTransaction found it to have, whatever code ran; and the gas of *)
(* the block stays within its limit.  The words that pay, refund and       *)
(* reward are summed as natural numbers, so none of them has wrapped.      *)
(***************************************************************************)
THEOREM FeesAlwaysSettle == BlockSpec => FeesSettle
<1>1. BlockInit => MoneyInv
  BY MoneyStarts
<1>2. MoneyInv /\ [BlockNext]_allVars => MoneyInv'
  BY MoneyKept
<1>3. MoneyInv /\ [BlockNext]_allVars =>
        [phase = "settle" =>
           /\ TotalBalance(state') + Burned <= TotalBalance(state)
           /\ sub.selfDestructSet = {} =>
                TotalBalance(state') + Burned = TotalBalance(state)
           /\ Balance(state, tx.sender) <= Balance(state', tx.sender) + UpfrontCost(tx)
           /\ gasUsed' <= BlockGasLimit]_allVars
  <2> SUFFICES ASSUME MoneyInv, BlockNext, phase = "settle"
               PROVE  /\ TotalBalance(state') + Burned <= TotalBalance(state)
                      /\ sub.selfDestructSet = {} =>
                           TotalBalance(state') + Burned = TotalBalance(state)
                      /\ Balance(state, tx.sender)
                           <= Balance(state', tx.sender) + UpfrontCost(tx)
                      /\ gasUsed' <= BlockGasLimit
    OBVIOUS
  <2>1. state' = Settled /\ gasUsed' = gasUsed + TransactionGasUsed
    BY DEF BlockNext, Pay, Execute, Settle
  <2> QED BY <2>1, SettleMoney
<1> QED BY <1>1, <1>2, <1>3, PTL DEF BlockSpec, FeesSettle

(***************************************************************************)
(* Empty accounts: a block that begins without one never gets one, though  *)
(* touchedAccounts is always empty and Υ erases none: no transfer, no      *)
(* creation and no payment of Υ leaves an account with nothing.            *)
(***************************************************************************)
THEOREM NoAccountIsLeftEmpty == BlockSpec /\ NoEmptyAccount => []NoEmptyAccount
<1>1. BlockInit /\ NoEmptyAccount => MoneyInv /\ FilledInv
  BY MoneyStarts DEF BlockInit, NoEmptyAccount, FilledInv
<1>2. MoneyInv /\ FilledInv /\ [BlockNext]_allVars => MoneyInv' /\ FilledInv'
  BY MoneyKept
<1>3. FilledInv => NoEmptyAccount
  BY DEF FilledInv, NoEmptyAccount
<1> QED BY <1>1, <1>2, <1>3, PTL DEF BlockSpec

-----------------------------------------------------------------------------
(***************************************************************************)
(* Replay: validateTransaction accepts no transaction whose sender and     *)
(* nonce one of the block has had, in any block of any transactions, as no *)
(* execution takes a nonce back or erases the account that has it.         *)
(***************************************************************************)
THEOREM NothingIsReplayed == BlockSpec => NoReplay
<1>1. BlockInit => BlockInv
  BY BlockStarts
<1>2. BlockInv /\ [BlockNext]_allVars => BlockInv'
  BY BlockStep
<1>3. BlockInv /\ [BlockNext]_allVars =>
        [phase = "validate" /\ phase' = "execute" =>
           <<tx'.sender, tx'.nonce>> \notin executed]_allVars
  <2> SUFFICES ASSUME BlockInv, BlockNext, phase = "validate", phase' = "execute"
               PROVE  <<tx'.sender, tx'.nonce>> \notin executed
    OBVIOUS
  <2>1. PICK T \in Transactions : Pay(T)
    BY DEF BlockNext, Execute, Settle
  <2>2. tx' = T /\ T.nonce = Lookup(state, T.sender).nonce /\ T.nonce \in Nat
    BY <2>1, TransactionFields DEF Pay, Valid
  <2>3. ASSUME <<T.sender, T.nonce>> \in executed PROVE FALSE
    <3>1. T.nonce < Lookup(state, T.sender).nonce
      BY <2>3 DEF BlockInv, UsedUp
    <3> QED BY <2>2, <3>1
  <2> QED BY <2>2, <2>3
<1> QED BY <1>1, <1>2, <1>3, PTL DEF BlockSpec, NoReplay

(***************************************************************************)
(* Permanence: an account with a nonce, code or storage survives every     *)
(* transaction with its code and at least its nonce; only what the same    *)
(* transaction created is erased (EIP-6780), whatever calls what.          *)
(***************************************************************************)
THEOREM AccountsNeverGo == BlockSpec => AccountsStay
<1>1. BlockInit => BlockInv
  BY BlockStarts
<1>2. BlockInv /\ [BlockNext]_allVars => BlockInv'
  BY BlockStep
<1>3. BlockInv /\ [BlockNext]_allVars =>
        [\A a \in Address : ~Blank(state, a) =>
           /\ Exists(state', a)
           /\ state'[a].code = state[a].code
           /\ state[a].nonce <= state'[a].nonce]_allVars
  <2> SUFFICES ASSUME BlockInv, BlockNext, NEW a \in Address, ~Blank(state, a)
               PROVE  /\ Exists(state', a)
                      /\ state'[a].code = state[a].code
                      /\ state[a].nonce <= state'[a].nonce
    OBVIOUS
  <2>1. Exists(state, a) /\ Lookup(state, a) = state[a]
    BY DEF Blank, Lookup, DefaultAccount
  <2>2. CASE state' = state
    <3>1. state \in AccountMap
      BY DEF BlockInv, Phases
    <3> QED BY <2>1, <2>2, <3>1, NonceType
  <2>3. CASE Settle
    <3>1. phase = "settle" /\ state' = Settled
      BY <2>3 DEF Settle
    <3>2. /\ Exists(Settled, a) /\ Lookup(Settled, a).code = Lookup(state, a).code
          /\ Lookup(state, a).nonce <= Lookup(Settled, a).nonce
      BY <3>1, AccountSettled
    <3>3. Lookup(Settled, a) = Settled[a]
      BY <3>2 DEF Lookup
    <3> QED BY <2>1, <3>1, <3>2, <3>3
  <2> QED BY <2>2, <2>3 DEF BlockNext, Pay, Execute
<1> QED BY <1>1, <1>2, <1>3, PTL DEF BlockSpec, AccountsStay
=============================================================================
