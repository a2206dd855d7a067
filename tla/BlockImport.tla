----------------------------- MODULE BlockImport -----------------------------
(***************************************************************************)
(* A conformance test: processBlocks, processBlock and validateBlock of    *)
(* Conform/TestRunner.lean import the blocks of a fixture one by one, some *)
(* of which must be refused, and preImpliesPost compares what they come to *)
(* with what the fixture expects.                                          *)
(*                                                                         *)
(* The blocks of a fixture form a tree: Content gives the header and the   *)
(* transactions of each hash.  A state is the sequence of what was done to *)
(* the genesis state; how one transaction changes it is Transaction's      *)
(* matter.  The transactions here are all of one sender.                   *)
(***************************************************************************)
EXTENDS BlockHeader, Functions, FiniteSets

CONSTANTS
    Fixture,        \* the blocks of the test, by their hashes
    Genesis,        \* the hash of the genesis block
    GenesisBlock,   \* which is not among them
    ZeroHash,       \* the hash 0, of no block
    TxOf,           \* the transactions, by their names
    Expectations,   \* the lists of exceptions a fixture has for a block
    PostKinds,      \* "Map" and "Hash"
    LastBlocks,     \* the blocks a fixture may have as its last one
    HasBeaconRoots, \* whether the beacon roots contract is in the state
    MaxImports      \* bound: blocks in a test

Block == DOMAIN Fixture
Known == Block \cup {Genesis}

\* The header and the transactions of each hash.
Content == [b \in Known |-> IF b = Genesis THEN GenesisBlock ELSE Fixture[b]]

Event == ({"beacon", "withdraw"} \X Block) \cup ({"tx"} \X DOMAIN TxOf)

ImportAssumption ==
    /\ Genesis \notin Block
    /\ ZeroHash \notin Known
    /\ PostKinds \subseteq {"Map", "Hash"}
    /\ LastBlocks \subseteq Known
    /\ HasBeaconRoots \in BOOLEAN
    /\ MaxImports \in Nat

(***************************************************************************)
(* What the fields of a header and of a transaction are.  A transaction    *)
(* uses no more gas than its limit, and no block is its own ancestor, as   *)
(* the hash of a block is taken with that of its parent in it.             *)
(***************************************************************************)
ContentAssumption ==
    /\ \A t \in DOMAIN TxOf :
         /\ {TxOf[t].nonce, TxOf[t].gasLimit, TxOf[t].blobs} \subseteq Nat
         /\ TxOf[t].gasUsed \in 0 .. TxOf[t].gasLimit
    /\ \A b \in Known :
         /\ {Content[b].number, Content[b].gasLimit, Content[b].gasUsed} \subseteq Nat
         /\ Content[b].txs \in Seq(DOMAIN TxOf)
    /\ GenesisBlock.number = 0
    /\ \A S \in (SUBSET Block) \ {{}} : \E b \in S : Content[b].parent \notin S

ASSUME ImportAssumption
ASSUME ContentAssumption

VARIABLES
    acc,     \* accState, what the blocks accepted so far have come to
    cur,     \* the state of the block that is being imported
    raw,     \* that block, and the exceptions it is expected to cause
    pc,      \* where its import is, or what the test came to
    index,   \* its transaction that is next
    thrown,  \* the last exception
    imports, \* blocks begun
    post     \* what the test expects at its end

vars == <<acc, cur, raw, pc, index, thrown, imports, post>>

C == Content[raw.block]

ToProcessed(b, s) == [hash |-> b, state |-> s]

\* findRev?
Parents == {k \in DOMAIN acc.blocks : acc.blocks[k].hash = C.parent}
Parent  == acc.blocks[CHOOSE k \in Parents : \A j \in Parents : j <= k]

\* The exception of the first check that fails, or "none".
FirstFailure(checks) ==
    LET failed == {i \in DOMAIN checks : ~checks[i][1]}
    IN  IF failed = {} THEN "none"
        ELSE checks[CHOOSE i \in failed : \A j \in failed : i <= j][2]

SumOf(s) == SumFunction(s)

-----------------------------------------------------------------------------
(***************************************************************************)
(* catch: an exception the fixture names ends the import of the block, and *)
(* accState is what it was; any other ends the test.                       *)
(***************************************************************************)
Select(e) ==
    IF /\ e = "TYPE_3_TX_BLOB_COUNT_EXCEEDED"
       /\ "TYPE_3_TX_MAX_BLOB_GAS_ALLOWANCE_EXCEEDED" \in raw.exception
      THEN "TYPE_3_TX_MAX_BLOB_GAS_ALLOWANCE_EXCEEDED"
      ELSE e

Catch(e) ==
    /\ thrown' = e
    /\ pc' = IF Select(e) \in raw.exception THEN "next" ELSE "error"
    /\ UNCHANGED <<acc, cur, raw, index, imports, post>>

\* deserializeRawBlock
Begin ==
    /\ pc = "next"
    /\ imports < MaxImports
    /\ \E b \in Block, e \in Expectations : raw' = [block |-> b, exception |-> e]
    /\ imports' = imports + 1
    /\ thrown' = "none"
    /\ pc' = "decode"
    /\ UNCHANGED <<acc, cur, index, post>>

Decode ==
    /\ pc = "decode"
    /\ \/ /\ C.wellFormed
          /\ pc' = "header"
          /\ UNCHANGED <<acc, cur, raw, index, thrown, imports, post>>
       \/ /\ ~C.wellFormed
          /\ Catch("RLP_STRUCTURES_ENCODING")

-----------------------------------------------------------------------------
\* Mutant: the base fee is not looked at.
HeaderFailureAnyFee ==
    CASE C.parent = ZeroHash -> "UNKNOWN_PARENT_ZERO"
      [] C.parent # ZeroHash /\ Parents = {} -> "UNKNOWN_PARENT"
      [] OTHER ->
           LET P == Content[Parent.hash]
           IN  FirstFailure(<<
                 <<GasLimitWithin(P, C),                   "INVALID_GASLIMIT">>,
                 <<C.excessBlobGas = CalcExcessBlobGas(P), "INCORRECT_EXCESS_BLOB_GAS">>,
                 <<C.gasUsed <= C.gasLimit,                "GAS_USED_OVERFLOW">> >>)

HeaderFailure ==
    CASE C.parent = ZeroHash -> "UNKNOWN_PARENT_ZERO"
      [] C.parent # ZeroHash /\ Parents = {} -> "UNKNOWN_PARENT"
      [] OTHER ->
           LET P == Content[Parent.hash]
           IN  FirstFailure(<<
                 <<GasLimitWithin(P, C),                   "INVALID_GASLIMIT">>,
                 <<C.baseFee = ExpectedBaseFee(P),         "INVALID_BASEFEE_PER_GAS">>,
                 <<C.excessBlobGas = CalcExcessBlobGas(P), "INCORRECT_EXCESS_BLOB_GAS">>,
                 <<C.gasUsed <= C.gasLimit,                "GAS_USED_OVERFLOW">> >>)

\* The system call that stores the root of the parent beacon block.
Beacon(s) == IF HasBeaconRoots THEN Append(s, <<"beacon", raw.block>>) ELSE s

\* Mutant: the state of the last block, and not of the parent.
OnLastBlock ==
    [acc EXCEPT !.state = Beacon(acc.state), !.gasUsed = 0, !.receipts = <<>>]

\* accState on the state of the parent, where the transactions begin.
OnParent ==
    [acc EXCEPT !.state = Beacon(Parent.state), !.gasUsed = 0, !.receipts = <<>>]

\* validateHeaderBeforeTransactions, and processBlock before the transactions.
ValidateHeader ==
    /\ pc = "header"
    /\ \/ /\ HeaderFailure = "none"
          /\ cur' = OnParent
          /\ index' = 1
          /\ pc' = "transact"
          /\ UNCHANGED <<acc, raw, thrown, imports, post>>
       \/ HeaderFailure # "none" /\ Catch(HeaderFailure)

-----------------------------------------------------------------------------
NonceIn(s) == Cardinality({k \in DOMAIN s : s[k][1] = "tx"})

\* Of validateTransaction, what a block can change.
TransactionFailure(T) ==
    FirstFailure(<<
        <<T.gasLimit + cur.gasUsed <= C.gasLimit, "GAS_ALLOWANCE_EXCEEDED">>,
        <<T.blobs <= 6,                           "TYPE_3_TX_BLOB_COUNT_EXCEEDED">>,
        <<T.nonce >= NonceIn(cur.state),          "NONCE_MISMATCH_TOO_LOW">>,
        <<T.nonce <= NonceIn(cur.state),          "NONCE_MISMATCH_TOO_HIGH">> >>)

\* executeTransaction: the substate is that of this transaction.
Executed(t) ==
    LET T == TxOf[t]
    IN  [cur EXCEPT
           !.state    = Append(@, <<"tx", t>>),
           !.gasUsed  = @ + T.gasUsed,
           !.receipts = Append(@, [gas |-> cur.gasUsed + T.gasUsed, logs |-> T.logs]),
           !.logs     = T.logs]

Transact ==
    /\ pc = "transact"
    /\ index <= Len(C.txs)
    /\ LET t == C.txs[index]
           e == TransactionFailure(TxOf[t])
       IN  \/ /\ e = "none"
              /\ cur' = Executed(t)
              /\ index' = index + 1
              /\ UNCHANGED <<acc, raw, pc, thrown, imports, post>>
           \/ e # "none" /\ Catch(e)

Withdraw ==
    /\ pc = "transact"
    /\ index > Len(C.txs)
    /\ cur' = [cur EXCEPT !.state = IF C.withdraws
                                      THEN Append(@, <<"withdraw", raw.block>>) ELSE @]
    /\ pc' = "validate"
    /\ UNCHANGED <<acc, raw, index, thrown, imports, post>>

-----------------------------------------------------------------------------
BlobGas(b) == SumOf([i \in DOMAIN Content[b].txs |-> TxOf[Content[b].txs[i]].blobs])

\* validateBlock; `sealed' are extra data, difficulty, ommers and the cap of
\* the gas limit, `bodied' the roots of transactions and withdrawals.
BlockFailure ==
    LET P == Content[Parent.hash]
    IN  FirstFailure(<<
          <<BlobGas(raw.block) <= MaxBlobGas,    "TYPE_3_TX_MAX_BLOB_GAS_ALLOWANCE_EXCEEDED">>,
          <<cur.gasUsed = C.gasUsed,             "INVALID_GAS_USED">>,
          <<C.timestamp > P.timestamp,           "INVALID_BLOCK_TIMESTAMP_OLDER_THAN_PARENT">>,
          <<C.number = P.number + 1,             "INVALID_BLOCK_NUMBER">>,
          <<C.sealed,                            "EXTRA_DATA_TOO_BIG">>,
          <<BlobGas(raw.block) = C.blobGasUsed,  "INCORRECT_BLOB_GAS_USED">>,
          <<cur.state = C.stateRoot,             "INVALID_STATE_ROOT">>,
          <<cur.logs = C.logsBloom,              "INVALID_LOG_BLOOM">>,
          <<C.bodied,                            "INVALID_TRANSACTIONS_ROOT">>,
          <<cur.receipts = C.receipts,           "INVALID_RECEIPTS_ROOT">> >>)

Accept ==
    /\ acc' = [cur EXCEPT !.blocks = Append(@, ToProcessed(raw.block, cur.state))]
    /\ pc' = "next"
    /\ UNCHANGED <<cur, raw, index, thrown, imports, post>>

\* An exception that did not happen: MissedExpectedException is thrown on.
Missed ==
    /\ pc' = "error"
    /\ UNCHANGED <<acc, cur, raw, index, thrown, imports, post>>

ValidateBlock ==
    /\ pc = "validate"
    /\ \/ BlockFailure # "none" /\ Catch(BlockFailure)
       \/ BlockFailure = "none" /\ raw.exception # {} /\ Missed
       \/ BlockFailure = "none" /\ raw.exception = {} /\ Accept

-----------------------------------------------------------------------------
(***************************************************************************)
(* BLOCKHASH of a transaction: the list of processed blocks is indexed     *)
(* with the number of the block.                                           *)
(***************************************************************************)
\* Mutant: counted from the block after the genesis block.
BlockHashFromOne(n) ==
    IF n >= C.number \/ n + 256 < C.number \/ n + 2 > Len(acc.blocks)
      THEN ZeroHash
      ELSE acc.blocks[n + 2].hash

BlockHash(n) ==
    IF n >= C.number \/ n + 256 < C.number \/ n + 1 > Len(acc.blocks)
      THEN ZeroHash
      ELSE acc.blocks[n + 1].hash

-----------------------------------------------------------------------------
(***************************************************************************)
(* What a block means, whatever was imported before it: the states and the *)
(* validity of the chain it ends.                                          *)
(***************************************************************************)
StateOn(s, b) ==
    LET c        == Content[b]
        beacon   == IF HasBeaconRoots THEN << <<"beacon", b>> >> ELSE <<>>
        withdraw == IF c.withdraws THEN << <<"withdraw", b>> >> ELSE <<>>
    IN  s \o beacon \o [i \in DOMAIN c.txs |-> <<"tx", c.txs[i]>>] \o withdraw

TrueState[b \in Known] ==
    IF b = Genesis \/ Content[b].parent \notin Known THEN <<>>
    ELSE StateOn(TrueState[Content[b].parent], b)

\* The ancestor of a block with a number, if the numbers are right.
Ancestor[b \in Known] ==
    [n \in 0 .. Content[b].number |->
        IF n = Content[b].number \/ Content[b].parent \notin Known \/ n > Content[Content[b].parent].number
          THEN b ELSE Ancestor[Content[b].parent][n]]

GasBefore(b, i) == SumOf([j \in 1 .. i - 1 |-> TxOf[Content[b].txs[j]].gasUsed])

ValidOn(P, p, b) ==
    LET c  == Content[b]
        Tx(i) == TxOf[c.txs[i]]
        n  == Len(c.txs)
    IN  /\ c.wellFormed /\ c.sealed /\ c.bodied
        /\ c.number = P.number + 1 /\ c.timestamp > P.timestamp
        /\ GasLimitWithin(P, c)
        /\ c.baseFee = ExpectedBaseFee(P)
        /\ c.excessBlobGas = CalcExcessBlobGas(P)
        /\ \A i \in 1 .. n :
             /\ Tx(i).nonce = NonceIn(TrueState[p]) + i - 1
             /\ GasBefore(b, i) + Tx(i).gasLimit <= c.gasLimit
             /\ Tx(i).blobs <= 6
        /\ c.gasUsed = GasBefore(b, n + 1)
        /\ c.blobGasUsed = BlobGas(b) /\ BlobGas(b) <= MaxBlobGas
        /\ c.stateRoot = TrueState[b]
        /\ c.logsBloom = UNION {Tx(i).logs : i \in 1 .. n}
        /\ c.receipts = [i \in 1 .. n |-> [gas |-> GasBefore(b, i + 1), logs |-> Tx(i).logs]]

Valid[b \in Known] ==
    \/ b = Genesis
    \/ LET p == Content[b].parent
       IN  p \in Known /\ Valid[p] /\ ValidOn(Content[p], p, b)

ValidBlocks == {b \in Known : Valid[b]}
TrueBlocks  == {ToProcessed(b, TrueState[b]) : b \in ValidBlocks}

-----------------------------------------------------------------------------
(***************************************************************************)
(* preImpliesPost: at the end the state is compared with the one that the  *)
(* fixture has for its last block, or its root with the root of that.      *)
(* Nothing reads them before, so they are chosen here.                     *)
(***************************************************************************)
Posts == [kind : PostKinds, last : LastBlocks, state : {TrueState[b] : b \in LastBlocks}]

LastMatches(p) == {k \in DOMAIN acc.blocks : acc.blocks[k].hash = p.last}

LastState(p) ==
    IF LastMatches(p) = {} THEN acc.state
    ELSE acc.blocks[CHOOSE k \in LastMatches(p) : \A j \in LastMatches(p) : j <= k].state

\* Mutant: both forms are compared with the state at the end.
ResultOfEnd(p) == acc.state

Result(p) == IF p.kind = "Map" THEN LastState(p) ELSE acc.state

Compare ==
    /\ pc = "next"
    /\ \E p \in Posts :
         /\ post' = p
         /\ pc' = IF Result(p) = p.state THEN "passed" ELSE "mismatch"
    /\ UNCHANGED <<acc, cur, raw, index, thrown, imports>>

-----------------------------------------------------------------------------
Init ==
    /\ acc = [state |-> <<>>, blocks |-> <<ToProcessed(Genesis, <<>>)>>,
              gasUsed |-> 0, receipts |-> <<>>, logs |-> {}]
    /\ cur = acc
    /\ raw = [block |-> CHOOSE b \in Block : TRUE, exception |-> {}]
    /\ pc = "next"
    /\ index = 1
    /\ thrown = "none"
    /\ imports = 0
    /\ post = [kind |-> "Map", last |-> Genesis, state |-> <<>>]

Next ==
    \/ Begin
    \/ Decode
    \/ ValidateHeader
    \/ Transact
    \/ Withdraw
    \/ ValidateBlock
    \/ Compare

Spec == Init /\ [][Next]_vars
=============================================================================
