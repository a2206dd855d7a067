----------------------- MODULE BlockImportInvariants ------------------------
(***************************************************************************)
(* What the import of blocks promises, against the meaning of a block that *)
(* BlockImport gives without regard to what was imported before it.        *)
(***************************************************************************)
EXTENDS BlockImport

(***************************************************************************)
(* A block that is accepted is valid, its parent was accepted before it,   *)
(* and the state kept with it is that of its own chain: nothing of the     *)
(* siblings, of the refused blocks and of the half-executed ones that were *)
(* imported in between is in it.                                           *)
(***************************************************************************)
AcceptedAreValid ==
    \A k \in DOMAIN acc.blocks :
        LET b == acc.blocks[k].hash
        IN  /\ acc.blocks[k] \in TrueBlocks
            /\ b # Genesis => \E j \in 1 .. k - 1 : acc.blocks[j].hash = Content[b].parent

(***************************************************************************)
(* Only a block that is not valid causes an exception, whatever was        *)
(* imported before it: each check of validateBlock refuses the header that *)
(* says something else of the block than what its chain comes to ("throw   *)
(* <| .BlockException .INVALID_LOG_BLOOM", TestRunner.lean:449, and the    *)
(* others of validateBlock).                                               *)
(***************************************************************************)
OnlyInvalidRefused ==
    thrown \notin {"none", "UNKNOWN_PARENT"} => raw.block \notin ValidBlocks

(***************************************************************************)
(* "get the hash of one of the 256 most recent blocks" (Operations.lean    *)
(* :265): a transaction that asks for the hash of an earlier number gets   *)
(* that of the ancestor of its block with this number.                     *)
(***************************************************************************)
Executing == pc = "transact" /\ Parents # {} /\ C.number = Content[C.parent].number + 1

BlockHashIsAncestor ==
    Executing => \A n \in 0 .. C.number - 1 :
        n + 256 >= C.number => BlockHash(n) = Ancestor[raw.block][n]

(***************************************************************************)
(* The same, as long as every accepted block has its parent right before   *)
(* it and the block that executes goes on from the last: the refused ones  *)
(* do not shift the numbers.                                               *)
(***************************************************************************)
OneChain ==
    /\ C.parent = acc.blocks[Len(acc.blocks)].hash
    /\ \A k \in 2 .. Len(acc.blocks) :
         Content[acc.blocks[k].hash].parent = acc.blocks[k - 1].hash

BlockHashOnOneChain ==
    Executing /\ OneChain => \A n \in 0 .. C.number - 1 :
        n + 256 >= C.number => BlockHash(n) = Ancestor[raw.block][n]

(***************************************************************************)
(* A test passes if and only if the state it expects is that of its last   *)
(* block, when this was accepted: ".none on success" (TestRunner.lean:647),*)
(* where success is to agree with lastblockhash (:657).  A fixture that    *)
(* has a state root instead is compared with the block accepted last (669),*)
(* so there the two must be the same.                                      *)
(***************************************************************************)
Comparable ==
    /\ LastMatches(post) # {}
    /\ post.kind = "Hash" => acc.blocks[Len(acc.blocks)].hash = post.last

PassesOnLastBlock ==
    pc \in {"passed", "mismatch"} /\ Comparable =>
        (pc = "passed" <=> post.state = TrueState[post.last])
-----------------------------------------------------------------------------
(***************************************************************************)
(* The logs bloom of the code is that of the last transaction: what is     *)
(* said of validity holds where no other of the block logs anything.       *)
(***************************************************************************)
Quiet ==
    \A b \in Block :
        LET txs == Content[b].txs
        IN  /\ txs # <<>>
            /\ \A i \in DOMAIN txs : TxOf[txs[i]].logs \subseteq TxOf[txs[Len(txs)]].logs

(***************************************************************************)
(* The strengthening of the above that every step keeps.  Each processed   *)
(* block has its own chain's state and its parent before it, and accState  *)
(* is that of the last.                                                    *)
(***************************************************************************)
Processed == [hash : Known, state : Seq(Event)]
Logs      == SUBSET UNION {TxOf[t].logs : t \in DOMAIN TxOf}
Receipt   == [gas : Nat, logs : Logs]
AccState  == [state : Seq(Event), blocks : Seq(Processed), gasUsed : Nat,
              receipts : Seq(Receipt), logs : Logs]

ParentsCome(bs) ==
    \A k \in 2 .. Len(bs) :
        LET b == bs[k].hash
            p == Content[b].parent
        IN  /\ b \in Block
            /\ \E j \in 1 .. k - 1 : bs[j].hash = p
            /\ Content[b].number = Content[p].number + 1

BlocksInv ==
    /\ acc.blocks # <<>>
    /\ acc.blocks[1].hash = Genesis
    /\ \A k \in DOMAIN acc.blocks : acc.blocks[k].state = TrueState[acc.blocks[k].hash]
    /\ acc.state = acc.blocks[Len(acc.blocks)].state
    /\ ParentsCome(acc.blocks)

\* The state of block b where its transaction i is next.
Before(b, i) ==
    TrueState[Content[b].parent]
        \o (IF HasBeaconRoots THEN << <<"beacon", b>> >> ELSE <<>>)
        \o [j \in 1 .. i - 1 |-> <<"tx", Content[b].txs[j]>>]

TxIsValid(b, i) ==
    LET T == TxOf[Content[b].txs[i]]
    IN  /\ T.nonce = NonceIn(TrueState[Content[b].parent]) + i - 1
        /\ GasBefore(b, i) + T.gasLimit <= Content[b].gasLimit
        /\ T.blobs <= 6

ReceiptsOf(b, n) ==
    [i \in 1 .. n |-> [gas |-> GasBefore(b, i + 1), logs |-> TxOf[Content[b].txs[i]].logs]]

\* The block that executes goes on from its parent and its transactions so far.
ExecutingInv ==
    pc \in {"transact", "validate"} =>
        /\ HeaderFailure = "none"
        /\ Parents # {}
        /\ index \in 1 .. Len(C.txs) + 1
        /\ cur.blocks = acc.blocks
        /\ cur.gasUsed = GasBefore(raw.block, index)
        /\ cur.receipts = ReceiptsOf(raw.block, index - 1)
        /\ index > 1 => cur.logs = TxOf[C.txs[index - 1]].logs
        /\ \A i \in 1 .. index - 1 : TxIsValid(raw.block, i)

StateInv ==
    /\ pc = "transact" =>
         /\ cur.state = Before(raw.block, index)
         /\ NonceIn(cur.state) = NonceIn(TrueState[C.parent]) + index - 1
    /\ pc = "validate" => index > Len(C.txs) /\ cur.state = TrueState[raw.block]

ImportInv ==
    /\ acc \in AccState /\ cur \in AccState
    /\ pc \in {"decode", "header", "transact", "validate"} => raw.block \in Block
    /\ pc \in {"header", "transact", "validate"} => C.wellFormed
    /\ BlocksInv
    /\ ExecutingInv
    /\ StateInv
    /\ PassesOnLastBlock
=============================================================================
