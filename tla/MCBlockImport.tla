--------------------------- MODULE MCBlockImport ----------------------------
(***************************************************************************)
(* Instances of the import of blocks for TLC: on the genesis block blockA  *)
(* and its sibling blockD; on blockA its child blockB, and on blockB its   *)
(* child blockC; each lie is blockB with one field of its header false.    *)
(***************************************************************************)
EXTENDS BlockImportInvariants, TLC

CONSTANTS blockA, blockB, blockC, blockD, orphan, zero,
          lieRoot, lieGas, lieNumber, lieFee, lieReceipts, lieBody, lieNonce, lieBlobs, lieLimit, garbled,
          t0, t1, t2, t3, u0, big

Tx(nonce, gas, logs, blobs) ==
    [nonce |-> nonce, gasLimit |-> gas + 500, gasUsed |-> gas, logs |-> logs,
     blobs |-> blobs]

LoudTxs ==
    t0 :> Tx(0, 2000, {t0}, 0) @@ t1 :> Tx(1, 1000, {t1}, 1) @@
    t2 :> Tx(2, 2000, {t2}, 2) @@
    t3 :> Tx(3, 1500, {t3}, 1) @@ u0 :> Tx(0, 4000, {u0}, 4) @@
    big :> Tx(2, 3000, {}, 7)

\* The same, but only the last transactions of the blocks that end a chain log.
QuietTxs == [t \in DOMAIN LoudTxs |->
               IF t \in {t3, u0} THEN LoudTxs[t] ELSE [LoudTxs[t] EXCEPT !.logs = {}]]

GenesisContent ==
    [parent |-> zero, number |-> 0, timestamp |-> 0, gasLimit |-> 6000,
     gasUsed |-> 0, baseFee |-> 64, excessBlobGas |-> 0, blobGasUsed |-> 0,
     stateRoot |-> <<>>, logsBloom |-> {}, receipts |-> <<>>, txs |-> <<>>,
     withdraws |-> FALSE, sealed |-> TRUE, bodied |-> TRUE, wellFormed |-> TRUE]

\* The block that is valid on a parent, of which only the state is not said.
On(p, parent, txs, withdraws, state) ==
    LET n == Len(txs)
        Gas(i) == SumOf([j \in 1 .. i |-> TxOf[txs[j]].gasUsed])
    IN  [parent |-> p, number |-> parent.number + 1, timestamp |-> parent.timestamp + 1,
         gasLimit |-> parent.gasLimit, gasUsed |-> Gas(n),
         baseFee |-> ExpectedBaseFee(parent),
         excessBlobGas |-> CalcExcessBlobGas(parent),
         blobGasUsed |-> SumOf([j \in 1 .. n |-> TxOf[txs[j]].blobs]),
         stateRoot |-> state, logsBloom |-> UNION {TxOf[txs[j]].logs : j \in 1 .. n},
         receipts |-> [j \in 1 .. n |-> [gas |-> Gas(j), logs |-> TxOf[txs[j]].logs]],
         txs |-> txs, withdraws |-> withdraws, sealed |-> TRUE, bodied |-> TRUE,
         wellFormed |-> TRUE]

\* The state after a block on one whose state is s.
After(s, h, txs, withdraws) ==
    s \o << <<"beacon", h>> >> \o [i \in DOMAIN txs |-> <<"tx", txs[i]>>]
      \o IF withdraws THEN << <<"withdraw", h>> >> ELSE <<>>

Tree ==
    LET sa == After(<<>>, blockA, <<t0>>, TRUE)
        sb == After(sa, blockB, <<t1, t2>>, FALSE)
        sc == After(sb, blockC, <<t3>>, FALSE)
        sd == After(<<>>, blockD, <<u0>>, FALSE)
        A  == On(Genesis, GenesisContent, <<t0>>, TRUE, sa)
        B(h, txs) == On(blockA, A, txs, FALSE, After(sa, h, txs, FALSE))
        T  == <<t1, t2>>
    IN  blockA :> A @@ blockB :> B(blockB, T) @@
        blockC :> On(blockB, B(blockB, T), <<t3>>, FALSE, sc) @@
        blockD :> On(Genesis, GenesisContent, <<u0>>, FALSE, sd) @@
        orphan :> [A EXCEPT !.parent = zero] @@
        lieRoot     :> [B(lieRoot, T) EXCEPT !.stateRoot = sa] @@
        lieGas      :> [B(lieGas, T) EXCEPT !.gasUsed = @ - 1] @@
        lieNumber   :> [B(lieNumber, T) EXCEPT !.number = 3] @@
        lieFee      :> [B(lieFee, T) EXCEPT !.baseFee = 64] @@
        lieReceipts :> [B(lieReceipts, T) EXCEPT !.receipts = <<>>] @@
        lieBody     :> [B(lieBody, T) EXCEPT !.bodied = FALSE] @@
        lieNonce    :> B(lieNonce, <<t2, t1>>) @@
        lieBlobs    :> B(lieBlobs, <<t1, big>>) @@
        lieLimit    :> [B(lieLimit, T) EXCEPT !.gasLimit = 3100] @@
        garbled     :> [B(garbled, T) EXCEPT !.wellFormed = FALSE]

LastOnes == {Genesis, blockA, blockB, blockC, blockD}

ExpectedLists ==
    {{}, {"UNKNOWN_PARENT", "UNKNOWN_PARENT_ZERO"},
     {"INVALID_STATE_ROOT", "INVALID_GAS_USED", "INVALID_BLOCK_NUMBER"},
     {"INVALID_BASEFEE_PER_GAS", "INVALID_RECEIPTS_ROOT", "INVALID_TRANSACTIONS_ROOT"},
     {"NONCE_MISMATCH_TOO_HIGH", "INVALID_GASLIMIT", "RLP_STRUCTURES_ENCODING"},
     {"TYPE_3_TX_MAX_BLOB_GAS_ALLOWANCE_EXCEEDED"}}
=============================================================================
