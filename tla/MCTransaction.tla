--------------------------- MODULE MCTransaction ----------------------------
(***************************************************************************)
(* Instances of the transactions of a block for TLC: a sender with money,  *)
(* a contract, an address nothing is at, and a beneficiary.                *)
(***************************************************************************)
EXTENDS TransactionInvariants, TLC

CONSTANTS eoa, dapp, fresh, miner, key

Acc(nonce, balance, code) ==
    [DefaultAccount EXCEPT !.nonce = nonce, !.balance = balance, !.code = code]

Wealth == {[a \in Address |-> CASE a = eoa  -> Acc(1, 30, 0)
                                [] a = dapp -> Acc(1, 1, 1)
                                [] OTHER    -> NoAccount]}

Tx(kind, nonce, recipient, gas, maxFee, priority, value, blobs) ==
    [kind |-> kind, sender |-> eoa, recipient |-> recipient, nonce |-> nonce,
     gasLimit |-> gas, intrinsic |-> 1, maxFee |-> maxFee, priority |-> priority,
     value |-> value, blobs |-> blobs, blobFee |-> 2]

\* Of each kind: calls and creations, with a tip and without, too dear, too
\* late for the block, and with a nonce that is used or not used yet.
Pool ==
    {Tx("legacy",  1, dapp, 4, 2, 0, 1, 0),
     Tx("dynamic", 1, NoRecipient, 5, 3, 2, 1, 0),
     Tx("blob",    1, dapp, 9, 9, 1, 0, 1)} \cup
    UNION {{Tx("legacy",  n, miner, 2, 1, 0, 0, 0),
            Tx("dynamic", n, dapp, 3, 2, 2, 0, 0),
            Tx("blob",    n, fresh, 2, 2, 4, 1, 1)} : n \in {1, 2}}
=============================================================================
