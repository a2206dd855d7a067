------------------------------- MODULE MCEvm --------------------------------
(***************************************************************************)
(* Instances of the message-call machine for TLC.  The addresses are a     *)
(* sender, one or two contracts, an address nothing is at yet and a        *)
(* precompile; the fee schedule has small numbers that satisfy the         *)
(* inequalities of the real one.                                           *)
(***************************************************************************)
EXTENDS EvmInvariants, TLC

CONSTANTS eoa, dapp, lib, fresh, pre, key

Acc(nonce, balance, code, word) ==
    [DefaultAccount EXCEPT !.nonce = nonce, !.balance = balance,
                           !.code = code, !.storage = [s \in Slot |-> word]]

\* The sender and the contracts exist, everything else does not.
MapWith(senderBalance, dappBalance, word, dappNonce) ==
    [a \in Address |->
        CASE a = eoa  -> Acc(1, senderBalance, 0, 0)
          [] a = dapp -> Acc(dappNonce, dappBalance, 1, word)
          [] a = lib  -> Acc(1, 0, 1, 0)
          [] OTHER    -> NoAccount]

RichMap  == {MapWith(1, 1, 0, 1)}
\* The contract has a word stored that it may erase and write again.
DirtyMap == {MapWith(1, 1, 1, 1)}
\* The contract is one creation away from the nonce limit; or the address
\* of a creation already has money.
EdgeMap  == {MapWith(1, 1, 0, MaxNonce - 1),
             [MapWith(1, 1, 0, 1) EXCEPT ![fresh] = Acc(0, 1, 0, 0)],
             [MapWith(1, 1, 0, 1) EXCEPT ![fresh] = Acc(1, 0, 1, 0)]}

\* Every checkpoint a run about the state may start from.
AllMap == EdgeMap \cup DirtyMap

\* The access list of the transaction has a storage key.
WarmOnes == {<<dapp, key>>}
=============================================================================
