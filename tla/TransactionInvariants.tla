----------------------- MODULE TransactionInvariants ------------------------
(***************************************************************************)
(* What the transactions of a block keep true, as state predicates and     *)
(* action properties; `state' changes only when a transaction is settled.  *)
(***************************************************************************)
EXTENDS Transaction, EvmInvariants

(***************************************************************************)
(* A transaction burns the base fee of the gas it used and its blob fee,   *)
(* and nothing else leaves the balances but what a contract born in it     *)
(* destroyed; nothing is made.  None of the words that pay, refund and     *)
(* reward wraps.  It never costs its sender more than what                 *)
(* validateTransaction found the sender to have, at the price the sender   *)
(* named; and it takes the block no further than the gas its header        *)
(* allows.                                                                 *)
(***************************************************************************)
Burned == TransactionGasUsed * BaseFee + BlobFee(tx)

FeesSettle ==
    [][phase = "settle" =>
         /\ TotalBalance(state') + Burned <= TotalBalance(state)
         /\ sub.selfDestructSet = {} =>
              TotalBalance(state') + Burned = TotalBalance(state)
         /\ Balance(state, tx.sender) <= Balance(state', tx.sender) + UpfrontCost(tx)
         /\ gasUsed' <= BlockGasLimit]_allVars

(***************************************************************************)
(* A transaction is executed once: none with the sender and nonce of an    *)
(* earlier one is valid again, whatever the earlier one came to.           *)
(***************************************************************************)
NoReplay ==
    [][phase = "validate" /\ phase' = "execute" =>
         <<tx'.sender, tx'.nonce>> \notin executed]_allVars

(***************************************************************************)
(* An account with a nonce, code or storage is there for ever: it keeps    *)
(* its code, and its nonce does not fall, whatever transactions follow.    *)
(***************************************************************************)
AccountsStay ==
    [][\A a \in Address : ~Blank(state, a) =>
         /\ Exists(state', a)
         /\ state'[a].code = state[a].code
         /\ state[a].nonce <= state'[a].nonce]_allVars

(***************************************************************************)
(* No transaction leaves an account that is empty (EIP-161), although Υ    *)
(* never finds one to erase: touchedAccounts is always empty.              *)
(***************************************************************************)
NoEmptyAccount == NoEmpties(state)

-----------------------------------------------------------------------------
(***************************************************************************)
(* The strengthening of the above that every step keeps.  The machine      *)
(* works on the state the sender has paid from, and whatever has been      *)
(* executed has used its nonce up.                                         *)
(***************************************************************************)
Phases ==
    /\ state \in AccountMap
    /\ phase \in {"validate", "execute", "settle"}
    /\ executed \subseteq Address \X Nat
    /\ status = "idle" => sub = InitialSubstate({})
    /\ phase = "validate" => status = "idle" /\ origin = state
    /\ phase = "execute" => status # "done"
    /\ phase = "settle" => status = "done"

Paid ==
    phase # "validate" =>
        /\ tx \in Transactions
        /\ tx.intrinsic <= tx.gasLimit
        /\ tx.nonce = Lookup(state, tx.sender).nonce
        /\ Lookup(state, tx.sender).code = 0
        /\ origin = [state EXCEPT ![tx.sender] = PaidSender(tx)]

UsedUp == \A e \in executed : e[2] < Lookup(state, e[1]).nonce

BlockInv == TypeOK /\ AccountInv /\ Phases /\ Paid /\ UsedUp

(***************************************************************************)
(* Money.  The transaction in progress is affordable from the state it     *)
(* found; the machine has no more gas than was bought; and in whatever     *)
(* state comes back, the sender has what it had when the machine began,    *)
(* but for the value that it sent itself: no code runs in its name.        *)
(***************************************************************************)
Affordable ==
    phase # "validate" =>
        /\ BaseFee <= tx.maxFee
        /\ ValidKind(tx)
        /\ UpfrontCost(tx) <= Balance(state, tx.sender)
        /\ tx.gasLimit + gasUsed <= BlockGasLimit

GasBought ==
    /\ status = "running" => frames[1].given = tx.gasLimit - tx.intrinsic
    /\ status = "done" => halt.gas <= tx.gasLimit - tx.intrinsic

Kept(m) == Balance(origin, tx.sender) <= Balance(m, tx.sender) + tx.value

SenderKeeps ==
    phase # "validate" =>
        /\ Kept(world)
        /\ \A k \in 1 .. Len(frames) : Kept(frames[k].world)

MoneyInv ==
    /\ BlockInv /\ GasInv /\ EtherInv /\ SparseInv
    /\ TotalBalance(state) < WordSize
    /\ gasUsed \in Nat
    /\ Affordable /\ GasBought /\ SenderKeeps

\* No empty account is ever in sight.
FilledInv == NoEmpties(origin) /\ NoEmpties(state)
=============================================================================
