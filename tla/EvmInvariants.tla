--------------------------- MODULE EvmInvariants ----------------------------
(***************************************************************************)
(* What the message-call machine keeps true, as state predicates.          *)
(***************************************************************************)
EXTENDS Evm, Functions

\* Every variable has its type, in every state of the machine.
TypeOK ==
    /\ origin \in AccountMap
    /\ frames \in Seq(Frame)
    /\ world \in AccountMap
    /\ sub \in Substate
    /\ halt \in Halt
    /\ flag \in BOOLEAN
    /\ status \in {"idle", "running", "done"}
    /\ (status = "running") <=> (frames # <<>>)

(***************************************************************************)
(* The depth a frame carries is the number of frames below it and never    *)
(* passes 1024: the guard of call and create keeps I_e + 1 from wrapping   *)
(* in Fin 1025, and every Ξ is one deeper than the Ξ that called it.       *)
(***************************************************************************)
DepthBounded ==
    \A k \in 1 .. Len(frames) :
        frames[k].depth = k - 1 /\ frames[k].depth <= MaxDepth

\* Everything of a substate but what any instruction may warm up.
Accrued(A) == [selfDestructSet |-> A.selfDestructSet,
               refundBalance   |-> A.refundBalance,
               logSeries       |-> A.logSeries,
               createdAccounts |-> A.createdAccounts]

(***************************************************************************)
(* Within a static call nothing that outlives the transaction changes,     *)
(* whatever the callee runs, calls or delegates to: the account map, and   *)
(* the logs, refunds, creations and destructions, are those the static     *)
(* frame was entered with.                                                 *)
(***************************************************************************)
StaticFrozen ==
    \A k \in 1 .. Len(frames) :
        ~frames[k].perm => /\ world = frames[k].world
                           /\ Accrued(sub) = Accrued(frames[k].sub)

(***************************************************************************)
(* X never runs out of fuel: Ξ gives it g + 1, and every round that does   *)
(* not halt costs gas, also a call that gets its callee's gas back.        *)
(***************************************************************************)
FuelSufficient ==
    (status = "running" /\ halt = Running) => Top.gas < Top.fuel

(***************************************************************************)
(* A callee has, and hands back, no more than its caller was charged, and  *)
(* the caller has what it was charged: neither subtraction that settles a  *)
(* call or a creation is cut off at zero, so gas is neither made nor lost. *)
(***************************************************************************)
GasSettles ==
    /\ \A k \in 1 .. Len(frames) : frames[k].gas <= frames[k].given
    /\ \A k \in 2 .. Len(frames) : /\ frames[k].given <= frames[k].charge
                                   /\ frames[k].charge <= frames[k - 1].gas
    /\ status = "running" => halt.gas <= Top.gas

-----------------------------------------------------------------------------
BalanceOf(m) == [a \in Address |-> Balance(m, a)]
TotalBalance(m) == SumFunction(BalanceOf(m))

\* All the ether there is fits a word, also before the code begins.
EtherAssumption == \A m \in Checkpoint : TotalBalance(m) < WordSize

ASSUME EtherAssumption

(***************************************************************************)
(* Ether is never made: the balances sum to what they did when the         *)
(* transaction's code began, or less when a contract born in it destroyed  *)
(* itself in its own favour.  No debit of Θ, Λ or SELFDESTRUCT wraps.      *)
(***************************************************************************)
Conserved(m, A) ==
    /\ TotalBalance(m) <= TotalBalance(origin)
    /\ A.selfDestructSet = {} => TotalBalance(m) = TotalBalance(origin)

EtherConserved == Conserved(world, sub)

Blank(m, a) ==
    /\ Lookup(m, a).nonce = 0
    /\ Lookup(m, a).code = 0
    /\ Lookup(m, a).storage = ZeroStorage

(***************************************************************************)
(* Only what the transaction itself created is erased at its end: an       *)
(* account in selfDestructSet had no code, nonce or storage before, and    *)
(* exists now (EIP-6780 with EIP-7610).                                    *)
(***************************************************************************)
OnlyNewbornDestroyed ==
    \A a \in sub.selfDestructSet : Blank(origin, a) /\ Exists(world, a)

(***************************************************************************)
(* A contract's code is written once, by the creation that made it: any    *)
(* other account has the code it began the transaction with.               *)
(***************************************************************************)
CodeFromCreation ==
    \A a \in Address :
        Lookup(world, a).code # Lookup(origin, a).code =>
            /\ Blank(origin, a)
            /\ a \in sub.createdAccounts
            /\ Lookup(world, a).nonce # 0

(***************************************************************************)
(* A nonce never falls below what the checkpoint state has, and never      *)
(* passes the limit of EIP-2681 by a creation (but for the account at a    *)
(* taken address, until the 0xfe that replaces the init code has faulted). *)
(***************************************************************************)
NonceBounded ==
    (status = "running" => Top.code # "invalid") =>
    \A a \in Address :
        /\ Lookup(origin, a).nonce <= Lookup(world, a).nonce
        /\ Lookup(world, a).nonce <=
             IF Lookup(origin, a).nonce < MaxNonce THEN MaxNonce
             ELSE Lookup(origin, a).nonce

\* The slots the SSTOREs that led to m have erased, net.
Cleared(m) ==
    {as \in Address \X Slot : /\ StoredWord(origin, as[1], as[2]) # 0
                              /\ StoredWord(m, as[1], as[2]) = 0}

\* No SSTORE adds more to the refund counter, and none costs nothing.
MaxRefund == Rsclear + Gsset + Gsreset

\* A transaction has not the gas to refund more than fits a word.
RefundAssumption == \A g \in TxGas : MaxRefund * g < WordSize

ASSUME RefundAssumption

(***************************************************************************)
(* The refund counter is never taken below zero: it always covers the      *)
(* clearing refunds that a later SSTORE may take back, also after reverts  *)
(* that undo some of the clearing.                                         *)
(***************************************************************************)
Covered(m, A) == Rsclear * Cardinality(Cleared(m)) <= A.refundBalance

RefundCovered == Covered(world, sub)

-----------------------------------------------------------------------------
(***************************************************************************)
(* The refinement of NestedCalls: what a call can see or change of an      *)
(* account and of the substate, for every frame and for the innermost.     *)
(* A creation deposits its code when it has already succeeded, so the code *)
(* is left out here: CodeFromCreation is about it.                         *)
(***************************************************************************)
Visible(m, A) ==
    [accounts |-> [a \in Address |->
                     IF Exists(m, a) THEN [m[a] EXCEPT !.code = 0]
                     ELSE NoAccount],
     destroyed |-> A.selfDestructSet,
     refund    |-> A.refundBalance,
     logs      |-> A.logSeries]

VisibleStack(fs, m, A) ==
    [k \in 1 .. Len(fs) + 1 |->
        IF k <= Len(fs) THEN Visible(fs[k].world, fs[k].sub) ELSE Visible(m, A)]

Calls == INSTANCE NestedCalls
            WITH stack <- VisibleStack(frames, world, sub), flag <- flag

\* Calls commit or abort as a whole, and x says which.
CallsNest == Calls!Spec

-----------------------------------------------------------------------------
(***************************************************************************)
(* The strengthenings of the above that every step of the machine keeps.   *)
(*                                                                         *)
(* Gas: also a caller that waits will have more fuel than gas when its     *)
(* callee has given back whatever it may give back.                        *)
(***************************************************************************)
Solvent(fs) ==
    \A k \in 1 .. Len(fs) :
        /\ fs[k].depth = k - 1
        /\ fs[k].depth <= MaxDepth
        /\ fs[k].gas <= fs[k].given
        /\ k > 1 => /\ fs[k].given <= fs[k].charge
                    /\ fs[k].charge <= fs[k - 1].gas
                    /\ fs[k - 1].gas - (fs[k].charge - fs[k].given) < fs[k - 1].fuel

GasInv ==
    /\ Solvent(frames)
    /\ status = "idle" => halt = Running
    /\ status = "running" => halt.gas <= Top.gas
    /\ FuelSufficient

(***************************************************************************)
(* Static calls: whatever a static frame calls is a static call too, and   *)
(* every one of these was entered with what the machine has now.           *)
(***************************************************************************)
Frozen(fs, m, A) ==
    \A k \in 1 .. Len(fs) : ~fs[k].perm =>
        \A j \in k .. Len(fs) : /\ ~fs[j].perm
                                /\ fs[j].kind = "call"
                                /\ fs[j].world = m
                                /\ Accrued(fs[j].sub) = Accrued(A)

StaticInv == Frozen(frames, world, sub)

(***************************************************************************)
(* Accounts: every σ that may come back has the history that CodeFrom-     *)
(* Creation, OnlyNewbornDestroyed and NonceBounded ask for.  An account    *)
(* whose storage has been written has a nonce or a code, so that a new     *)
(* address that is free now was blank when the transaction began.          *)
(***************************************************************************)
Live(m, a) == Lookup(m, a).nonce # 0 \/ Lookup(m, a).code # 0

Descends(m, A) ==
    \A a \in Address :
        /\ Lookup(origin, a).nonce <= Lookup(m, a).nonce
        /\ Lookup(m, a).storage # Lookup(origin, a).storage => Live(m, a)
        /\ Lookup(m, a).code # Lookup(origin, a).code =>
               a \in A.createdAccounts /\ Lookup(m, a).nonce # 0
        /\ a \in A.createdAccounts => Blank(origin, a)
        /\ a \in A.selfDestructSet => Blank(origin, a) /\ Exists(m, a)

NoncesBelowCap(m) ==
    \A a \in Address :
        Lookup(m, a).nonce <= IF Lookup(origin, a).nonce < MaxNonce THEN MaxNonce
                              ELSE Lookup(origin, a).nonce

\* Whoever runs code has an account, and a creation has recorded its own.
Rooted(m, A, f) ==
    f.code = "program" =>
        /\ Live(m, f.owner)
        /\ Lookup(m, f.owner).code # 0 \/ f.owner \in A.createdAccounts
        /\ f.kind = "create" => /\ f.owner \in A.createdAccounts
                                /\ Lookup(m, f.owner).nonce # 0

History(fs, m, A) ==
    /\ Descends(m, A)
    /\ \A k \in 1 .. Len(fs) :
           /\ Descends(fs[k].world, fs[k].sub)
           /\ NoncesBelowCap(fs[k].world)
           /\ fs[k].kind = "create" => fs[k].code \in {"program", "invalid"}
           /\ Rooted(m, A, fs[k])
           /\ \A j \in k + 1 .. Len(fs) : Rooted(fs[j].world, fs[j].sub, fs[k])

AccountInv ==
    /\ History(frames, world, sub)
    /\ status = "idle" => world = origin /\ halt = Running
    /\ status = "running" =>
           /\ halt.cause = "success" => Top.code # "invalid"
           /\ Top.code = "invalid" \/ NoncesBelowCap(world)
    /\ status = "done" => NoncesBelowCap(world)

(***************************************************************************)
(* Ether: what every state that may come back has in all.                  *)
(***************************************************************************)
EtherInv ==
    /\ TotalBalance(origin) < WordSize
    /\ Conserved(world, sub)
    /\ \A k \in 1 .. Len(frames) : Conserved(frames[k].world, frames[k].sub)

\* No account is there that has nothing (EIP-161).
NoEmpties(m) == \A a \in Address : Exists(m, a) => ~IsEmptyAccount(m[a])

SparseInv ==
    NoEmpties(origin) =>
        /\ NoEmpties(world)
        /\ \A k \in 1 .. Len(frames) : NoEmpties(frames[k].world)

(***************************************************************************)
(* Refunds: they are covered in every state that may come back, and the    *)
(* gas a frame has left cannot buy refunds that the counter has no room    *)
(* for.                                                                    *)
(***************************************************************************)
Room(f) == f.sub.refundBalance + MaxRefund * f.given

RefundBounded(fs) ==
    \A k \in 1 .. Len(fs) :
        /\ Room(fs[k]) < WordSize
        /\ k > 1 => Room(fs[k]) + MaxRefund * (fs[k - 1].gas - fs[k].charge)
                      <= Room(fs[k - 1])

RefundInv ==
    /\ Covered(world, sub)
    /\ \A k \in 1 .. Len(frames) : Covered(frames[k].world, frames[k].sub)
    /\ RefundBounded(frames)
    /\ status = "running" => sub.refundBalance + MaxRefund * Top.gas <= Room(Top)

-----------------------------------------------------------------------------
\* A transaction ends.
Termination == <>(status = "done")
=============================================================================
