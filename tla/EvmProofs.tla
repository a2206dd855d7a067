------------------------------ MODULE EvmProofs ------------------------------
(***************************************************************************)
(* The message-call machine: its types (TypeOK is inductive); its depth,   *)
(* gas and fuel (GasInv is inductive, and DepthBounded, GasSettles and     *)
(* FuelSufficient follow from it); and its static calls (StaticInv is      *)
(* inductive, and StaticFrozen follows).                                   *)
(***************************************************************************)
EXTENDS EvmInvariants, SequenceTheorems, TLAPS

\* The frame that waits for the innermost one.
Caller == frames[Len(frames) - 1]

\* A sum or difference of words is a word.
LEMMA WordArithmetic ==
  ASSUME NEW x \in Uint, NEW y \in Uint
  PROVE  /\ AddWord(x, y) \in Uint
         /\ SubWord(x, y) \in Uint
         /\ x + y < WordSize => AddWord(x, y) = x + y
         /\ y <= x => SubWord(x, y) = x - y
BY WordSizeAssumption DEF AddWord, SubWord, Uint, WordSizeAssumption

\* All but one part in GasRetention is no more than the whole.
LEMMA LBounds ==
  ASSUME NEW n \in Nat
  PROVE  L(n) \in Nat /\ L(n) <= n
BY FeeScheduleAssumption DEF L, FeeScheduleAssumption

-----------------------------------------------------------------------------
(***************************************************************************)
(* Account maps.                                                           *)
(***************************************************************************)
\* The default account is an account.
LEMMA DefaultAccountType == DefaultAccount \in Account
<1>1. ZeroStorage \in Storage
  BY WordAssumption DEF ZeroStorage, Storage, WordAssumption
<1> QED
  BY <1>1, WordSizeAssumption DEF DefaultAccount, Account, Uint, WordSizeAssumption

\* Looking up an address gives an account, absent or not.
LEMMA LookupType ==
  ASSUME NEW m \in AccountMap, NEW a \in Address
  PROVE  /\ Lookup(m, a) \in Account
         /\ Balance(m, a) \in Uint
         /\ Exists(m, a) => m[a] \in Account /\ Lookup(m, a) = m[a]
<1>1. Lookup(m, a) \in Account
  BY DefaultAccountType DEF Lookup, Exists, AccountMap
<1> QED BY <1>1 DEF Balance, Account, AccountMap, Exists, Lookup

\* Replacing one account keeps the map a map.
LEMMA InsertType ==
  ASSUME NEW m \in AccountMap, NEW a \in Address, NEW acc \in Account
  PROVE  [m EXCEPT ![a] = acc] \in AccountMap
BY DEF AccountMap

\* Replacing the balance of an account gives an account.
LEMMA WithBalance ==
  ASSUME NEW acc \in Account, NEW v \in Uint
  PROVE  [acc EXCEPT !.balance = v] \in Account
BY DEF Account

\* Θ's credit of the recipient keeps the map a map.
LEMMA CreditType ==
  ASSUME NEW m \in AccountMap, NEW r \in Address, NEW v \in Uint
  PROVE  Credit(m, r, v) \in AccountMap
<1>1. CASE Exists(m, r)
  <2>1. m[r] \in Account /\ m[r].balance \in Uint
    BY <1>1, LookupType DEF Account
  <2>2. [m[r] EXCEPT !.balance = AddWord(m[r].balance, v)] \in Account
    BY <2>1, WordArithmetic, WithBalance
  <2> QED BY <1>1, <2>2, InsertType DEF Credit
<1>2. CASE ~Exists(m, r)
  BY <1>2, DefaultAccountType, WithBalance, InsertType DEF Credit
<1> QED BY <1>1, <1>2

\* Θ's debit of the sender keeps the map a map.
LEMMA DebitType ==
  ASSUME NEW m \in AccountMap, NEW s \in Address, NEW v \in Uint
  PROVE  Debit(m, s, v) \in AccountMap
<1>1. CASE Exists(m, s)
  <2>1. m[s] \in Account /\ m[s].balance \in Uint
    BY <1>1, LookupType DEF Account
  <2>2. [m[s] EXCEPT !.balance = SubWord(m[s].balance, v)] \in Account
    BY <2>1, WordArithmetic, WithBalance
  <2> QED BY <1>1, <2>2, InsertType DEF Debit
<1>2. CASE ~Exists(m, s)
  BY <1>2 DEF Debit
<1> QED BY <1>1, <1>2

\* Θ's transfer keeps the map a map.
LEMMA TransferType ==
  ASSUME NEW m \in AccountMap, NEW s \in Address, NEW r \in Address,
         NEW v \in Uint
  PROVE  Transfer(m, s, r, v) \in AccountMap
BY CreditType, DebitType DEF Transfer

\* create's increment of the nonce keeps the map a map.
LEMMA IncrementNonceType ==
  ASSUME NEW m \in AccountMap, NEW a \in Address
  PROVE  IncrementNonce(m, a) \in AccountMap
<1>1. [Lookup(m, a) EXCEPT !.nonce = @ + 1] \in Account
  BY LookupType DEF Account
<1> QED BY <1>1, InsertType DEF IncrementNonce

\* SELFDESTRUCT's move of the balance keeps the map a map.
LEMMA SweepBalanceType ==
  ASSUME NEW m \in AccountMap, NEW a \in Address, NEW r \in Address,
         NEW born \in BOOLEAN
  PROVE  SweepBalance(m, a, r, born) \in AccountMap
<1>1. SUFFICES ASSUME Exists(m, a)
               PROVE  \A c \in AccountMap :
                        Exists(c, a) => [c EXCEPT ![a].balance = 0]
                                          \in AccountMap
  <2>1. CASE ~Exists(m, a)
    BY <2>1 DEF SweepBalance
  <2>2. CASE Exists(m, a)
    <3>1. m[a].balance \in Uint
      BY <2>2, LookupType DEF Account
    <3>2. Credit(m, r, m[a].balance) \in AccountMap
      BY <3>1, CreditType
    <3>3. Exists(Credit(m, r, m[a].balance), a)
      BY <2>2, <3>1, LookupType, DefaultAccountType, WithBalance, NoAccountAssumption,
         WordArithmetic
      DEF Credit, Exists, AccountMap, NoAccountAssumption
    <3> QED BY <1>1, <2>2, <3>2, <3>3 DEF SweepBalance
  <2> QED BY <2>1, <2>2
<1>2. TAKE c \in AccountMap
<1>3. HAVE Exists(c, a)
<1>4. 0 \in Uint
  BY WordSizeAssumption DEF Uint, WordSizeAssumption
<1>5. [c[a] EXCEPT !.balance = 0] \in Account
  BY <1>3, <1>4, LookupType, WithBalance
<1> QED BY <1>5, InsertType

\* SSTORE and TSTORE keep the map a map.
LEMMA StoreWordType ==
  ASSUME NEW m \in AccountMap, NEW a \in Address, NEW slot \in Slot,
         NEW w \in Word
  PROVE  /\ StoreWord(m, a, slot, w) \in AccountMap
         /\ StoreTransient(m, a, slot, w) \in AccountMap
<1>1. CASE Exists(m, a)
  <2>1. m[a] \in Account
    BY <1>1, LookupType
  <2>2. /\ [m[a] EXCEPT !.storage[slot] = w] \in Account
        /\ [m[a] EXCEPT !.tstorage[slot] = w] \in Account
    BY <2>1 DEF Account, Storage
  <2> QED BY <1>1, <2>2, InsertType DEF StoreWord, StoreTransient
<1>2. CASE ~Exists(m, a)
  BY <1>2 DEF StoreWord, StoreTransient
<1> QED BY <1>1, <1>2

-----------------------------------------------------------------------------
(***************************************************************************)
(* Substates.                                                              *)
(***************************************************************************)
\* Replacing one component of a substate gives a substate.
LEMMA SubstateFields ==
  ASSUME NEW A \in Substate
  PROVE  /\ \A S \in SUBSET Address :
              /\ [A EXCEPT !.selfDestructSet = S] \in Substate
              /\ [A EXCEPT !.accessedAccounts = S] \in Substate
              /\ [A EXCEPT !.createdAccounts = S] \in Substate
         /\ \A K \in SUBSET (Address \X Slot) :
              [A EXCEPT !.accessedStorageKeys = K] \in Substate
         /\ \A n \in Uint : [A EXCEPT !.refundBalance = n] \in Substate
         /\ \A l \in Seq(Address) : [A EXCEPT !.logSeries = l] \in Substate
<1>1. ASSUME NEW S \in SUBSET Address
      PROVE  [A EXCEPT !.selfDestructSet = S] \in Substate
  BY DEF Substate
<1>2. ASSUME NEW S \in SUBSET Address
      PROVE  [A EXCEPT !.accessedAccounts = S] \in Substate
  BY DEF Substate
<1>3. ASSUME NEW S \in SUBSET Address
      PROVE  [A EXCEPT !.createdAccounts = S] \in Substate
  BY DEF Substate
<1>4. ASSUME NEW K \in SUBSET (Address \X Slot)
      PROVE  [A EXCEPT !.accessedStorageKeys = K] \in Substate
  BY DEF Substate
<1>5. ASSUME NEW n \in Uint PROVE [A EXCEPT !.refundBalance = n] \in Substate
  BY DEF Substate
<1>6. ASSUME NEW l \in Seq(Address) PROVE [A EXCEPT !.logSeries = l] \in Substate
  BY DEF Substate
<1> QED BY <1>1, <1>2, <1>3, <1>4, <1>5, <1>6

\* The operations on substates give substates.
LEMMA SubstateTypes ==
  ASSUME NEW A \in Substate, NEW a \in Address
  PROVE  /\ AddAccessedAccount(A, a) \in Substate
         /\ \A slot \in Slot : AddAccessedStorageKey(A, a, slot) \in Substate
         /\ [A EXCEPT !.logSeries = Append(A.logSeries, a)] \in Substate
         /\ [A EXCEPT !.createdAccounts = A.createdAccounts \cup {a}] \in Substate
         /\ [A EXCEPT !.selfDestructSet = A.selfDestructSet \cup {a}] \in Substate
<1>1. /\ A.accessedAccounts \cup {a} \in SUBSET Address
      /\ A.createdAccounts \cup {a} \in SUBSET Address
      /\ A.selfDestructSet \cup {a} \in SUBSET Address
  BY DEF Substate
<1>2. \A slot \in Slot :
        A.accessedStorageKeys \cup {<<a, slot>>} \in SUBSET (Address \X Slot)
  BY DEF Substate
<1>3. Append(A.logSeries, a) \in Seq(Address)
  BY AppendProperties DEF Substate
<1>4. AddAccessedAccount(A, a) \in Substate
  BY <1>1, SubstateFields DEF AddAccessedAccount
<1>5. \A slot \in Slot : AddAccessedStorageKey(A, a, slot) \in Substate
  BY <1>2, SubstateFields DEF AddAccessedStorageKey
<1>6. [A EXCEPT !.logSeries = Append(A.logSeries, a)] \in Substate
  BY <1>3, SubstateFields
<1>7. /\ [A EXCEPT !.createdAccounts = A.createdAccounts \cup {a}] \in Substate
      /\ [A EXCEPT !.selfDestructSet = A.selfDestructSet \cup {a}] \in Substate
  BY <1>1, SubstateFields
<1> QED BY <1>4, <1>5, <1>6, <1>7

\* Warming an account or a slot accrues nothing.
LEMMA AccessAccruesNothing ==
  ASSUME NEW A \in Substate, NEW a \in Address
  PROVE  /\ Accrued(AddAccessedAccount(A, a)) = Accrued(A)
         /\ \A slot \in Slot :
              Accrued(AddAccessedStorageKey(A, a, slot)) = Accrued(A)
<1>1. Accrued(AddAccessedAccount(A, a)) = Accrued(A)
  BY DEF Substate, AddAccessedAccount, Accrued
<1>2. ASSUME NEW slot \in Slot
      PROVE  Accrued(AddAccessedStorageKey(A, a, slot)) = Accrued(A)
  BY DEF Substate, AddAccessedStorageKey, Accrued
<1> QED BY <1>1, <1>2

\* The refund counter stays a word, whatever is added to it.
LEMMA RefundType ==
  ASSUME NEW refund \in Uint, NEW orig \in Word, NEW cur \in Word, NEW new \in Word
  PROVE  AddRefund(refund, RefundDelta(orig, cur, new)) \in Uint
<1>1. RefundDelta(orig, cur, new) \in Int
  BY FeeScheduleAssumption DEF RefundDelta, FeeScheduleAssumption
<1> QED
  BY <1>1, WordSizeAssumption DEF AddRefund, Uint, WordSizeAssumption

\* The σ* and A* that Λ gives to Ξ are a map and a substate.
LEMMA LambdaTypes ==
  ASSUME NEW m \in AccountMap, NEW A \in Substate, NEW s \in Address,
         NEW a \in Address, NEW v \in Uint
  PROVE  /\ LambdaSubstate(m, A, a) \in Substate
         /\ LambdaWorld(m, s, a, v) \in AccountMap
<1>1. LambdaSubstate(m, A, a) \in Substate
  <2>1. A.createdAccounts \cup {a} \in SUBSET Address
    BY DEF Substate
  <2>2. [A EXCEPT !.createdAccounts = A.createdAccounts \cup {a}] \in Substate
    BY <2>1, SubstateFields
  <2> QED BY <2>2 DEF LambdaSubstate
<1>2. CASE Exists(m, s)
  <2> DEFINE new == [Lookup(m, a) EXCEPT !.nonce = Lookup(m, a).nonce + 1,
                                         !.balance = AddWord(v, Lookup(m, a).balance)]
  <2>1. new \in Account
    <3>1. /\ Lookup(m, a) \in Account
          /\ Lookup(m, a).nonce + 1 \in Nat
          /\ AddWord(v, Lookup(m, a).balance) \in Uint
      BY LookupType, WordArithmetic DEF Account
    <3> QED BY <3>1 DEF Account
  <2>2. [m EXCEPT ![s].balance = SubWord(m[s].balance, v)] \in AccountMap
    BY <1>2, DebitType DEF Debit
  <2>3. [m EXCEPT ![s].balance = SubWord(m[s].balance, v), ![a] = new] \in AccountMap
    BY <2>1, <2>2, InsertType
  <2> QED BY <1>1, <1>2, <2>3 DEF LambdaWorld
<1>3. CASE ~Exists(m, s)
  BY <1>1, <1>3 DEF LambdaWorld
<1> QED BY <1>2, <1>3

-----------------------------------------------------------------------------
(***************************************************************************)
(* Gas.                                                                    *)
(***************************************************************************)
\* An account access costs something, warm or cold.
LEMMA CaccessType ==
  ASSUME NEW A, NEW t
  PROVE  Caccess(t, A) \in Nat \ {0}
BY FeeScheduleAssumption DEF Caccess, FeeScheduleAssumption

\* What a call costs besides the callee's gas is positive.
LEMMA CextraType ==
  ASSUME NEW t, NEW r, NEW v, NEW m, NEW A
  PROVE  /\ Cextra(t, r, v, m, A) \in Nat \ {0}
         /\ v # 0 => Gcallstipend < Cextra(t, r, v, m, A)
<1>1. Cxfer(v) \in Nat /\ (v # 0 => Gcallstipend <= Cxfer(v))
  BY FeeScheduleAssumption DEF Cxfer, FeeScheduleAssumption
<1>2. Cnew(r, v, m) \in Nat
  BY FeeScheduleAssumption DEF Cnew, FeeScheduleAssumption
<1>3. Gcallstipend \in Nat
  BY FeeScheduleAssumption DEF FeeScheduleAssumption
<1> QED
  BY <1>1, <1>2, <1>3, CaccessType DEF Cextra

\* What the callee is offered is a natural number.
LEMMA CgascapType ==
  ASSUME NEW t, NEW r, NEW v, NEW m, NEW A, NEW asked \in Nat, NEW gas \in Nat
  PROVE  Cgascap(t, r, v, asked, gas, m, A) \in Nat
<1> DEFINE rest == gas - Cextra(t, r, v, m, A)
<1>1. Cextra(t, r, v, m, A) <= gas => rest \in Nat
  BY CextraType
<1>2. Cextra(t, r, v, m, A) <= gas => L(rest) \in Nat
  BY <1>1, LBounds
<1> QED BY <1>2 DEF Cgascap, MinOf

(***************************************************************************)
(* A call costs its caller more than it gives the callee, the stipend      *)
(* included: what comes back never exceeds what was paid.                  *)
(***************************************************************************)
LEMMA CallCostsMoreThanItGives ==
  ASSUME NEW t, NEW r, NEW v, NEW m, NEW A, NEW asked \in Nat, NEW gas \in Nat
  PROVE  /\ Ccallgas(t, r, v, asked, gas, m, A) \in Nat
         /\ Ccall(t, r, v, asked, gas, m, A) \in Nat
         /\ Ccallgas(t, r, v, asked, gas, m, A) < Ccall(t, r, v, asked, gas, m, A)
<1>1. Gcallstipend \in Nat
  BY FeeScheduleAssumption DEF FeeScheduleAssumption
<1> QED BY <1>1, CgascapType, CextraType DEF Ccallgas, Ccall

\* Storage, self-destruction and transient storage cost something.
LEMMA OtherCosts ==
  ASSUME NEW m \in AccountMap, NEW A \in Substate, NEW a \in Address,
         NEW r \in Address, NEW slot \in Slot,
         NEW orig, NEW cur, NEW new
  PROVE  /\ Csload(a, slot, A) \in Nat \ {0}
         /\ Csstore(a, slot, orig, cur, new, A) \in Nat \ {0}
         /\ Cselfdestruct(a, r, m, A) \in Nat
BY FeeScheduleAssumption
DEF Csload, Csstore, Cselfdestruct, FeeScheduleAssumption

-----------------------------------------------------------------------------
(***************************************************************************)
(* Frames.                                                                 *)
(***************************************************************************)
\* Replacing gas and fuel of a frame gives a frame.
LEMMA FrameFields ==
  ASSUME NEW f \in Frame, NEW g \in Nat
  PROVE  /\ [f EXCEPT !.gas = g] \in Frame
         /\ \A n \in Nat : [f EXCEPT !.gas = g, !.fuel = n] \in Frame
<1>1. [f EXCEPT !.gas = g] \in Frame
  BY DEF Frame
<1>2. ASSUME NEW n \in Nat PROVE [f EXCEPT !.gas = g, !.fuel = n] \in Frame
  BY DEF Frame
<1> QED BY <1>1, <1>2

\* While a transaction runs there is an innermost frame.
LEMMA TopType ==
  ASSUME TypeOK, status = "running"
  PROVE  /\ frames # <<>>
         /\ Len(frames) \in Nat \ {0}
         /\ Top \in Frame
<1>1. frames # <<>> /\ frames \in Seq(Frame)
  BY DEF TypeOK
<1>2. Len(frames) \in Nat \ {0}
  BY <1>1, EmptySeq
<1> QED BY <1>1, <1>2, ElementOfSeq DEF Top

\* Replacing the innermost frame keeps the stack a stack of the same height.
LEMMA SetTopType ==
  ASSUME TypeOK, status = "running", NEW f \in Frame
  PROVE  /\ SetTop(f) \in Seq(Frame)
         /\ SetTop(f) # <<>>
         /\ Len(SetTop(f)) = Len(frames)
         /\ \A k \in 1 .. Len(frames) :
              SetTop(f)[k] = IF k = Len(frames) THEN f ELSE frames[k]
<1>1. frames \in Seq(Frame) /\ Len(frames) \in 1 .. Len(frames)
  BY TopType DEF TypeOK
<1>2. /\ SetTop(f) \in Seq(Frame)
      /\ Len(SetTop(f)) = Len(frames)
      /\ \A k \in 1 .. Len(frames) :
           SetTop(f)[k] = IF k = Len(frames) THEN f ELSE frames[k]
  BY <1>1, ExceptSeq DEF SetTop
<1>3. SetTop(f) # <<>>
  BY <1>1, <1>2, EmptySeq
<1> QED BY <1>2, <1>3

\* Charging an instruction its cost gives a frame.
LEMMA ChargedType ==
  ASSUME TypeOK, NEW op, NEW memory \in Nat, NEW cost \in Nat,
         Executes(op, memory, cost), NEW n \in Nat, n <= memory + cost
  PROVE  /\ Charged(n) \in Frame
         /\ Charged(n).gas = Top.gas - n
         /\ Charged(n).fuel = Top.fuel - 1
         /\ Top.gas - n \in Nat
         /\ Top.fuel - 1 \in Nat
<1>1. Top \in Frame
  BY TopType DEF Executes
<1>2. Top.gas - n \in Nat /\ Top.fuel - 1 \in Nat
  BY <1>1 DEF Executes, Frame
<1>3. Charged(n) \in Frame
  BY <1>1, <1>2, FrameFields DEF Charged
<1>4. Charged(n).gas = Top.gas - n /\ Charged(n).fuel = Top.fuel - 1
  BY <1>1 DEF Charged, Frame
<1> QED BY <1>2, <1>3, <1>4

\* What charging an instruction leaves alone, and what it changes.
LEMMA ChargedKeeps ==
  ASSUME Top \in Frame, NEW n
  PROVE  /\ Charged(n).depth = Top.depth
         /\ Charged(n).given = Top.given
         /\ Charged(n).charge = Top.charge
         /\ Charged(n).perm = Top.perm
         /\ Charged(n).kind = Top.kind
         /\ Charged(n).world = Top.world
         /\ Charged(n).sub = Top.sub
BY DEF Charged, Frame

\* The frames that Θ and Λ start with are frames.
LEMMA EnteredFrames ==
  ASSUME NEW m \in AccountMap, NEW A \in Substate, NEW s \in Address,
         NEW r \in Address, NEW t \in Address, NEW g \in Nat, NEW e \in Nat,
         NEW w \in BOOLEAN, NEW c \in Nat
  PROVE  /\ ThetaFrame(m, A, s, r, CodeOf(m, t), g, e, w, c) \in Frame
         /\ LambdaFrame(m, A, s, r, g, e, w, c) \in Frame
<1>1. CodeOf(m, t) \in {"program", "empty", "precompile", "invalid"}
  BY DEF CodeOf
<1>2. ThetaFrame(m, A, s, r, CodeOf(m, t), g, e, w, c) \in Frame
  BY <1>1 DEF ThetaFrame, Frame
<1>3. LambdaFrame(m, A, s, r, g, e, w, c) \in Frame
  BY DEF LambdaFrame, Frame
<1> QED BY <1>2, <1>3

\* What Θ or Λ returns; it never returns more gas than X did.
LEMMA ResultTypes ==
  ASSUME TypeOK, status = "running"
  PROVE  /\ FrameResult.world \in AccountMap
         /\ FrameResult.sub \in Substate
         /\ FrameResult.gas \in Nat
         /\ FrameResult.gas <= halt.gas
         /\ FrameResult.z \in BOOLEAN
<1>1. /\ Top.world \in AccountMap /\ Top.sub \in Substate
      /\ Top.owner \in Address
      /\ world \in AccountMap /\ sub \in Substate
      /\ halt.gas \in Nat /\ halt.size \in Nat
  BY TopType DEF Frame, Halt, TypeOK
<1>2. /\ ThetaResult.world \in AccountMap
      /\ ThetaResult.sub \in Substate
      /\ ThetaResult.gas = halt.gas
      /\ ThetaResult.z \in BOOLEAN
  BY <1>1 DEF ThetaResult
<1>3. DepositCost \in Nat
  BY <1>1, FeeScheduleAssumption DEF DepositCost, FeeScheduleAssumption
<1>4. /\ LambdaResult.world \in AccountMap
      /\ LambdaResult.sub \in Substate
      /\ LambdaResult.gas \in Nat
      /\ LambdaResult.gas <= halt.gas
      /\ LambdaResult.z \in BOOLEAN
  <2>1. CASE halt.cause # "success"
    <3>1. LambdaResult = [world |-> Top.world, sub |-> Top.sub,
                          gas |-> halt.gas, z |-> FALSE]
      BY <2>1 DEF LambdaResult
    <3> QED BY <1>1, <3>1
  <2>2. CASE halt.cause = "success" /\ DepositFails
    <3> DEFINE A == LambdaSubstate(Top.world, Top.sub, Top.owner)
    <3>1. LambdaResult = [world |-> Top.world, sub |-> A, gas |-> 0, z |-> FALSE]
      BY <2>2 DEF LambdaResult, DepositFailure
    <3>2. A \in Substate
      BY <1>1, WordSizeAssumption, LambdaTypes DEF Uint, WordSizeAssumption
    <3> HIDE DEF A
    <3> QED BY <1>1, <3>1, <3>2
  <2>3. CASE halt.cause = "success" /\ ~DepositFails
    <3> DEFINE acc == [Lookup(world, Top.owner) EXCEPT !.code = halt.size]
               m   == [world EXCEPT ![Top.owner] = acc]
    <3>1. LambdaResult = [world |-> m, sub |-> sub,
                          gas |-> halt.gas - DepositCost, z |-> TRUE]
      BY <2>3 DEF LambdaResult
    <3>2. acc \in Account
      BY <1>1, LookupType DEF Account
    <3>3. m \in AccountMap
      BY <1>1, <3>2, InsertType
    <3>4. halt.gas - DepositCost \in Nat /\ halt.gas - DepositCost <= halt.gas
      BY <1>1, <1>3, <2>3 DEF DepositFails
    <3> HIDE DEF m
    <3> QED BY <1>1, <3>1, <3>3, <3>4
  <2> QED BY <2>1, <2>2, <2>3
<1>5. CASE Top.kind = "call"
  BY <1>1, <1>2, <1>5 DEF FrameResult
<1>6. CASE Top.kind # "call"
  BY <1>4, <1>6 DEF FrameResult
<1> QED BY <1>5, <1>6

-----------------------------------------------------------------------------
(***************************************************************************)
(* The type invariant.  The facts that several steps use come first.       *)
(***************************************************************************)
\* The stack after a call is a stack of frames.
LEMMA CallFrames ==
  ASSUME TypeOK, NEW op, NEW t \in Address, NEW v \in Uint, NEW asked \in Nat,
         NEW memory \in Nat, CallExecutes(op, t, v, asked, memory)
  PROVE  /\ status = "running"
         /\ Recipient(op, t) \in Address
         /\ CallSource(op) \in Address
         /\ Top.gas - memory \in Nat
         /\ CallCost(op, t, v, asked, memory) \in Nat
         /\ CallGas(op, t, v, asked, memory) \in Nat
         /\ CallGas(op, t, v, asked, memory) < CallCost(op, t, v, asked, memory)
         /\ CallCost(op, t, v, asked, memory) <= Top.gas - memory
         /\ Charged(memory) \in Frame
         /\ Charged(memory).gas = Top.gas - memory
         /\ Charged(memory).fuel = Top.fuel - 1
         /\ Top.fuel - 1 \in Nat
<1> DEFINE r     == Recipient(op, t)
           gas   == Top.gas - memory
           extra == Cextra(t, r, v, world, sub)
           cost  == CallCost(op, t, v, asked, memory)
           give  == CallGas(op, t, v, asked, memory)
<1>1. Executes(op, memory, cost)
  BY DEF CallExecutes
<1>2. Top \in Frame /\ gas \in Int /\ extra \in Nat
  BY <1>1, TopType, CextraType DEF Executes, Frame
<1>3. r \in Address /\ CallSource(op) \in Address
  BY <1>2 DEF Frame, Recipient, CallSource
<1>4. cost \in Int /\ cost <= gas
  <2>1. L(gas - extra) \in Int
    BY <1>2, FeeScheduleAssumption DEF L, FeeScheduleAssumption
  <2>2. Cgascap(t, r, v, asked, gas, world, sub) \in Int
    BY <2>1 DEF Cgascap, MinOf
  <2>3. cost \in Int
    BY <1>2, <2>2 DEF CallCost, Ccall
  <2>4. memory + cost <= Top.gas /\ Top.gas \in Nat
    BY <1>1, <1>2 DEF Executes, Frame
  <2> HIDE DEF cost
  <2> QED BY <2>3, <2>4
<1>5. gas \in Nat
  <2>1. CASE extra <= gas
    BY <1>2, <2>1
  <2>2. CASE ~(extra <= gas)
    <3>1. cost = asked + extra
      BY <2>2 DEF Cgascap, Ccall, CallCost
    <3> HIDE DEF cost
    <3> QED BY <1>2, <1>4, <2>2, <3>1
  <2> QED BY <2>1, <2>2
<1>6. cost \in Nat /\ give \in Nat /\ give < cost
  BY <1>5, CallCostsMoreThanItGives DEF CallCost, CallGas
<1>7. /\ Charged(memory) \in Frame
      /\ Charged(memory).gas = Top.gas - memory
      /\ Charged(memory).fuel = Top.fuel - 1
      /\ Top.fuel - 1 \in Nat
  BY <1>1, <1>6, ChargedType
<1>8. status = "running"
  BY <1>1 DEF Executes
<1> QED BY <1>3, <1>4, <1>5, <1>6, <1>7, <1>8

\* The initial states have the types.
LEMMA InitType == Init => TypeOK
<1> SUFFICES ASSUME Init PROVE TypeOK
  OBVIOUS
<1>1. origin \in AccountMap /\ world \in AccountMap
  BY MachineAssumption DEF Init, MachineAssumption
<1>2. frames = <<>> /\ frames \in Seq(Frame)
  BY EmptySeq DEF Init
<1>3. sub \in Substate
  BY EmptySeq, MachineAssumption, WordSizeAssumption
  DEF Init, InitialSubstate, Substate, Uint, MachineAssumption, WordSizeAssumption
<1>4. halt \in Halt /\ flag \in BOOLEAN /\ status = "idle"
  BY DEF Init, Running, Halt
<1> QED BY <1>1, <1>2, <1>3, <1>4 DEF TypeOK

\* The state in which a transaction starts has the types.
LEMMA StartTypes ==
  ASSUME TypeOK, NEW s \in Address, NEW a \in Address, NEW v \in Uint,
         NEW g \in Nat
  PROVE  LET A == InitialSubstate({s, a})
             T == ThetaFrame(origin, A, s, a, CodeOf(origin, a), g, 0, TRUE, g)
             C == LambdaFrame(origin, A, s, a, g, 0, TRUE, g)
         IN  /\ A \in Substate
             /\ Transfer(origin, s, a, v) \in AccountMap
             /\ LambdaWorld(origin, s, a, v) \in AccountMap
             /\ LambdaSubstate(origin, A, a) \in Substate
             /\ T \in Frame /\ <<T>> \in Seq(Frame) /\ <<T>> # <<>>
             /\ C \in Frame /\ <<C>> \in Seq(Frame) /\ <<C>> # <<>>
<1> DEFINE A == InitialSubstate({s, a})
           T == ThetaFrame(origin, A, s, a, CodeOf(origin, a), g, 0, TRUE, g)
           C == LambdaFrame(origin, A, s, a, g, 0, TRUE, g)
<1>1. A \in Substate
  BY EmptySeq, MachineAssumption, WordSizeAssumption
  DEF InitialSubstate, Substate, Uint, MachineAssumption, WordSizeAssumption
<1>2. origin \in AccountMap
  BY DEF TypeOK
<1>3. T \in Frame /\ C \in Frame
  BY <1>1, <1>2, EnteredFrames
<1>4. /\ Transfer(origin, s, a, v) \in AccountMap
      /\ LambdaWorld(origin, s, a, v) \in AccountMap
      /\ LambdaSubstate(origin, A, a) \in Substate
  BY <1>1, <1>2, TransferType, LambdaTypes
<1> HIDE DEF T, C
<1>5. /\ <<T>> \in Seq(Frame) /\ <<T>> # <<>>
      /\ <<C>> \in Seq(Frame) /\ <<C>> # <<>>
  BY <1>3
<1> QED BY <1>1, <1>3, <1>4, <1>5 DEF T, C

\* An instruction that leaves the frames alone and sets what X returns.
LEMMA HaltType ==
  ASSUME NEW g \in Nat, NEW n \in Nat, NEW b \in BOOLEAN,
         NEW c \in {"success", "revert", "error"}
  PROVE  /\ [cause |-> c, gas |-> g, size |-> n, ef |-> b] \in Halt
         /\ [cause |-> c, gas |-> g, size |-> n, ef |-> b] # Running
<1>1. [cause |-> c, gas |-> g, size |-> n, ef |-> b] \in Halt
  BY DEF Halt
<1>2. [cause |-> c, gas |-> g, size |-> n, ef |-> b].cause # Running.cause
  BY DEF Running
<1> QED BY <1>1, <1>2

\* The frames below the innermost one.
LEMMA PopIndex ==
  ASSUME TypeOK, status = "running", Len(frames) > 1
  PROVE  /\ Pop \in Seq(Frame)
         /\ Len(Pop) = Len(frames) - 1
         /\ \A k \in 1 .. Len(frames) - 1 : Pop[k] = frames[k]
         /\ Len(frames) - 1 \in 1 .. Len(frames) - 1
<1>0. frames \in Seq(Frame)
  BY DEF TypeOK
<1>1. Len(frames) - 1 \in Nat \ {0}
  <2> DEFINE n == Len(frames)
  <2>1. n \in Nat /\ n > 1
    BY <1>0
  <2> HIDE DEF n
  <2>2. n - 1 \in Nat \ {0}
    BY <2>1
  <2> QED BY <2>2 DEF n
<1>2. \A k \in 1 .. Len(frames) - 1 : frames[k] \in Frame
  BY <1>0, <1>1, ElementOfSeq
<1> QED BY <1>0, <1>1, <1>2, SubSeqProperties DEF Pop

\* Dropping the innermost frame and paying its caller back gives a stack of frames.
LEMMA PopType ==
  ASSUME TypeOK, status = "running", Len(frames) > 1, NEW g \in Nat
  PROVE  LET fs == [Pop EXCEPT ![Len(frames) - 1].gas = g]
         IN  /\ fs \in Seq(Frame)
             /\ fs # <<>>
             /\ Len(fs) = Len(frames) - 1
             /\ \A k \in 1 .. Len(frames) - 1 :
                  fs[k] = IF k = Len(frames) - 1
                            THEN [frames[k] EXCEPT !.gas = g]
                            ELSE frames[k]
<1> DEFINE n  == Len(frames) - 1
           fs == [Pop EXCEPT ![n].gas = g]
<1>1. /\ frames \in Seq(Frame)
      /\ n \in Nat \ {0}
      /\ \A k \in 1 .. n : frames[k] \in Frame
  BY TopType, ElementOfSeq DEF TypeOK
<1>2. /\ Pop \in Seq(Frame)
      /\ Len(Pop) = n
      /\ \A k \in 1 .. n : Pop[k] = frames[k]
  BY PopIndex
<1>3. [Pop[n] EXCEPT !.gas = g] \in Frame
  <2>1. Pop[n] \in Frame
    BY <1>1, <1>2
  <2> QED BY <2>1, FrameFields
<1>4. /\ fs \in Seq(Frame)
      /\ Len(fs) = n
      /\ \A k \in 1 .. n : fs[k] = IF k = n THEN [Pop[n] EXCEPT !.gas = g]
                                            ELSE Pop[k]
  <2>1. n \in 1 .. Len(Pop)
    BY <1>1, <1>2
  <2>2. fs = [Pop EXCEPT ![n] = [Pop[n] EXCEPT !.gas = g]]
    OBVIOUS
  <2> QED BY <1>2, <1>3, <2>1, <2>2, ExceptSeq
<1>5. fs # <<>>
  BY <1>1, <1>4, EmptySeq
<1> QED BY SMTT(40), <1>1, <1>2, <1>4, <1>5

\* Saturating subtraction gives a natural number, no larger than the first operand.
LEMMA MonusType ==
  ASSUME NEW x \in Nat, NEW y \in Nat
  PROVE  /\ Monus(x, y) \in Nat
         /\ Monus(x, y) <= x
         /\ y <= x => Monus(x, y) = x - y
BY DEF Monus

\* CREATE and CREATE2, granted or not.
LEMMA CreateFrames ==
  ASSUME TypeOK, NEW op, NEW memory \in Nat, CreateExecutes(op, memory)
  PROVE  LET give == L(Top.gas - (memory + Gcreate))
         IN  /\ status = "running"
             /\ Charged(memory + Gcreate) \in Frame
             /\ Charged(memory + Gcreate).gas = Top.gas - (memory + Gcreate)
             /\ Charged(memory + Gcreate).fuel = Top.fuel - 1
             /\ give \in Nat
             /\ give <= Top.gas - (memory + Gcreate)
<1>1. Executes(op, memory, Gcreate) /\ Gcreate \in Nat
  BY FeeScheduleAssumption DEF CreateExecutes, FeeScheduleAssumption
<1>2. /\ Charged(memory + Gcreate) \in Frame
      /\ Charged(memory + Gcreate).gas = Top.gas - (memory + Gcreate)
      /\ Charged(memory + Gcreate).fuel = Top.fuel - 1
      /\ Top.gas - (memory + Gcreate) \in Nat
  BY <1>1, ChargedType
<1> QED BY <1>1, <1>2, LBounds DEF Executes

\* Every step of Next keeps the types.
LEMMA TypeStep == TypeOK /\ [Next]_vars => TypeOK'
<1> SUFFICES ASSUME TypeOK, [Next]_vars PROVE TypeOK'
  OBVIOUS
<1> USE DEF TypeOK
<1>1. ASSUME NEW s \in Sender(origin), NEW a \in Address, NEW v \in Wei,
             NEW g \in TxGas, StartCall(s, a, v, g)
      PROVE  TypeOK'
  <2>1. s \in Address /\ v \in Uint /\ g \in Nat
    BY MachineAssumption DEF Sender, MachineAssumption
  <2>2. /\ world' \in AccountMap /\ sub' \in Substate
        /\ frames' \in Seq(Frame) /\ frames' # <<>>
    BY <1>1, <2>1, StartTypes DEF StartCall
  <2> QED BY <1>1, <2>2 DEF StartCall
<1>2. ASSUME NEW s \in Sender(origin), NEW a \in Address, NEW v \in Wei,
             NEW g \in TxGas, StartCreate(s, a, v, g)
      PROVE  TypeOK'
  <2>1. s \in Address /\ v \in Uint /\ g \in Nat
    BY MachineAssumption DEF Sender, MachineAssumption
  <2>2. /\ world' \in AccountMap /\ sub' \in Substate
        /\ frames' \in Seq(Frame) /\ frames' # <<>>
    BY <1>2, <2>1, StartTypes DEF StartCreate
  <2> QED BY <1>2, <2>2 DEF StartCreate
<1>3. ASSUME NEW op \in CallOp, NEW t \in Address, NEW asked \in AskedGas,
             NEW memory \in MemoryCost, NEW v \in CallValues(op),
             Call(op, t, v, asked, memory)
      PROVE  TypeOK'
  <2> DEFINE r    == Recipient(op, t)
             s    == CallSource(op)
             A    == AddAccessedAccount(sub, t)
             give == CallGas(op, t, v, asked, memory)
             cost == CallCost(op, t, v, asked, memory)
             new  == ThetaFrame(world, A, s, r, CodeOf(world, t), give,
                                Top.depth + 1, CallPerm(op), cost)
  <2>1. asked \in Nat /\ memory \in Nat /\ v \in Uint
    BY MachineAssumption, WordSizeAssumption
    DEF MachineAssumption, WordSizeAssumption, CallValues, Uint
  <2>2. /\ status = "running" /\ r \in Address /\ s \in Address
        /\ give \in Nat /\ cost \in Nat /\ Charged(memory) \in Frame
    BY <1>3, <2>1, CallFrames DEF Call
  <2>3. Top.depth + 1 \in Nat /\ CallPerm(op) \in BOOLEAN
    <3>1. Top \in Frame
      BY <2>2, TopType
    <3>2. Top.depth + 1 \in Nat
      BY SMTT(40), <3>1 DEF Frame
    <3> QED BY <3>2 DEF CallPerm
  <2>4. A \in Substate
    BY SubstateTypes
  <2>5. new \in Frame
    BY <2>2, <2>3, <2>4, EnteredFrames
  <2>6. SetTop(Charged(memory)) \in Seq(Frame)
    BY <2>2, SetTopType
  <2>7. frames' \in Seq(Frame) /\ frames' # <<>>
    BY <1>3, <2>5, <2>6, AppendProperties DEF Call
  <2>8. world' \in AccountMap
    BY <1>3, <2>1, <2>2, TransferType DEF Call
  <2> QED BY <1>3, <2>2, <2>4, <2>7, <2>8 DEF Call
<1>4. ASSUME NEW op \in CallOp, NEW t \in Address, NEW asked \in AskedGas,
             NEW memory \in MemoryCost, NEW v \in CallValues(op),
             CallRefused(op, t, v, asked, memory)
      PROVE  TypeOK'
  <2> DEFINE kept == Monus(CallCost(op, t, v, asked, memory),
                           CallGas(op, t, v, asked, memory))
             left == Monus(Top.gas - memory, kept)
             f    == [Top EXCEPT !.gas = left, !.fuel = Top.fuel - 1]
  <2>1. asked \in Nat /\ memory \in Nat /\ v \in Uint
    BY MachineAssumption, WordSizeAssumption
    DEF MachineAssumption, WordSizeAssumption, CallValues, Uint
  <2>2. /\ status = "running"
        /\ CallCost(op, t, v, asked, memory) \in Nat
        /\ CallGas(op, t, v, asked, memory) \in Nat
        /\ Top.gas - memory \in Nat /\ Top.fuel - 1 \in Nat
    BY <1>4, <2>1, CallFrames DEF CallRefused
  <2>3. left \in Nat
    BY <2>2, MonusType
  <2>4. f \in Frame
    BY <2>2, <2>3, TopType, FrameFields
  <2>5. frames' \in Seq(Frame) /\ frames' # <<>>
    BY <1>4, <2>2, <2>4, SetTopType DEF CallRefused
  <2>6. sub' \in Substate
    BY <1>4, SubstateTypes DEF CallRefused
  <2> QED BY <1>4, <2>2, <2>5, <2>6 DEF CallRefused
<1>5. ASSUME NEW op \in CreateOp, NEW a \in Address, NEW v \in Wei,
             NEW memory \in MemoryCost, Create(op, a, v, memory)
      PROVE  TypeOK'
  <2> DEFINE s    == Top.owner
             cost == memory + Gcreate
             give == L(Top.gas - cost)
             m    == IncrementNonce(world, s)
             A    == AddAccessedAccount(sub, a)
             new  == LambdaFrame(m, A, s, a, give, Top.depth + 1, Top.perm, give)
  <2>1. memory \in Nat /\ v \in Uint
    BY MachineAssumption DEF MachineAssumption
  <2>2. status = "running" /\ Charged(cost) \in Frame /\ give \in Nat
    BY <1>5, <2>1, CreateFrames DEF Create
  <2>3. s \in Address /\ Top.depth + 1 \in Nat /\ Top.perm \in BOOLEAN
    <3>1. Top \in Frame
      BY <2>2, TopType
    <3> QED BY SMTT(40), <3>1 DEF Frame
  <2>4. m \in AccountMap /\ A \in Substate
    BY <2>3, IncrementNonceType, SubstateTypes
  <2>5. new \in Frame
    BY <2>2, <2>3, <2>4, EnteredFrames
  <2>6. SetTop(Charged(cost)) \in Seq(Frame)
    BY <2>2, SetTopType
  <2>7. frames' \in Seq(Frame) /\ frames' # <<>>
    BY <1>5, <2>5, <2>6, AppendProperties DEF Create
  <2>8. world' \in AccountMap /\ sub' \in Substate
    BY <1>5, <2>1, <2>3, <2>4, LambdaTypes DEF Create
  <2> QED BY <1>5, <2>2, <2>7, <2>8 DEF Create
<1>6. ASSUME NEW op \in CreateOp, NEW v \in Wei, NEW memory \in MemoryCost,
             CreateRefused(op, v, memory)
      PROVE  TypeOK'
  <2>1. status = "running" /\ Charged(memory + Gcreate) \in Frame
    BY <1>6, MachineAssumption, CreateFrames DEF CreateRefused, MachineAssumption
  <2>2. frames' \in Seq(Frame) /\ frames' # <<>>
    BY <1>6, <2>1, SetTopType DEF CreateRefused
  <2> QED BY <1>6, <2>1, <2>2 DEF CreateRefused
<1>7. ASSUME NEW slot \in Slot, Sload(slot)
      PROVE  TypeOK'
  <2> DEFINE cost == Csload(Top.owner, slot, sub)
  <2>1. status = "running" /\ Top.owner \in Address
    BY <1>7, TopType DEF Sload, Executes, Frame
  <2>2. cost \in Nat
    BY <2>1, OtherCosts
  <2>3. Charged(cost) \in Frame
    BY <1>7, <2>2, ChargedType DEF Sload
  <2>4. frames' \in Seq(Frame) /\ frames' # <<>>
    BY <1>7, <2>1, <2>3, SetTopType DEF Sload
  <2>5. sub' \in Substate
    BY <1>7, <2>1, SubstateTypes DEF Sload
  <2> QED BY <1>7, <2>1, <2>4, <2>5 DEF Sload
<1>8. ASSUME NEW slot \in Slot, NEW new \in Word, Sstore(slot, new)
      PROVE  TypeOK'
  <2> DEFINE a    == Top.owner
             orig == StoredWord(origin, a, slot)
             cur  == StoredWord(world, a, slot)
             cost == Csstore(a, slot, orig, cur, new, sub)
             A    == AddAccessedStorageKey(sub, a, slot)
             n    == AddRefund(A.refundBalance, RefundDelta(orig, cur, new))
  <2>1. status = "running" /\ a \in Address
    BY <1>8, TopType DEF Sstore, Executes, Frame
  <2>2. cost \in Nat
    BY <2>1, OtherCosts
  <2>3. Charged(cost) \in Frame
    <3>1. Executes("SSTORE", 0, cost)
      BY <1>8 DEF Sstore
    <3> HIDE DEF cost
    <3> QED BY <2>2, <3>1, ChargedType
  <2>4. frames' \in Seq(Frame) /\ frames' # <<>>
    BY <1>8, <2>1, <2>3, SetTopType DEF Sstore
  <2>5. orig \in Word /\ cur \in Word
    BY <2>1, LookupType DEF StoredWord, Account, Storage
  <2>6. A \in Substate /\ A.refundBalance \in Uint
    BY <2>1, SubstateTypes DEF Substate
  <2>7. n \in Uint
    BY <2>5, <2>6, RefundType
  <2>8. [A EXCEPT !.refundBalance = n] \in Substate
    BY <2>6, <2>7, SubstateFields
  <2>9. sub' \in Substate
    BY <1>8, <2>8 DEF Sstore
  <2>10. world' \in AccountMap
    BY <1>8, <2>1, StoreWordType DEF Sstore
  <2> QED BY <1>8, <2>1, <2>4, <2>9, <2>10 DEF Sstore
<1>9. ASSUME NEW slot \in Slot, NEW new \in Word, Tstore(slot, new)
      PROVE  TypeOK'
  <2>1. status = "running" /\ Top.owner \in Address
    BY <1>9, TopType DEF Tstore, Executes, Frame
  <2>2. Charged(Gwarmaccess) \in Frame
    BY <1>9, ChargedType, FeeScheduleAssumption DEF Tstore, FeeScheduleAssumption
  <2>3. frames' \in Seq(Frame) /\ frames' # <<>>
    BY <1>9, <2>1, <2>2, SetTopType DEF Tstore
  <2>4. world' \in AccountMap
    BY <1>9, <2>1, StoreWordType DEF Tstore
  <2> QED BY <1>9, <2>1, <2>3, <2>4 DEF Tstore
<1>10. ASSUME NEW memory \in MemoryCost, NEW cost \in StepCost,
              Compute(memory, cost)
       PROVE  TypeOK'
  <2>1. Charged(memory + cost) \in Frame /\ status = "running"
    BY <1>10, ChargedType, MachineAssumption
    DEF Compute, Executes, MachineAssumption
  <2>2. frames' \in Seq(Frame) /\ frames' # <<>>
    BY <1>10, <2>1, SetTopType DEF Compute
  <2> QED BY <1>10, <2>1, <2>2 DEF Compute
<1>11. ASSUME NEW memory \in MemoryCost, NEW a \in Address, ReadAccount(a, memory)
       PROVE  TypeOK'
  <2>1. memory \in Nat /\ Caccess(a, sub) \in Nat
    BY MachineAssumption, CaccessType DEF MachineAssumption
  <2>2. Charged(memory + Caccess(a, sub)) \in Frame /\ status = "running"
    BY <1>11, <2>1, ChargedType DEF ReadAccount, Executes
  <2>3. frames' \in Seq(Frame) /\ frames' # <<>>
    BY <1>11, <2>2, SetTopType DEF ReadAccount
  <2>4. sub' \in Substate
    BY <1>11, SubstateTypes DEF ReadAccount
  <2> QED BY <1>11, <2>2, <2>3, <2>4 DEF ReadAccount
<1>12. ASSUME NEW memory \in MemoryCost, Log(memory)
       PROVE  TypeOK'
  <2>1. status = "running" /\ Top.owner \in Address
    BY <1>12, TopType DEF Log, Executes, Frame
  <2>2. Charged(memory + Glog) \in Frame
    <3>1. memory \in Nat
      BY MachineAssumption DEF MachineAssumption
    <3>2. Glog \in Nat
      BY FeeScheduleAssumption DEF FeeScheduleAssumption
    <3>3. Executes("LOG", memory, Glog)
      BY <1>12 DEF Log
    <3> QED BY <3>1, <3>2, <3>3, ChargedType
  <2>3. frames' \in Seq(Frame) /\ frames' # <<>>
    BY <1>12, <2>1, <2>2, SetTopType DEF Log
  <2>4. sub' \in Substate
    BY <1>12, <2>1, SubstateTypes DEF Log
  <2> QED BY <1>12, <2>1, <2>3, <2>4 DEF Log
<1>13. ASSUME NEW memory \in MemoryCost, NEW size \in ReturnedSize,
              NEW ef \in BOOLEAN, Return(memory, size, ef)
       PROVE  TypeOK'
  <2>1. memory \in Nat /\ size \in Nat
    BY MachineAssumption DEF MachineAssumption
  <2>2. Executes("RETURN", memory, 0)
    BY <1>13 DEF Return
  <2>3. Top.gas - memory \in Nat
    BY <2>1, <2>2, ChargedType
  <2> QED BY <1>13, <2>1, <2>3, HaltType DEF Return, Halts
<1>14. ASSUME NEW memory \in MemoryCost, Revert(memory)
       PROVE  TypeOK'
  <2>1. Top.gas - memory \in Nat
    BY SMTT(40), <1>14, TopType, MachineAssumption
    DEF Revert, Executes, Frame, MachineAssumption
  <2> QED BY <1>14, <2>1, HaltType DEF Revert, Halts
<1>15. ASSUME NEW r \in Address, Selfdestruct(r)
       PROVE  TypeOK'
  <2> DEFINE a    == Top.owner
             born == Born(a)
             cost == Cselfdestruct(a, r, world, sub)
             A    == AddAccessedAccount(sub, r)
  <2>1. status = "running" /\ a \in Address /\ Top.gas \in Nat
    BY <1>15, TopType DEF Selfdestruct, Executes, Frame
  <2>2. cost \in Nat
    BY SMTT(40), <2>1, FeeScheduleAssumption DEF Cselfdestruct, FeeScheduleAssumption
  <2>3. Top.gas - cost \in Nat
    BY <1>15, <2>1, <2>2 DEF Selfdestruct, Executes
  <2>4. halt' \in Halt
    BY <1>15, <2>3, HaltType DEF Selfdestruct, Halts, Success
  <2>5. A \in Substate /\ [A EXCEPT !.selfDestructSet = A.selfDestructSet \cup {a}]
                             \in Substate
    BY <2>1, SubstateTypes
  <2>6. sub' \in Substate
    BY <1>15, <2>5 DEF Selfdestruct
  <2>7. world' \in AccountMap
    <3>1. born \in BOOLEAN /\ world' = SweepBalance(world, a, r, born)
      BY <1>15 DEF Selfdestruct, Born
    <3> HIDE DEF born
    <3> QED BY <2>1, <3>1, SweepBalanceType
  <2> QED BY <1>15, <2>1, <2>4, <2>6, <2>7 DEF Selfdestruct, Halts
<1>16. CASE Stop
  <2>1. Top.gas \in Nat
    BY <1>16, TopType DEF Stop, Halting, Frame
  <2> QED BY <1>16, <2>1, HaltType DEF Stop, Halts, Success
<1>17. CASE Fault
  BY <1>17, HaltType DEF Fault, Halts, Failed
<1>18. CASE RunPrecompile
  <2>1. Top.gas \in Nat
    BY <1>18, TopType DEF RunPrecompile, Halting, Frame
  <2>2. \A cost \in PrecompileCost : cost <= Top.gas => Top.gas - cost \in Nat
    BY <2>1, MachineAssumption DEF MachineAssumption
  <2>3. halt' \in Halt
    BY <1>18, <2>2, HaltType DEF RunPrecompile, Halts, Success, Failed
  <2> QED BY <1>18, <2>3 DEF RunPrecompile, Halts
<1>19. CASE Resume
  <2> DEFINE left == Monus(Caller.gas, Monus(Top.charge, FrameResult.gas))
  <2>1. /\ status = "running" /\ Len(frames) > 1
        /\ FrameResult.world \in AccountMap /\ FrameResult.sub \in Substate
        /\ FrameResult.gas \in Nat /\ FrameResult.z \in BOOLEAN
    BY <1>19, ResultTypes DEF Resume
  <2>2. Top \in Frame /\ Caller \in Frame
    BY <2>1, TopType, ElementOfSeq DEF Caller
  <2>3. left \in Nat
    BY <2>1, <2>2, MonusType DEF Frame
  <2>4. frames' = [Pop EXCEPT ![Len(frames) - 1].gas = left]
    <3>1. Pop[Len(frames) - 1] = Caller
      BY <2>1, PopIndex DEF Caller
    <3> QED BY <1>19, <3>1 DEF Resume
  <2>5. frames' \in Seq(Frame) /\ frames' # <<>>
    BY <2>1, <2>3, <2>4, PopType
  <2> QED BY <1>19, <2>1, <2>5, HaltType DEF Resume, Running, Halt
<1>20. CASE Finish
  <2>1. /\ FrameResult.world \in AccountMap /\ FrameResult.sub \in Substate
        /\ FrameResult.gas \in Nat /\ FrameResult.z \in BOOLEAN
    BY <1>20, ResultTypes DEF Finish
  <2>2. [halt EXCEPT !.gas = FrameResult.gas] \in Halt
    BY <2>1 DEF Halt
  <2> QED BY <1>20, <2>1, <2>2, EmptySeq DEF Finish
<1>21. CASE UNCHANGED vars
  BY <1>21 DEF vars
<1> QED
  BY <1>1, <1>2, <1>3, <1>4, <1>5, <1>6, <1>7, <1>8, <1>9, <1>10, <1>11, <1>12,
     <1>13, <1>14, <1>15, <1>16, <1>17, <1>18, <1>19, <1>20, <1>21
  DEF Next, Start, Instruction, CallInstruction, CreateInstruction,
      StorageInstruction, MemoryInstruction

(***************************************************************************)
(* TypeOK: every variable of the message-call machine keeps its type,      *)
(* whatever contracts run, so no balance, gas or counter leaves its range. *)
(***************************************************************************)
THEOREM TypeCorrect == Spec => []TypeOK
<1>1. TypeOK /\ [Next]_vars => TypeOK'
  BY TypeStep
<1> QED BY <1>1, InitType, PTL DEF Spec

-----------------------------------------------------------------------------
(***************************************************************************)
(* How the stack of frames changes.                                        *)
(***************************************************************************)
\* Spending gas in the innermost frame.
LEMMA SpendSolvent ==
  ASSUME TypeOK, status = "running", Solvent(frames), NEW f \in Frame,
         f.depth = Top.depth, f.given = Top.given, f.charge = Top.charge,
         f.gas <= Top.gas
  PROVE  Solvent(SetTop(f))
<1> DEFINE n == Len(frames)
           fs == SetTop(f)
<1>1. /\ Len(fs) = n
      /\ n \in Nat \ {0}
      /\ \A k \in 1 .. n : fs[k] = IF k = n THEN f ELSE frames[k]
  BY SetTopType, TopType
<1>2. \A k \in 1 .. n : frames[k] \in Frame
  BY <1>1, ElementOfSeq DEF TypeOK
<1> SUFFICES ASSUME NEW k \in 1 .. n
             PROVE  /\ fs[k].depth = k - 1
                    /\ fs[k].depth <= MaxDepth
                    /\ fs[k].gas <= fs[k].given
                    /\ k > 1 =>
                         /\ fs[k].given <= fs[k].charge
                         /\ fs[k].charge <= fs[k - 1].gas
                         /\ fs[k - 1].gas - (fs[k].charge - fs[k].given)
                              < fs[k - 1].fuel
  BY <1>1 DEF Solvent
<1>3. /\ frames[k].depth = k - 1
      /\ frames[k].depth <= MaxDepth
      /\ frames[k].gas <= frames[k].given
      /\ k > 1 =>
           /\ frames[k].given <= frames[k].charge
           /\ frames[k].charge <= frames[k - 1].gas
           /\ frames[k - 1].gas - (frames[k].charge - frames[k].given)
                < frames[k - 1].fuel
  BY DEF Solvent
<1>4. k > 1 => fs[k - 1] = frames[k - 1]
  BY <1>1
<1>5. CASE k = n
  <2>1. fs[k] = f /\ frames[k] = Top
    BY <1>1, <1>5 DEF Top
  <2>2. f.gas <= f.given
    BY <1>2, <1>3, <2>1 DEF Frame
  <2> HIDE DEF fs
  <2> QED BY <1>3, <1>4, <2>1, <2>2
<1>6. CASE k # n
  <2>1. fs[k] = frames[k]
    BY <1>1, <1>6
  <2> HIDE DEF fs
  <2> QED BY <1>3, <1>4, <2>1
<1> QED BY <1>5, <1>6

\* Entering a callee.
LEMMA EnterSolvent ==
  ASSUME NEW fs \in Seq(Frame), fs # <<>>, Solvent(fs), NEW new \in Frame,
         NEW last, last = fs[Len(fs)],
         new.depth = last.depth + 1, new.depth <= MaxDepth,
         new.gas = new.given, new.given <= new.charge,
         new.charge <= last.gas,
         last.gas - (new.charge - new.given) < last.fuel
  PROVE  /\ Solvent(Append(fs, new))
         /\ Append(fs, new)[Len(Append(fs, new))] = new
<1> DEFINE n  == Len(fs)
           gs == Append(fs, new)
<1>1. /\ n \in Nat \ {0}
      /\ Len(gs) = n + 1
      /\ \A k \in 1 .. n : gs[k] = fs[k] /\ fs[k] \in Frame
      /\ gs[n + 1] = new
  BY AppendProperties, EmptySeq, ElementOfSeq
<1> SUFFICES ASSUME NEW k \in 1 .. n + 1
             PROVE  /\ gs[k].depth = k - 1
                    /\ gs[k].depth <= MaxDepth
                    /\ gs[k].gas <= gs[k].given
                    /\ k > 1 =>
                         /\ gs[k].given <= gs[k].charge
                         /\ gs[k].charge <= gs[k - 1].gas
                         /\ gs[k - 1].gas - (gs[k].charge - gs[k].given)
                              < gs[k - 1].fuel
  BY <1>1 DEF Solvent
<1>2. CASE k \in 1 .. n
  <2>1. gs[k] = fs[k] /\ (k > 1 => gs[k - 1] = fs[k - 1])
    BY <1>1, <1>2
  <2> HIDE DEF gs
  <2> QED BY <1>2, <2>1 DEF Solvent
<1>3. CASE k = n + 1
  <2>1. gs[k] = new /\ gs[k - 1] = last /\ k > 1
    BY <1>1, <1>3
  <2>2. last.depth = n - 1
    BY <1>1 DEF Solvent
  <2>3. new.gas \in Nat
    BY DEF Frame
  <2> HIDE DEF gs
  <2> QED BY <1>1, <1>3, <2>1, <2>2, <2>3
<1> QED BY <1>1, <1>2, <1>3

\* What a call or a creation settles with its caller is not cut off.
LEMMA Settlement ==
  ASSUME NEW gas \in Nat, NEW charge \in Nat, NEW given \in Nat,
         NEW back \in Nat, NEW fuel \in Nat,
         back <= given, given <= charge, charge <= gas,
         gas - (charge - given) < fuel
  PROVE  /\ Monus(gas, Monus(charge, back)) \in Nat
         /\ Monus(gas, Monus(charge, back)) = gas - (charge - back)
         /\ Monus(gas, Monus(charge, back)) <= gas
         /\ Monus(gas, Monus(charge, back)) < fuel
BY DEF Monus

\* A callee gives back at most what it was given.
LEMMA LeaveSolvent ==
  ASSUME TypeOK, status = "running", Len(frames) > 1, GasInv,
         NEW back \in Nat, back <= halt.gas, NEW gs,
         gs = [Pop EXCEPT ![Len(frames) - 1].gas =
                 Monus(Caller.gas, Monus(Top.charge, back))]
  PROVE  /\ Solvent(gs)
         /\ gs[Len(gs)].gas < gs[Len(gs)].fuel
<1> DEFINE n    == Len(frames) - 1
           left == Monus(Caller.gas, Monus(Top.charge, back))
<1>1. n \in Nat \ {0} /\ Len(frames) = n + 1 /\ n \in 1 .. Len(frames)
  BY PopIndex, TopType
<1>2. \A k \in 1 .. Len(frames) : frames[k] \in Frame
  BY ElementOfSeq DEF TypeOK
<1>3. Top \in Frame /\ Caller \in Frame /\ halt.gas \in Nat
  BY <1>1, <1>2, TopType DEF Caller, TypeOK, Halt
<1>4. /\ Top.gas <= Top.given /\ Top.given <= Top.charge
      /\ Top.charge <= Caller.gas
      /\ Caller.gas - (Top.charge - Top.given) < Caller.fuel
      /\ halt.gas <= Top.gas
  BY <1>1 DEF GasInv, Solvent, Top, Caller
<1>5. /\ Top.gas \in Nat /\ Top.given \in Nat /\ Top.charge \in Nat
      /\ Caller.gas \in Nat /\ Caller.fuel \in Nat
  BY <1>3 DEF Frame
<1>6. back <= Top.given
  BY <1>3, <1>4, <1>5
<1>7. left \in Nat /\ left <= Caller.gas /\ left < Caller.fuel
  BY <1>4, <1>5, <1>6, Settlement
<1> HIDE DEF left
<1>8. gs = [Pop EXCEPT ![Len(frames) - 1].gas = left]
  BY DEF left
<1>9. /\ Len(gs) = n
      /\ \A k \in 1 .. n : gs[k] = IF k = n THEN [frames[k] EXCEPT !.gas = left]
                                            ELSE frames[k]
  BY <1>7, <1>8, PopType
<1> HIDE DEF n
<1>10. /\ gs[n] = [Caller EXCEPT !.gas = left]
       /\ gs[n].gas = left /\ gs[n].fuel = Caller.fuel
       /\ gs[n].depth = Caller.depth /\ gs[n].given = Caller.given
       /\ gs[n].charge = Caller.charge
  <2>1. gs[n] = [Caller EXCEPT !.gas = left]
    BY <1>1, <1>9 DEF Caller, n
  <2> QED BY SMTT(40), <1>3, <2>1 DEF Frame
<1>11. Solvent(frames)
  BY DEF GasInv
<1>12. ASSUME NEW k \in 1 .. n
       PROVE  /\ gs[k].depth = k - 1
              /\ gs[k].depth <= MaxDepth
              /\ gs[k].gas <= gs[k].given
              /\ k > 1 => /\ gs[k].given <= gs[k].charge
                          /\ gs[k].charge <= gs[k - 1].gas
                          /\ gs[k - 1].gas - (gs[k].charge - gs[k].given)
                               < gs[k - 1].fuel
  <2>1. ASSUME k > 1 PROVE gs[k - 1] = frames[k - 1]
    <3>1. k - 1 \in 1 .. n /\ k - 1 # n
      BY <1>1, <2>1
    <3> QED BY <1>9, <3>1
  <2>2. /\ frames[k].depth = k - 1
        /\ frames[k].depth <= MaxDepth
        /\ frames[k].gas <= frames[k].given
        /\ k > 1 =>
             /\ frames[k].given <= frames[k].charge
             /\ frames[k].charge <= frames[k - 1].gas
             /\ frames[k - 1].gas - (frames[k].charge - frames[k].given)
                  < frames[k - 1].fuel
    BY <1>1, <1>11 DEF Solvent
  <2>3. CASE k = n
    <3>1. frames[k] = Caller /\ Caller.given \in Nat
      BY <1>3, <2>3 DEF Caller, n, Frame
    <3>2. /\ gs[k].depth = k - 1
          /\ gs[k].depth <= MaxDepth
          /\ gs[k].gas <= gs[k].given
      BY <1>5, <1>7, <1>10, <2>2, <2>3, <3>1
    <3> QED BY <1>10, <2>1, <2>2, <2>3, <3>1, <3>2
  <2>4. CASE k # n
    <3>1. gs[k] = frames[k]
      BY <1>9, <2>4
    <3> QED BY <2>1, <2>2, <3>1
  <2> QED BY <2>3, <2>4
<1> QED BY <1>7, <1>9, <1>10, <1>12 DEF Solvent

-----------------------------------------------------------------------------
(***************************************************************************)
(* The kinds of steps.                                                     *)
(***************************************************************************)
\* An instruction that costs gas and stays in its frame.
LEMMA SpendGas ==
  ASSUME TypeOK, GasInv, status = "running", halt = Running, NEW f \in Frame,
         f.depth = Top.depth, f.given = Top.given, f.charge = Top.charge,
         f.gas < Top.gas, f.fuel = Top.fuel - 1,
         frames' = SetTop(f), UNCHANGED <<halt, status>>
  PROVE  GasInv'
<1>1. Top \in Frame /\ Len(frames) \in Nat \ {0}
  BY TopType
<1>2. Top.gas \in Nat /\ Top.fuel \in Nat /\ f.gas \in Nat
  BY <1>1 DEF Frame
<1>3. Top.gas < Top.fuel
  BY DEF GasInv, FuelSufficient
<1>4. Solvent(frames')
  BY <1>2, SpendSolvent DEF GasInv
<1>5. Top' = f
  BY <1>1, SetTopType DEF Top
<1>6. halt'.gas <= f.gas
  BY <1>2 DEF Running
<1>7. f.gas < f.fuel
  BY <1>2, <1>3
<1> QED BY <1>4, <1>5, <1>6, <1>7 DEF GasInv, FuelSufficient

\* An instruction that enters a callee.
LEMMA EnterGas ==
  ASSUME TypeOK, GasInv, status = "running", halt = Running,
         NEW f \in Frame, NEW new \in Frame,
         f.depth = Top.depth, f.given = Top.given, f.charge = Top.charge,
         f.gas <= Top.gas, f.fuel = Top.fuel - 1,
         new.depth = f.depth + 1, new.depth <= MaxDepth,
         new.gas = new.given, new.fuel = new.given + 1,
         new.given <= new.charge, new.charge <= f.gas,
         f.gas - (new.charge - new.given) < f.fuel,
         frames' = Append(SetTop(f), new), UNCHANGED <<halt, status>>
  PROVE  GasInv'
<1> DEFINE fs == SetTop(f)
<1>1. Solvent(fs)
  BY SpendSolvent DEF GasInv
<1>2. fs \in Seq(Frame) /\ fs # <<>> /\ f = fs[Len(fs)]
  BY SMTT(40), SetTopType, TopType
<1> HIDE DEF fs
<1>3. Solvent(Append(fs, new)) /\ Append(fs, new)[Len(Append(fs, new))] = new
  BY <1>1, <1>2, EnterSolvent
<1>4. Solvent(frames') /\ Top' = new
  BY <1>3 DEF fs, Top
<1>5. new.gas \in Nat
  BY DEF Frame
<1>6. halt'.gas <= new.gas /\ new.gas < new.fuel
  BY <1>5 DEF Running
<1> QED BY <1>4, <1>6 DEF GasInv, FuelSufficient

\* X returns.
LEMMA HaltGas ==
  ASSUME GasInv, status = "running", halt' # Running, halt'.gas <= Top.gas,
         UNCHANGED <<frames, status>>
  PROVE  GasInv'
BY DEF GasInv, FuelSufficient, Top

\* An instruction of a positive cost that stays in its frame.
LEMMA ChargeGas ==
  ASSUME TypeOK, GasInv, NEW op, NEW memory \in Nat, NEW cost \in Nat \ {0},
         Executes(op, memory, cost),
         frames' = SetTop(Charged(memory + cost)), UNCHANGED <<halt, status>>
  PROVE  GasInv'
<1>1. Top \in Frame /\ status = "running" /\ halt = Running
  BY TopType DEF Executes
<1>2. memory + cost \in Nat
  OBVIOUS
<1>3. /\ Charged(memory + cost) \in Frame
      /\ Charged(memory + cost).gas = Top.gas - (memory + cost)
      /\ Charged(memory + cost).fuel = Top.fuel - 1
  BY <1>2, ChargedType
<1>4. Charged(memory + cost).gas < Top.gas
  BY <1>1, <1>3 DEF Frame
<1> QED BY <1>1, <1>3, <1>4, ChargedKeeps, SpendGas

-----------------------------------------------------------------------------
\* No frame is in progress in an initial state.
LEMMA GasInit == Init => GasInv
BY EmptySeq DEF Init, GasInv, Solvent, FuelSufficient

\* The first frame of a transaction.
LEMMA StartGas ==
  ASSUME TypeOK, GasInv, status = "idle", NEW g \in Nat, NEW f,
         f.depth = 0, f.gas = g, f.given = g, f.fuel = g + 1,
         frames' = <<f>>, UNCHANGED halt
  PROVE  GasInv'
<1>1. Top' = f /\ Len(frames') = 1
  BY DEF Top
<1>2. halt' = Running /\ MaxDepth \in Nat
  BY MachineAssumption DEF GasInv, MachineAssumption
<1>3. Solvent(frames')
  BY <1>1, <1>2 DEF Solvent
<1> QED BY <1>1, <1>2, <1>3 DEF GasInv, FuelSufficient, Running

\* Every step of Next keeps the gas invariant.
LEMMA GasStep == TypeOK /\ GasInv /\ [Next]_vars => GasInv'
<1> SUFFICES ASSUME TypeOK, GasInv, [Next]_vars PROVE GasInv'
  OBVIOUS
<1>0. Gwarmaccess \in Nat \ {0} /\ Glog \in Nat \ {0} /\ Gcreate \in Nat \ {0}
  BY FeeScheduleAssumption DEF FeeScheduleAssumption
<1>1. ASSUME NEW s \in Sender(origin), NEW a \in Address, NEW v \in Wei,
             NEW g \in TxGas, StartCall(s, a, v, g) \/ StartCreate(s, a, v, g)
      PROVE  GasInv'
  <2>1. g \in Nat
    BY MachineAssumption DEF MachineAssumption
  <2>2. CASE StartCall(s, a, v, g)
    <3> DEFINE f == ThetaFrame(origin, InitialSubstate({s, a}), s, a,
                               CodeOf(origin, a), g, 0, TRUE, g)
    <3>1. f.depth = 0 /\ f.gas = g /\ f.given = g /\ f.fuel = g + 1
      BY DEF ThetaFrame
    <3>2. status = "idle" /\ frames' = <<f>> /\ UNCHANGED halt
      BY <2>2 DEF StartCall
    <3> QED BY <2>1, <3>1, <3>2, StartGas
  <2>3. CASE StartCreate(s, a, v, g)
    <3> DEFINE f == LambdaFrame(origin, InitialSubstate({s, a}), s, a, g, 0,
                                TRUE, g)
    <3>1. f.depth = 0 /\ f.gas = g /\ f.given = g /\ f.fuel = g + 1
      BY DEF LambdaFrame
    <3>2. status = "idle" /\ frames' = <<f>> /\ UNCHANGED halt
      BY <2>3 DEF StartCreate
    <3> QED BY <2>1, <3>1, <3>2, StartGas
  <2> QED BY <1>1, <2>2, <2>3
<1>2. ASSUME NEW op \in CallOp, NEW t \in Address, NEW asked \in AskedGas,
             NEW memory \in MemoryCost, NEW v \in CallValues(op),
             Call(op, t, v, asked, memory)
      PROVE  GasInv'
  <2> DEFINE A    == AddAccessedAccount(sub, t)
             r    == Recipient(op, t)
             s    == CallSource(op)
             give == CallGas(op, t, v, asked, memory)
             cost == CallCost(op, t, v, asked, memory)
             f    == Charged(memory)
             new  == ThetaFrame(world, A, s, r, CodeOf(world, t), give,
                                Top.depth + 1, CallPerm(op), cost)
  <2>1. asked \in Nat /\ memory \in Nat /\ v \in Uint
    BY MachineAssumption, WordSizeAssumption
    DEF MachineAssumption, WordSizeAssumption, CallValues, Uint
  <2>2. /\ status = "running" /\ r \in Address /\ s \in Address
        /\ give \in Nat /\ cost \in Nat /\ give < cost
        /\ cost <= Top.gas - memory
        /\ f \in Frame /\ f.gas = Top.gas - memory /\ f.fuel = Top.fuel - 1
    BY <1>2, <2>1, CallFrames DEF Call
  <2>3. Top \in Frame /\ halt = Running
    BY <1>2, <2>2, TopType DEF Call, CallExecutes, Executes
  <2>4. /\ Top.depth \in Nat /\ Top.perm \in BOOLEAN
        /\ Top.gas \in Nat /\ Top.fuel \in Nat /\ f.gas \in Nat
    BY <2>2, <2>3 DEF Frame
  <2>5. new \in Frame
    <3>1. A \in Substate /\ world \in AccountMap
      BY SubstateTypes DEF TypeOK
    <3>2. CallPerm(op) \in BOOLEAN /\ Top.depth + 1 \in Nat
      BY <2>4 DEF CallPerm
    <3> QED BY <2>2, <3>1, <3>2, EnteredFrames
  <2>6. /\ new.depth = Top.depth + 1 /\ new.gas = give /\ new.given = give
        /\ new.fuel = give + 1 /\ new.charge = cost
    BY DEF ThetaFrame
  <2>7. /\ f.depth = Top.depth /\ f.given = Top.given /\ f.charge = Top.charge
    BY <2>3, ChargedKeeps
  <2>8. /\ frames' = Append(SetTop(f), new) /\ UNCHANGED <<halt, status>>
        /\ Top.depth < MaxDepth
    BY <1>2 DEF Call, CallGranted
  <2>9. Top.gas < Top.fuel
    BY <2>2, <2>3 DEF GasInv, FuelSufficient
  <2> HIDE DEF give, cost, f, new
  <2>10. MaxDepth \in Nat
    BY MachineAssumption DEF MachineAssumption
  <2>11. /\ f.gas <= Top.gas /\ new.depth <= MaxDepth
         /\ f.gas - (new.charge - new.given) < f.fuel
    <3>1. f.gas <= Top.gas
      BY <2>1, <2>2, <2>4
    <3>2. new.depth <= MaxDepth
      BY <2>4, <2>6, <2>8, <2>10
    <3>3. new.charge - new.given > 0
      BY <2>2, <2>6
    <3>4. f.gas < f.fuel + 1
      BY <2>2, <2>4, <2>9, <3>1
    <3>5. new.charge - new.given \in Int /\ f.fuel \in Int
      BY <2>2, <2>4, <2>6
    <3> QED BY <2>4, <3>1, <3>2, <3>3, <3>4, <3>5
  <2>12. new.given <= new.charge /\ new.charge <= f.gas
    BY <2>2, <2>6
  <2>13. new.depth = f.depth + 1 /\ new.gas = new.given /\ new.fuel = new.given + 1
    BY <2>6, <2>7
  <2> QED BY <2>2, <2>3, <2>5, <2>7, <2>8, <2>11, <2>12, <2>13, EnterGas
<1>3. ASSUME NEW op \in CallOp, NEW t \in Address, NEW asked \in AskedGas,
             NEW memory \in MemoryCost, NEW v \in CallValues(op),
             CallRefused(op, t, v, asked, memory)
      PROVE  GasInv'
  <2> DEFINE give == CallGas(op, t, v, asked, memory)
             cost == CallCost(op, t, v, asked, memory)
             left == Monus(Top.gas - memory, Monus(cost, give))
             f    == [Top EXCEPT !.gas = left, !.fuel = Top.fuel - 1]
  <2>1. asked \in Nat /\ memory \in Nat /\ v \in Uint
    BY MachineAssumption, WordSizeAssumption
    DEF MachineAssumption, WordSizeAssumption, CallValues, Uint
  <2>2. /\ status = "running"
        /\ give \in Nat /\ cost \in Nat /\ give < cost
        /\ cost <= Top.gas - memory
        /\ Top.gas - memory \in Nat /\ Top.fuel - 1 \in Nat
    BY <1>3, <2>1, CallFrames DEF CallRefused
  <2>3. Top \in Frame /\ halt = Running
    BY <1>3, <2>2, TopType DEF CallRefused, CallExecutes, Executes
  <2>4. Top.gas \in Nat
    BY <2>3 DEF Frame
  <2>5. frames' = SetTop(f) /\ UNCHANGED <<halt, status>>
    BY <1>3 DEF CallRefused
  <2> HIDE DEF give, cost
  <2>6. left \in Nat /\ left < Top.gas
    BY <2>1, <2>2, <2>4 DEF Monus
  <2> HIDE DEF left
  <2>7. f \in Frame
    BY <2>2, <2>3, <2>6, FrameFields
  <2>8. /\ f.depth = Top.depth /\ f.given = Top.given /\ f.charge = Top.charge
        /\ f.gas = left /\ f.fuel = Top.fuel - 1
    BY <2>3 DEF Frame
  <2> HIDE DEF f
  <2> QED BY <2>2, <2>3, <2>5, <2>6, <2>7, <2>8, SpendGas
<1>4. ASSUME NEW op \in CreateOp, NEW a \in Address, NEW v \in Wei,
             NEW memory \in MemoryCost, Create(op, a, v, memory)
      PROVE  GasInv'
  <2> DEFINE s    == Top.owner
             cost == memory + Gcreate
             give == L(Top.gas - cost)
             m    == IncrementNonce(world, s)
             A    == AddAccessedAccount(sub, a)
             f    == Charged(cost)
             new  == LambdaFrame(m, A, s, a, give, Top.depth + 1, Top.perm, give)
  <2>1. memory \in Nat /\ v \in Uint /\ MaxDepth \in Nat
    BY MachineAssumption DEF MachineAssumption
  <2>2. /\ status = "running" /\ f \in Frame /\ f.gas = Top.gas - cost
        /\ f.fuel = Top.fuel - 1 /\ give \in Nat /\ give <= Top.gas - cost
    BY <1>4, <2>1, CreateFrames DEF Create
  <2>3. Top \in Frame /\ halt = Running
    BY <1>4, <2>2, TopType DEF Create, CreateExecutes, Executes
  <2>4. /\ s \in Address /\ Top.depth \in Nat /\ Top.perm \in BOOLEAN
        /\ Top.gas \in Nat /\ Top.fuel \in Nat
    BY <2>3 DEF Frame
  <2>5. new \in Frame
    <3>1. A \in Substate /\ m \in AccountMap
      BY <2>4, SubstateTypes, IncrementNonceType DEF TypeOK
    <3>2. Top.depth + 1 \in Nat
      BY <2>4
    <3> HIDE DEF give, A, m
    <3> QED BY <2>2, <2>4, <3>1, <3>2, EnteredFrames
  <2>6. /\ new.depth = Top.depth + 1 /\ new.gas = give /\ new.given = give
        /\ new.fuel = give + 1 /\ new.charge = give
    BY DEF LambdaFrame
  <2>7. /\ f.depth = Top.depth /\ f.given = Top.given /\ f.charge = Top.charge
    BY <2>3, ChargedKeeps
  <2>8. /\ frames' = Append(SetTop(f), new) /\ UNCHANGED <<halt, status>>
        /\ Top.depth < MaxDepth
    BY <1>4 DEF Create, CreateGranted
  <2>9. Top.gas < Top.fuel
    BY <2>2, <2>3 DEF GasInv, FuelSufficient
  <2>10. cost \in Nat \ {0}
    BY <1>0, <2>1
  <2> HIDE DEF give, cost, f, new
  <2>11. /\ f.gas <= Top.gas /\ new.depth <= MaxDepth
         /\ f.gas - (new.charge - new.given) < f.fuel
    BY SMTT(40), <2>1, <2>2, <2>4, <2>6, <2>8, <2>9, <2>10
  <2>12. new.given <= new.charge /\ new.charge <= f.gas
    BY <2>2, <2>6
  <2>13. new.depth = f.depth + 1 /\ new.gas = new.given /\ new.fuel = new.given + 1
    BY <2>6, <2>7
  <2> QED BY <2>2, <2>3, <2>5, <2>7, <2>8, <2>11, <2>12, <2>13, EnterGas
<1>5. ASSUME NEW op \in CreateOp, NEW v \in Wei, NEW memory \in MemoryCost,
             CreateRefused(op, v, memory)
      PROVE  GasInv'
  <2>1. memory \in Nat
    BY MachineAssumption DEF MachineAssumption
  <2>2. /\ Executes(op, memory, Gcreate)
        /\ frames' = SetTop(Charged(memory + Gcreate))
        /\ UNCHANGED <<halt, status>>
    BY <1>5 DEF CreateRefused, CreateExecutes
  <2> QED BY <1>0, <2>1, <2>2, ChargeGas
<1>6. ASSUME NEW slot \in Slot, Sload(slot)
      PROVE  GasInv'
  <2> DEFINE cost == Csload(Top.owner, slot, sub)
  <2>1. cost \in Nat \ {0}
    BY FeeScheduleAssumption DEF Csload, FeeScheduleAssumption
  <2>2. /\ Executes("SLOAD", 0, cost) /\ frames' = SetTop(Charged(cost))
        /\ UNCHANGED <<halt, status>>
    BY <1>6 DEF Sload
  <2> HIDE DEF cost
  <2>3. 0 + cost = cost
    BY <2>1
  <2> QED BY <2>1, <2>2, <2>3, ChargeGas
<1>7. ASSUME NEW slot \in Slot, NEW new \in Word, Sstore(slot, new)
      PROVE  GasInv'
  <2> DEFINE cost == Csstore(Top.owner, slot, StoredWord(origin, Top.owner, slot),
                             StoredWord(world, Top.owner, slot), new, sub)
  <2>1. cost \in Nat \ {0}
    BY FeeScheduleAssumption DEF Csstore, FeeScheduleAssumption
  <2>2. /\ Executes("SSTORE", 0, cost) /\ frames' = SetTop(Charged(cost))
        /\ UNCHANGED <<halt, status>>
    BY <1>7 DEF Sstore
  <2> HIDE DEF cost
  <2>3. 0 + cost = cost
    BY <2>1
  <2> QED BY <2>1, <2>2, <2>3, ChargeGas
<1>8. ASSUME NEW slot \in Slot, NEW new \in Word, Tstore(slot, new)
      PROVE  GasInv'
  <2>1. /\ Executes("TSTORE", 0, Gwarmaccess)
        /\ frames' = SetTop(Charged(Gwarmaccess))
        /\ UNCHANGED <<halt, status>>
    BY <1>8 DEF Tstore
  <2>2. 0 + Gwarmaccess = Gwarmaccess
    BY <1>0
  <2> QED BY <1>0, <2>1, <2>2, ChargeGas
<1>9. ASSUME NEW memory \in MemoryCost, NEW cost \in StepCost,
             Compute(memory, cost)
      PROVE  GasInv'
  <2>1. memory \in Nat /\ cost \in Nat \ {0}
    BY MachineAssumption DEF MachineAssumption
  <2> QED BY <1>9, <2>1, ChargeGas DEF Compute
<1>10. ASSUME NEW memory \in MemoryCost, NEW a \in Address, ReadAccount(a, memory)
       PROVE  GasInv'
  <2>1. memory \in Nat /\ Caccess(a, sub) \in Nat \ {0}
    BY MachineAssumption, CaccessType DEF MachineAssumption
  <2> QED BY <1>10, <2>1, ChargeGas DEF ReadAccount
<1>11. ASSUME NEW memory \in MemoryCost, Log(memory)
       PROVE  GasInv'
  <2>1. memory \in Nat
    BY MachineAssumption DEF MachineAssumption
  <2> QED BY <1>0, <1>11, <2>1, ChargeGas DEF Log
<1>12. ASSUME NEW memory \in MemoryCost, NEW size \in ReturnedSize,
              NEW ef \in BOOLEAN, Return(memory, size, ef)
       PROVE  GasInv'
  <2>1. memory \in Nat /\ size \in Nat
    BY MachineAssumption DEF MachineAssumption
  <2>2. Executes("RETURN", memory, 0)
    BY <1>12 DEF Return
  <2>3. Top \in Frame /\ status = "running" /\ Top.gas - memory \in Nat
    BY <2>1, <2>2, ChargedType, TopType DEF Executes
  <2>4. Top.gas - memory <= Top.gas
    BY <2>1, <2>3 DEF Frame
  <2>5. /\ halt' = [cause |-> "success", gas |-> Top.gas - memory,
                    size |-> size, ef |-> ef]
        /\ UNCHANGED <<frames, status>>
    BY <1>12 DEF Return, Halts
  <2>6. halt' # Running
    BY <2>1, <2>3, <2>5, HaltType
  <2> QED BY <2>3, <2>4, <2>5, <2>6, HaltGas
<1>13. ASSUME NEW memory \in MemoryCost, Revert(memory)
       PROVE  GasInv'
  <2>1. memory \in Nat
    BY MachineAssumption DEF MachineAssumption
  <2>2. Executes("REVERT", memory, 0)
    BY <1>13 DEF Revert
  <2>3. Top \in Frame /\ status = "running" /\ Top.gas - memory \in Nat
    <3>1. Top \in Frame /\ status = "running"
      BY <2>2, TopType DEF Executes
    <3>2. memory <= memory + 0
      BY <2>1
    <3> QED BY <2>1, <2>2, <3>1, <3>2, ChargedType
  <2>4. Top.gas - memory <= Top.gas
    BY <2>1, <2>3 DEF Frame
  <2>5. /\ halt' = [cause |-> "revert", gas |-> Top.gas - memory,
                    size |-> 0, ef |-> FALSE]
        /\ UNCHANGED <<frames, status>>
    BY <1>13 DEF Revert, Halts
  <2>6. halt' # Running
    BY <2>3, <2>5, HaltType
  <2> QED BY <2>3, <2>4, <2>5, <2>6, HaltGas
<1>14. ASSUME NEW r \in Address, Selfdestruct(r)
       PROVE  GasInv'
  <2> DEFINE cost == Cselfdestruct(Top.owner, r, world, sub)
  <2>1. cost \in Nat
    BY FeeScheduleAssumption DEF Cselfdestruct, FeeScheduleAssumption
  <2>2. /\ Executes("SELFDESTRUCT", 0, cost)
        /\ halt' = Success(Top.gas - cost) /\ UNCHANGED <<frames, status>>
    BY <1>14 DEF Selfdestruct, Halts
  <2> HIDE DEF cost
  <2>3. Top \in Frame /\ status = "running" /\ Top.gas - cost \in Nat
    <3>1. Top \in Frame /\ status = "running"
      BY <2>2, TopType DEF Executes
    <3>2. cost <= 0 + cost
      BY <2>1
    <3> QED BY <2>1, <2>2, <3>1, <3>2, ChargedType
  <2>4. Top.gas - cost <= Top.gas
    BY <2>1, <2>3 DEF Frame
  <2>5. halt' # Running /\ halt'.gas = Top.gas - cost
    BY <2>2, <2>3, HaltType DEF Success
  <2> QED BY <2>2, <2>3, <2>4, <2>5, HaltGas
<1>15. CASE Stop
  <2>1. Top \in Frame /\ status = "running"
    BY <1>15, TopType DEF Stop, Halting
  <2>2. Top.gas \in Nat
    BY <2>1 DEF Frame
  <2>3. halt' = Success(Top.gas) /\ UNCHANGED <<frames, status>>
    BY <1>15 DEF Stop, Halts
  <2>4. halt' # Running /\ halt'.gas = Top.gas
    BY <2>2, <2>3, HaltType DEF Success
  <2> QED BY <2>1, <2>2, <2>3, <2>4, HaltGas
<1>16. ASSUME Top \in Frame, status = "running",
              halt' = Failed, UNCHANGED <<frames, status>>
       PROVE  GasInv'
  <2>1. halt' # Running /\ halt'.gas = 0
    BY <1>16 DEF Failed, Running
  <2>2. Top.gas \in Nat
    BY <1>16 DEF Frame
  <2> QED BY <1>16, <2>1, <2>2, HaltGas
<1>17. CASE Fault
  BY <1>16, <1>17, TopType DEF Fault, Halts, Halting
<1>18. CASE RunPrecompile
  <2>1. Top \in Frame /\ status = "running"
    BY <1>18, TopType DEF RunPrecompile, Halting
  <2>2. ASSUME NEW cost \in PrecompileCost, cost <= Top.gas,
               Halts(Success(Top.gas - cost))
        PROVE  GasInv'
    <3>1. cost \in Nat /\ Top.gas \in Nat
      BY <2>1, MachineAssumption DEF Frame, MachineAssumption
    <3>2. Top.gas - cost \in Nat /\ Top.gas - cost <= Top.gas
      BY <2>2, <3>1
    <3>3. halt' = Success(Top.gas - cost) /\ UNCHANGED <<frames, status>>
      BY <2>2 DEF Halts
    <3>4. halt' # Running /\ halt'.gas = Top.gas - cost
      BY <3>2, <3>3, HaltType DEF Success
    <3> QED BY <2>1, <3>2, <3>3, <3>4, HaltGas
  <2> QED BY <1>16, <1>18, <2>1, <2>2 DEF RunPrecompile, Halts
<1>19. CASE Resume
  <2> DEFINE back == FrameResult.gas
  <2>1. status = "running" /\ Len(frames) > 1
    BY <1>19 DEF Resume
  <2>2. back \in Nat /\ back <= halt.gas
    BY <2>1, ResultTypes
  <2>3. Pop[Len(frames) - 1] = Caller
    BY <2>1, PopIndex DEF Caller
  <2>4. /\ frames' = [Pop EXCEPT ![Len(frames) - 1].gas =
                        Monus(Caller.gas, Monus(Top.charge, back))]
        /\ halt' = Running /\ status' = status
    BY <1>19, <2>3 DEF Resume
  <2> HIDE DEF back
  <2>5. Solvent(frames') /\ frames'[Len(frames')].gas < frames'[Len(frames')].fuel
    BY <2>1, <2>2, <2>4, LeaveSolvent
  <2>6. TypeOK'
    BY TypeStep
  <2>7. frames' # <<>> /\ frames' \in Seq(Frame)
    BY <2>1, <2>4, <2>6 DEF TypeOK
  <2>8. Top' \in Frame
    BY <2>7, EmptySeq, ElementOfSeq DEF Top
  <2>9. halt'.gas <= Top'.gas
    BY <2>4, <2>8 DEF Running, Frame
  <2> QED BY <2>1, <2>4, <2>5, <2>9 DEF GasInv, FuelSufficient, Top
<1>20. CASE Finish
  <2>1. frames' = <<>> /\ status' = "done"
    BY <1>20 DEF Finish
  <2> QED BY <2>1 DEF GasInv, Solvent, FuelSufficient
<1>21. CASE UNCHANGED vars
  BY <1>21 DEF vars, GasInv, FuelSufficient, Top
<1> QED
  BY <1>1, <1>2, <1>3, <1>4, <1>5, <1>6, <1>7, <1>8, <1>9, <1>10, <1>11, <1>12,
     <1>13, <1>14, <1>15, <1>17, <1>18, <1>19, <1>20, <1>21
  DEF Next, Start, Instruction, CallInstruction, CreateInstruction,
      StorageInstruction, MemoryInstruction

-----------------------------------------------------------------------------
\* In every reachable state the stack of frames is solvent: X, call and create
\* settle gas, depth and fuel as GasInv says.
THEOREM GasInvariant == Spec => [](TypeOK /\ GasInv)
<1>1. Init => TypeOK /\ GasInv
  BY InitType, GasInit
<1>2. TypeOK /\ GasInv /\ [Next]_vars => (TypeOK /\ GasInv)'
  BY TypeStep, GasStep
<1> QED BY <1>1, <1>2, PTL DEF Spec

(***************************************************************************)
(* The guard of call and create bounds the recursion of X: a frame's depth *)
(* is its place in the stack, at most MaxDepth.                            *)
(***************************************************************************)
THEOREM DepthIsBounded == Spec => []DepthBounded
<1>1. GasInv => DepthBounded
  BY DEF GasInv, Solvent, DepthBounded
<1> QED BY <1>1, GasInvariant, PTL

(***************************************************************************)
(* No subtraction that settles a call or a creation is cut off at zero,    *)
(* whatever the fee schedule that satisfies FeeScheduleAssumption.         *)
(***************************************************************************)
THEOREM GasAlwaysSettles == Spec => []GasSettles
<1>1. TypeOK /\ GasInv => GasSettles
  BY DEF TypeOK, GasInv, Solvent, GasSettles
<1> QED BY <1>1, GasInvariant, PTL

(***************************************************************************)
(* The fuel that makes X terminate is never what stops a program: g + 1    *)
(* rounds are enough for g gas.                                            *)
(***************************************************************************)
THEOREM FuelIsSufficient == Spec => []FuelSufficient
<1>1. GasInv => FuelSufficient
  BY DEF GasInv
<1> QED BY <1>1, GasInvariant, PTL

-----------------------------------------------------------------------------
(***************************************************************************)
(* A transfer of nothing, and one of an account to itself of no more than  *)
(* it has (CALLCODE), leave the account map as it is.                      *)
(***************************************************************************)
\* Crediting a balance with v and debiting it by v gives it back, also if it wraps.
LEMMA WordRoundTrip ==
  ASSUME NEW x \in Uint, NEW v \in Uint
  PROVE  /\ SubWord(AddWord(x, v), v) = x
         /\ AddWord(x, 0) = x /\ SubWord(x, 0) = x
<1>1. WordSize \in Nat \ {0} /\ x \in 0 .. WordSize - 1 /\ v \in 0 .. WordSize - 1
  BY WordSizeAssumption DEF Uint, WordSizeAssumption
<1>4. AddWord(x, 0) = x /\ SubWord(x, 0) = x
  BY <1>1 DEF AddWord, SubWord
<1>2. CASE x + v < WordSize
  <2>1. (x + v) % WordSize = x + v
    BY <1>1, <1>2
  <2>2. x + v + (WordSize - v) = x + WordSize
    BY <1>1
  <2>3. (x + WordSize) % WordSize = x
    BY <1>1
  <2> QED BY <1>4, <2>1, <2>2, <2>3 DEF AddWord, SubWord
<1>3. CASE ~(x + v < WordSize)
  <2>1. (x + v) % WordSize = x + v - WordSize
    BY <1>1, <1>3
  <2>2. (x + v - WordSize) + (WordSize - v) = x
    BY <1>1
  <2>3. x % WordSize = x
    BY <1>1
  <2> QED BY <1>4, <2>1, <2>2, <2>3 DEF AddWord, SubWord
<1> QED BY <1>2, <1>3

\* Setting an account's balance to the one it has changes nothing.
LEMMA WithOwnBalance ==
  ASSUME NEW m \in AccountMap, NEW a \in Address, Exists(m, a)
  PROVE  [m EXCEPT ![a].balance = m[a].balance] = m
<1>1. m[a] \in Account
  BY LookupType
<1>2. [m[a] EXCEPT !.balance = m[a].balance] = m[a]
  BY <1>1 DEF Account
<1>3. [m EXCEPT ![a] = m[a]] = m
  BY DEF AccountMap
<1> QED BY <1>2, <1>3

\* A transfer of nothing changes nothing.
LEMMA TransferNothing ==
  ASSUME NEW m \in AccountMap, NEW s \in Address, NEW r \in Address
  PROVE  Transfer(m, s, r, 0) = m
<1>1. Credit(m, r, 0) = m
  <2>1. CASE Exists(m, r)
    <3>1. AddWord(m[r].balance, 0) = m[r].balance
      BY <2>1, LookupType, WordRoundTrip, WordSizeAssumption
      DEF Account, Uint, WordSizeAssumption
    <3> QED BY <2>1, <3>1, WithOwnBalance DEF Credit
  <2>2. CASE ~Exists(m, r)
    BY <2>2 DEF Credit
  <2> QED BY <2>1, <2>2
<1>2. Debit(m, s, 0) = m
  <2>1. CASE Exists(m, s)
    <3>1. SubWord(m[s].balance, 0) = m[s].balance
      BY <2>1, LookupType, WordRoundTrip, WordSizeAssumption
      DEF Account, Uint, WordSizeAssumption
    <3> QED BY <2>1, <3>1, WithOwnBalance DEF Debit
  <2>2. CASE ~Exists(m, s)
    BY <2>2 DEF Debit
  <2> QED BY <2>1, <2>2
<1> QED BY <1>1, <1>2 DEF Transfer

\* A transfer of an account to itself changes nothing.
LEMMA TransferToItself ==
  ASSUME NEW m \in AccountMap, NEW a \in Address, NEW v \in Uint,
         v <= Balance(m, a)
  PROVE  Transfer(m, a, a, v) = m
<1>1. CASE Exists(m, a)
  <2> DEFINE b == m[a].balance
             c == [m EXCEPT ![a].balance = AddWord(b, v)]
  <2>1. m[a] \in Account /\ b \in Uint
    BY <1>1, LookupType DEF Account
  <2>2. Credit(m, a, v) = c
    BY <1>1 DEF Credit
  <2>3. [m[a] EXCEPT !.balance = AddWord(b, v)] \in Account
    BY <2>1, WordArithmetic, WithBalance
  <2>4. /\ c \in AccountMap
        /\ c[a] = [m[a] EXCEPT !.balance = AddWord(b, v)]
        /\ Exists(c, a)
    BY <2>3, InsertType, NoAccountAssumption
    DEF Exists, AccountMap, NoAccountAssumption
  <2>5. c[a].balance = AddWord(b, v)
    BY <2>1, <2>4 DEF Account
  <2>6. Debit(c, a, v) = [c EXCEPT ![a].balance = b]
    BY <2>1, <2>4, <2>5, WordRoundTrip DEF Debit
  <2>7. [c[a] EXCEPT !.balance = b] = m[a]
    BY <2>1, <2>4 DEF Account
  <2>8. [c EXCEPT ![a] = m[a]] = m
    BY DEF AccountMap
  <2> HIDE DEF c
  <2> QED BY <2>2, <2>6, <2>7, <2>8 DEF Transfer
<1>2. CASE ~Exists(m, a)
  <2>1. v = 0
    BY <1>2, WordSizeAssumption
    DEF Balance, Lookup, DefaultAccount, Uint, WordSizeAssumption
  <2> QED BY <2>1, TransferNothing
<1> QED BY <1>1, <1>2

-----------------------------------------------------------------------------
(***************************************************************************)
(* The kinds of steps.                                                     *)
(***************************************************************************)
\* Instructions that write are only executed when nobody is static.
LEMMA NobodyStatic ==
  ASSUME TypeOK, StaticInv, status = "running", Top.perm
  PROVE  \A k \in 1 .. Len(frames) : frames[k].perm
<1>1. Len(frames) \in Nat \ {0}
  BY TopType
<1> SUFFICES ASSUME NEW k \in 1 .. Len(frames), ~frames[k].perm
             PROVE  FALSE
  OBVIOUS
<1>2. Len(frames) \in k .. Len(frames)
  BY <1>1
<1> QED BY <1>2 DEF StaticInv, Frozen, Top

\* A step that leaves no static frame on the stack keeps StaticInv.
LEMMA WriteStatic ==
  ASSUME \A k \in 1 .. Len(frames') : frames'[k].perm
  PROVE  StaticInv'
BY DEF StaticInv, Frozen

\* Charging gas in a frame of a stack without static frames keeps StaticInv.
LEMMA SpendPerm ==
  ASSUME TypeOK, StaticInv, status = "running", Top.perm,
         NEW f \in Frame, f.perm = Top.perm, frames' = SetTop(f)
  PROVE  StaticInv'
<1>1. \A k \in 1 .. Len(frames) : frames[k].perm
  BY NobodyStatic
<1> QED BY <1>1, SetTopType, WriteStatic

\* An instruction that changes nothing that matters, and stays in its frame.
LEMMA ReadStatic ==
  ASSUME TypeOK, StaticInv, status = "running", NEW f \in Frame,
         f.perm = Top.perm, f.kind = Top.kind, f.world = Top.world,
         f.sub = Top.sub,
         frames' = SetTop(f), world' = world, Accrued(sub') = Accrued(sub)
  PROVE  StaticInv'
<1>1. /\ Len(frames') = Len(frames)
      /\ \A k \in 1 .. Len(frames) :
           frames'[k] = IF k = Len(frames) THEN f ELSE frames[k]
  BY SetTopType
<1>2. \A k \in 1 .. Len(frames) :
        /\ frames'[k].perm = frames[k].perm /\ frames'[k].kind = frames[k].kind
        /\ frames'[k].world = frames[k].world /\ frames'[k].sub = frames[k].sub
  BY <1>1 DEF Top
<1>3. Len(frames) \in Nat
  BY TopType
<1> SUFFICES ASSUME NEW k \in 1 .. Len(frames), ~frames[k].perm,
                    NEW j \in k .. Len(frames)
             PROVE  /\ ~frames[j].perm /\ frames[j].kind = "call"
                    /\ frames[j].world = world
                    /\ Accrued(frames[j].sub) = Accrued(sub)
  <2>1. \A k \in 1 .. Len(frames) : k .. Len(frames) \subseteq 1 .. Len(frames)
    BY <1>3
  <2> QED BY <1>1, <1>2, <2>1 DEF StaticInv, Frozen
<1> QED BY DEF StaticInv, Frozen

\* A call: the callee of a static frame is static, and starts with the same state.
LEMMA EnterStatic ==
  ASSUME TypeOK, StaticInv, status = "running",
         NEW f \in Frame, NEW new \in Frame,
         f.perm = Top.perm, f.kind = Top.kind, f.world = Top.world,
         f.sub = Top.sub, frames' = Append(SetTop(f), new),
         new.perm => Top.perm,
         ~new.perm => /\ new.kind = "call" /\ new.world = world /\ world' = world
                      /\ Accrued(new.sub) = Accrued(sub)
                      /\ Accrued(sub') = Accrued(sub)
  PROVE  StaticInv'
<1> DEFINE n == Len(frames)
<1>1. /\ n \in Nat \ {0}
      /\ SetTop(f) \in Seq(Frame) /\ Len(SetTop(f)) = n
      /\ \A k \in 1 .. n : SetTop(f)[k] = IF k = n THEN f ELSE frames[k]
  BY TopType, SetTopType
<1>2. /\ Len(frames') = n + 1
      /\ frames'[n + 1] = new
      /\ \A k \in 1 .. n : frames'[k] = IF k = n THEN f ELSE frames[k]
  BY <1>1, AppendProperties
<1> HIDE DEF n
<1>3. \A k \in 1 .. n :
        /\ frames'[k].perm = frames[k].perm /\ frames'[k].kind = frames[k].kind
        /\ frames'[k].world = frames[k].world /\ frames'[k].sub = frames[k].sub
  BY <1>2 DEF Top, n
<1>4. CASE new.perm
  <2>1. \A k \in 1 .. n : frames[k].perm
    BY <1>4, NobodyStatic DEF n
  <2>2. \A k \in 1 .. n + 1 : frames'[k].perm
    BY <1>1, <1>2, <1>3, <1>4, <2>1
  <2> QED BY <1>2, <2>2, WriteStatic
<1>5. CASE ~new.perm
  <2> SUFFICES ASSUME NEW k \in 1 .. n + 1, ~frames'[k].perm,
                      NEW j \in k .. n + 1
               PROVE  /\ ~frames'[j].perm /\ frames'[j].kind = "call"
                      /\ frames'[j].world = world'
                      /\ Accrued(frames'[j].sub) = Accrued(sub')
    BY <1>2 DEF StaticInv, Frozen
  <2>1. CASE j = n + 1
    BY <1>2, <1>5, <2>1
  <2>2. CASE j # n + 1
    <3>1. k \in 1 .. n /\ j \in k .. n /\ j \in 1 .. n
      BY <1>1, <2>2
    <3>2. /\ ~frames[j].perm /\ frames[j].kind = "call"
          /\ frames[j].world = world
          /\ Accrued(frames[j].sub) = Accrued(sub)
      BY <1>3, <3>1 DEF StaticInv, Frozen, n
    <3> QED BY <1>3, <1>5, <3>1, <3>2
  <2> QED BY <2>1, <2>2
<1> QED BY <1>4, <1>5

\* X returns and nothing has changed.
LEMMA HaltStatic ==
  ASSUME StaticInv, UNCHANGED <<frames, world, sub>>
  PROVE  StaticInv'
BY DEF StaticInv, Frozen

\* Θ or Λ returns: a static callee gives back the state it was entered with.
LEMMA LeaveStatic ==
  ASSUME TypeOK, StaticInv, Resume
  PROVE  StaticInv'
<1> DEFINE n    == Len(frames) - 1
           left == Monus(Caller.gas, Monus(Top.charge, FrameResult.gas))
<1>1. status = "running" /\ Len(frames) > 1
  BY DEF Resume
<1>2. /\ n \in Nat \ {0} /\ Len(frames) = n + 1
      /\ frames[n + 1] = Top /\ frames[n] = Caller
      /\ \A k \in 1 .. n : frames[k] \in Frame
  BY <1>1, PopIndex, TopType, ElementOfSeq DEF TypeOK, Top, Caller
<1>3. left \in Nat
  <2>1. FrameResult.gas \in Nat
    BY <1>1, ResultTypes
  <2>2. Top.charge \in Nat /\ Caller.gas \in Nat
    BY SMTT(40), <1>1, <1>2, TopType DEF Frame
  <2> QED BY <2>1, <2>2, MonusType
<1>4. frames' = [Pop EXCEPT ![Len(frames) - 1].gas = left]
  <2>1. Pop[Len(frames) - 1] = Caller
    BY <1>1, PopIndex DEF Caller
  <2> QED BY <2>1 DEF Resume
<1> HIDE DEF left
<1>5. /\ Len(frames') = n
      /\ \A k \in 1 .. n : frames'[k] = IF k = n THEN [frames[k] EXCEPT !.gas = left]
                                                 ELSE frames[k]
  BY <1>1, <1>3, <1>4, PopType
<1>6. world' = FrameResult.world /\ sub' = FrameResult.sub
  BY DEF Resume
<1> HIDE DEF n
<1>7. \A k \in 1 .. n :
        /\ frames'[k].perm = frames[k].perm /\ frames'[k].kind = frames[k].kind
        /\ frames'[k].world = frames[k].world /\ frames'[k].sub = frames[k].sub
  BY <1>2, <1>5 DEF Frame
<1>8. CASE Top.perm
  <2>1. \A k \in 1 .. n : frames[k].perm
    BY <1>1, <1>2, <1>8, NobodyStatic
  <2> QED BY <1>5, <1>7, <2>1, WriteStatic
<1>9. CASE ~Top.perm
  <2>1. n + 1 \in 1 .. Len(frames) /\ n + 1 \in n + 1 .. Len(frames)
    BY <1>2
  <2>2. /\ Top.kind = "call" /\ Top.world = world
        /\ Accrued(Top.sub) = Accrued(sub)
    BY <1>2, <1>9, <2>1 DEF StaticInv, Frozen
  <2>3. world' = world /\ Accrued(sub') = Accrued(sub)
    BY <1>6, <2>2 DEF FrameResult, ThetaResult
  <2> SUFFICES ASSUME NEW k \in 1 .. n, ~frames'[k].perm, NEW j \in k .. n
               PROVE  /\ ~frames'[j].perm /\ frames'[j].kind = "call"
                      /\ frames'[j].world = world'
                      /\ Accrued(frames'[j].sub) = Accrued(sub')
    BY <1>5 DEF StaticInv, Frozen
  <2>4. k \in 1 .. Len(frames) /\ j \in k .. Len(frames) /\ j \in 1 .. n
    BY <1>2
  <2>5. /\ ~frames[j].perm /\ frames[j].kind = "call"
        /\ frames[j].world = world
        /\ Accrued(frames[j].sub) = Accrued(sub)
    BY <1>7, <2>4 DEF StaticInv, Frozen
  <2> QED BY <1>7, <2>3, <2>4, <2>5
<1> QED BY <1>8, <1>9

\* An instruction that is charged for and changes nothing that matters.
LEMMA ChargeStatic ==
  ASSUME TypeOK, StaticInv, NEW op, NEW memory \in Nat, NEW cost \in Nat,
         Executes(op, memory, cost), NEW n \in Nat, n = memory + cost,
         frames' = SetTop(Charged(n)),
         Top.perm \/ (world' = world /\ Accrued(sub') = Accrued(sub))
  PROVE  StaticInv'
<1>1. status = "running" /\ Top \in Frame
  BY TopType DEF Executes
<1>2. n <= memory + cost
  OBVIOUS
<1>3. Charged(n) \in Frame
  BY <1>2, ChargedType
<1> QED BY <1>1, <1>3, ChargedKeeps, SpendPerm, ReadStatic

-----------------------------------------------------------------------------
\* No frame is in progress in an initial state.
LEMMA StaticInit == Init => StaticInv
BY EmptySeq DEF Init, StaticInv, Frozen

\* Every step of Next keeps the static invariant.
LEMMA StaticStep == TypeOK /\ StaticInv /\ [Next]_vars => StaticInv'
<1> SUFFICES ASSUME TypeOK, StaticInv, [Next]_vars PROVE StaticInv'
  OBVIOUS
<1>0. Gwarmaccess \in Nat /\ Glog \in Nat /\ Gcreate \in Nat
  BY FeeScheduleAssumption DEF FeeScheduleAssumption
<1>1. ASSUME NEW s \in Sender(origin), NEW a \in Address, NEW v \in Wei,
             NEW g \in TxGas, StartCall(s, a, v, g) \/ StartCreate(s, a, v, g)
      PROVE  StaticInv'
  <2>1. PICK f : frames' = <<f>> /\ f.perm = TRUE
    <3>1. CASE StartCall(s, a, v, g)
      BY <3>1 DEF StartCall, ThetaFrame
    <3>2. CASE StartCreate(s, a, v, g)
      BY <3>2 DEF StartCreate, LambdaFrame
    <3> QED BY <1>1, <3>1, <3>2
  <2>2. \A k \in 1 .. Len(frames') : frames'[k].perm
    BY <2>1
  <2> QED BY <2>2, WriteStatic
<1>2. ASSUME NEW op \in CallOp, NEW t \in Address, NEW asked \in AskedGas,
             NEW memory \in MemoryCost, NEW v \in CallValues(op),
             Call(op, t, v, asked, memory)
      PROVE  StaticInv'
  <2> DEFINE A    == AddAccessedAccount(sub, t)
             r    == Recipient(op, t)
             s    == CallSource(op)
             give == CallGas(op, t, v, asked, memory)
             cost == CallCost(op, t, v, asked, memory)
             f    == Charged(memory)
             new  == ThetaFrame(world, A, s, r, CodeOf(world, t), give,
                                Top.depth + 1, CallPerm(op), cost)
  <2>1. asked \in Nat /\ memory \in Nat /\ v \in Uint
    BY MachineAssumption, WordSizeAssumption
    DEF MachineAssumption, WordSizeAssumption, CallValues, Uint
  <2>2. /\ status = "running" /\ r \in Address /\ s \in Address
        /\ give \in Nat /\ cost \in Nat /\ f \in Frame
    BY <1>2, <2>1, CallFrames DEF Call
  <2>3. Top \in Frame
    BY <2>2, TopType
  <2>4. Top.depth + 1 \in Nat /\ Top.perm \in BOOLEAN /\ Top.owner \in Address
    BY <2>3 DEF Frame
  <2>5. A \in Substate /\ sub \in Substate /\ world \in AccountMap
    BY SubstateTypes DEF TypeOK
  <2>6. CallPerm(op) \in BOOLEAN /\ (CallPerm(op) => Top.perm)
    BY <2>4 DEF CallPerm
  <2>7. new \in Frame
    BY <2>2, <2>4, <2>5, <2>6, EnteredFrames
  <2>8. /\ new.kind = "call" /\ new.world = world /\ new.sub = A
        /\ new.perm = CallPerm(op)
    BY DEF ThetaFrame
  <2>9. /\ frames' = Append(SetTop(f), new) /\ sub' = A
        /\ world' = Transfer(world, s, r, v)
        /\ v <= Balance(world, Top.owner)
        /\ (~Top.perm /\ op = "CALL") => v = 0
    BY <1>2 DEF Call, CallExecutes, CallGranted
  <2>10. Accrued(A) = Accrued(sub)
    BY <2>5, AccessAccruesNothing
  <2>11. ASSUME ~CallPerm(op) PROVE world' = world
    <3>1. CASE v = 0
      BY <2>2, <2>5, <2>9, <3>1, TransferNothing
    <3>2. CASE v # 0
      <4>1. op = "CALLCODE"
        BY <2>9, <2>11, <3>2 DEF CallPerm, CallValues, CallOp
      <4>2. s = Top.owner /\ r = Top.owner
        BY <4>1 DEF CallSource, Recipient
      <4> QED BY <2>1, <2>4, <2>5, <2>9, <4>2, TransferToItself
    <3> QED BY <3>1, <3>2
  <2> HIDE DEF f, new, A
  <2>12. /\ f.perm = Top.perm /\ f.kind = Top.kind /\ f.world = Top.world
         /\ f.sub = Top.sub
    BY <2>3, ChargedKeeps DEF f
  <2> QED
    BY <2>2, <2>6, <2>7, <2>8, <2>9, <2>10, <2>11, <2>12, EnterStatic
<1>3. ASSUME NEW op \in CallOp, NEW t \in Address, NEW asked \in AskedGas,
             NEW memory \in MemoryCost, NEW v \in CallValues(op),
             CallRefused(op, t, v, asked, memory)
      PROVE  StaticInv'
  <2> DEFINE kept == Monus(CallCost(op, t, v, asked, memory),
                           CallGas(op, t, v, asked, memory))
             left == Monus(Top.gas - memory, kept)
             f    == [Top EXCEPT !.gas = left, !.fuel = Top.fuel - 1]
  <2>1. asked \in Nat /\ memory \in Nat /\ v \in Uint
    BY MachineAssumption, WordSizeAssumption
    DEF MachineAssumption, WordSizeAssumption, CallValues, Uint
  <2>2. /\ status = "running"
        /\ CallCost(op, t, v, asked, memory) \in Nat
        /\ CallGas(op, t, v, asked, memory) \in Nat
        /\ Top.gas - memory \in Nat /\ Top.fuel - 1 \in Nat
    BY <1>3, <2>1, CallFrames DEF CallRefused
  <2>3. left \in Nat
    BY <2>2, MonusType
  <2>4. frames' = SetTop(f) /\ world' = world /\ sub' = AddAccessedAccount(sub, t)
    BY <1>3 DEF CallRefused
  <2> HIDE DEF left
  <2>5. Top \in Frame
    BY <2>2, TopType
  <2>6. f \in Frame
    BY <2>2, <2>3, <2>5, FrameFields
  <2>7. f.perm = Top.perm /\ f.kind = Top.kind /\ f.world = Top.world /\ f.sub = Top.sub
    BY <2>5 DEF Frame
  <2>8. Accrued(sub') = Accrued(sub)
    BY <2>4, AccessAccruesNothing DEF TypeOK
  <2> HIDE DEF f
  <2> QED BY <2>2, <2>4, <2>6, <2>7, <2>8, ReadStatic
<1>4. ASSUME NEW op \in CreateOp, NEW a \in Address, NEW v \in Wei,
             NEW memory \in MemoryCost, Create(op, a, v, memory)
      PROVE  StaticInv'
  <2> DEFINE s    == Top.owner
             cost == memory + Gcreate
             give == L(Top.gas - cost)
             m    == IncrementNonce(world, s)
             A    == AddAccessedAccount(sub, a)
             f    == Charged(cost)
             new  == LambdaFrame(m, A, s, a, give, Top.depth + 1, Top.perm, give)
  <2>1. memory \in Nat
    BY MachineAssumption DEF MachineAssumption
  <2>2. status = "running" /\ f \in Frame /\ give \in Nat
    BY <1>4, <2>1, CreateFrames DEF Create
  <2>3. Top \in Frame /\ Top.perm
    BY <1>4, <2>2, TopType DEF Create, CreateExecutes
  <2>4. s \in Address /\ Top.depth + 1 \in Nat /\ Top.perm \in BOOLEAN
    BY <2>3 DEF Frame
  <2>5. m \in AccountMap /\ A \in Substate
    BY <2>4, IncrementNonceType, SubstateTypes DEF TypeOK
  <2>6. new \in Frame
    BY <2>2, <2>4, <2>5, EnteredFrames
  <2>7. new.perm = Top.perm
    BY DEF LambdaFrame
  <2>8. frames' = Append(SetTop(f), new)
    BY <1>4 DEF Create
  <2> HIDE DEF f, new
  <2>9. /\ f.perm = Top.perm /\ f.kind = Top.kind /\ f.world = Top.world
        /\ f.sub = Top.sub
    BY <2>3, ChargedKeeps DEF f
  <2> QED BY <2>2, <2>3, <2>6, <2>7, <2>8, <2>9, EnterStatic
<1>5. ASSUME NEW op \in CreateOp, NEW v \in Wei, NEW memory \in MemoryCost,
             CreateRefused(op, v, memory)
      PROVE  StaticInv'
  <2>1. memory \in Nat
    BY MachineAssumption DEF MachineAssumption
  <2>2. /\ Executes(op, memory, Gcreate) /\ Top.perm
        /\ frames' = SetTop(Charged(memory + Gcreate))
    BY <1>5 DEF CreateRefused, CreateExecutes
  <2>3. memory + Gcreate \in Nat
    BY <1>0, <2>1
  <2> QED BY <1>0, <2>1, <2>2, <2>3, ChargeStatic
<1>6. ASSUME NEW slot \in Slot, Sload(slot)
      PROVE  StaticInv'
  <2> DEFINE cost == Csload(Top.owner, slot, sub)
  <2>1. cost \in Nat
    BY FeeScheduleAssumption DEF Csload, FeeScheduleAssumption
  <2>2. /\ Executes("SLOAD", 0, cost) /\ frames' = SetTop(Charged(cost))
        /\ world' = world /\ sub' = AddAccessedStorageKey(sub, Top.owner, slot)
    BY <1>6 DEF Sload
  <2> HIDE DEF cost
  <2>3. Top.owner \in Address
    BY <2>2, TopType DEF Executes, Frame
  <2>4. Accrued(sub') = Accrued(sub)
    BY <2>2, <2>3, AccessAccruesNothing DEF TypeOK
  <2>5. cost = 0 + cost
    BY <2>1
  <2> QED BY <2>1, <2>2, <2>4, <2>5, ChargeStatic
<1>7. ASSUME NEW slot \in Slot, NEW new \in Word, Sstore(slot, new)
      PROVE  StaticInv'
  <2> DEFINE cost == Csstore(Top.owner, slot, StoredWord(origin, Top.owner, slot),
                             StoredWord(world, Top.owner, slot), new, sub)
  <2>1. cost \in Nat
    BY FeeScheduleAssumption DEF Csstore, FeeScheduleAssumption
  <2>2. /\ Executes("SSTORE", 0, cost) /\ Top.perm
        /\ frames' = SetTop(Charged(cost))
    BY <1>7 DEF Sstore
  <2> HIDE DEF cost
  <2>3. cost = 0 + cost
    BY <2>1
  <2> QED BY <2>1, <2>2, <2>3, ChargeStatic
<1>8. ASSUME NEW slot \in Slot, NEW new \in Word, Tstore(slot, new)
      PROVE  StaticInv'
  <2>1. /\ Executes("TSTORE", 0, Gwarmaccess) /\ Top.perm
        /\ frames' = SetTop(Charged(Gwarmaccess))
    BY <1>8 DEF Tstore
  <2>2. Gwarmaccess = 0 + Gwarmaccess
    BY <1>0
  <2> QED BY <1>0, <2>1, <2>2, ChargeStatic
<1>9. ASSUME NEW memory \in MemoryCost, NEW cost \in StepCost,
             Compute(memory, cost)
      PROVE  StaticInv'
  <2>1. memory \in Nat /\ cost \in Nat /\ memory + cost \in Nat
    BY MachineAssumption DEF MachineAssumption
  <2> QED BY <1>9, <2>1, ChargeStatic DEF Compute
<1>10. ASSUME NEW memory \in MemoryCost, NEW a \in Address, ReadAccount(a, memory)
       PROVE  StaticInv'
  <2>1. memory \in Nat /\ Caccess(a, sub) \in Nat
    BY MachineAssumption, CaccessType DEF MachineAssumption
  <2>2. memory + Caccess(a, sub) \in Nat
    BY <2>1
  <2>3. world' = world /\ Accrued(sub') = Accrued(sub)
    BY <1>10, AccessAccruesNothing DEF ReadAccount, TypeOK
  <2> QED BY <1>10, <2>1, <2>2, <2>3, ChargeStatic DEF ReadAccount
<1>11. ASSUME NEW memory \in MemoryCost, Log(memory)
       PROVE  StaticInv'
  <2>1. memory \in Nat
    BY MachineAssumption DEF MachineAssumption
  <2>2. memory + Glog \in Nat
    BY <1>0, <2>1
  <2> QED BY <1>0, <1>11, <2>1, <2>2, ChargeStatic DEF Log
<1>12. ASSUME NEW memory \in MemoryCost, NEW size \in ReturnedSize,
              NEW ef \in BOOLEAN, Return(memory, size, ef)
       PROVE  StaticInv'
  BY <1>12, HaltStatic DEF Return, Halts
<1>13. ASSUME NEW memory \in MemoryCost, Revert(memory)
       PROVE  StaticInv'
  BY <1>13, HaltStatic DEF Revert, Halts
<1>14. ASSUME NEW r \in Address, Selfdestruct(r)
       PROVE  StaticInv'
  <2>1. Top.perm /\ status = "running" /\ frames' = frames
    BY <1>14 DEF Selfdestruct, Halts, Executes
  <2> QED BY <2>1, NobodyStatic, WriteStatic
<1>15. CASE Stop
  BY <1>15, HaltStatic DEF Stop, Halts
<1>16. CASE Fault
  BY <1>16, HaltStatic DEF Fault, Halts
<1>17. CASE RunPrecompile
  BY <1>17, HaltStatic DEF RunPrecompile, Halts
<1>18. CASE Resume
  BY <1>18, LeaveStatic
<1>19. CASE Finish
  BY <1>19, EmptySeq, WriteStatic DEF Finish
<1>20. CASE UNCHANGED vars
  BY <1>20, HaltStatic DEF vars
<1> QED
  BY <1>1, <1>2, <1>3, <1>4, <1>5, <1>6, <1>7, <1>8, <1>9, <1>10, <1>11, <1>12,
     <1>13, <1>14, <1>15, <1>16, <1>17, <1>18, <1>19, <1>20
  DEF Next, Start, Instruction, CallInstruction, CreateInstruction,
      StorageInstruction, MemoryInstruction

-----------------------------------------------------------------------------
(***************************************************************************)
(* STATICCALL: while a frame without the permission to write is in         *)
(* progress, nothing that outlives the transaction differs from what that  *)
(* frame was entered with, however deep its callees nest and whichever of  *)
(* the four calls they use.                                                *)
(***************************************************************************)
THEOREM StaticCallsAreFrozen == Spec => []StaticFrozen
<1>1. Init => TypeOK /\ StaticInv
  BY InitType, StaticInit
<1>2. TypeOK /\ StaticInv /\ [Next]_vars => (TypeOK /\ StaticInv)'
  BY TypeStep, StaticStep
<1>3. TypeOK /\ StaticInv => StaticFrozen
  <2> SUFFICES ASSUME TypeOK, StaticInv, NEW k \in 1 .. Len(frames),
                      ~frames[k].perm
               PROVE  /\ world = frames[k].world
                      /\ Accrued(sub) = Accrued(frames[k].sub)
    BY DEF StaticFrozen
  <2>1. k \in k .. Len(frames)
    BY DEF TypeOK
  <2> QED BY <2>1 DEF StaticInv, Frozen
<1> QED BY <1>1, <1>2, <1>3, PTL DEF Spec
==============================================================================
