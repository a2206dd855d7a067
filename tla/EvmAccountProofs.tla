-------------------------- MODULE EvmAccountProofs --------------------------
(***************************************************************************)
(* Accounts: AccountInv is inductive; where a code comes from, which       *)
(* accounts are erased, how far a nonce goes, and that calls commit or     *)
(* abort as a whole follow from it.  Then ether and refunds.               *)
(***************************************************************************)
EXTENDS EvmProofs, DataTheorems

(***************************************************************************)
(* What one step does to the account map and the substate: an account, a   *)
(* nonce and a recorded creation stay, a code is set and an account is     *)
(* marked for erasure only where the transaction created it.               *)
(***************************************************************************)
ForwardAt(m, A, m2, A2, a) ==
    /\ Exists(m, a) => Exists(m2, a)
    /\ Lookup(m, a).nonce <= Lookup(m2, a).nonce
    /\ \/ Lookup(m2, a).code = Lookup(m, a).code
       \/ a \in A2.createdAccounts /\ Lookup(m2, a).nonce # 0
    /\ \/ Lookup(m2, a).storage = Lookup(m, a).storage
       \/ Live(m2, a)
    /\ a \in A.createdAccounts => a \in A2.createdAccounts
    /\ a \in A2.createdAccounts => a \in A.createdAccounts \/ Blank(origin, a)
    /\ a \in A2.selfDestructSet =>
           a \in A.selfDestructSet \/ (Blank(origin, a) /\ Exists(m2, a))

Forward(m, A, m2, A2) == \A a \in Address : ForwardAt(m, A, m2, A2, a)

\* Nothing but balances and transient storage differs.
SameButMoney(m, m2) ==
    \A a \in Address :
        /\ Exists(m, a) => Exists(m2, a)
        /\ Lookup(m2, a).nonce = Lookup(m, a).nonce
        /\ Lookup(m2, a).code = Lookup(m, a).code
        /\ Lookup(m2, a).storage = Lookup(m, a).storage

\* The creations and erasures of two substates are the same.
SameMarks(A, A2) ==
    /\ A2.createdAccounts = A.createdAccounts
    /\ A2.selfDestructSet = A.selfDestructSet

-----------------------------------------------------------------------------
(***************************************************************************)
(* The operators of WorldState.                                            *)
(***************************************************************************)
\* Nonces are natural numbers, and so is one more.
LEMMA NonceType ==
  ASSUME NEW m \in AccountMap, NEW a \in Address
  PROVE  /\ Lookup(m, a).nonce \in Nat
         /\ Lookup(m, a).nonce + 1 \in Nat
         /\ Lookup(m, a).nonce <= Lookup(m, a).nonce
         /\ Lookup(m, a).nonce <= Lookup(m, a).nonce + 1
         /\ Lookup(m, a).nonce + 1 # 0
<1>1. Lookup(m, a).nonce \in Nat
  BY LookupType DEF Account
<1> QED BY <1>1

\* Looking up an account after one has been replaced.
LEMMA LookupUpdated ==
  ASSUME NEW m \in AccountMap, NEW a \in Address, NEW acc \in Account,
         NEW b \in Address
  PROVE  LET c == [m EXCEPT ![a] = acc]
         IN  /\ Exists(c, b) <=> (b = a \/ Exists(m, b))
             /\ Lookup(c, b) = IF b = a THEN acc ELSE Lookup(m, b)
BY NoAccountAssumption DEF Exists, Lookup, AccountMap, NoAccountAssumption

\* The parts of an account with another balance.
LEMMA BalanceParts ==
  ASSUME NEW acc \in Account, NEW v \in Uint
  PROVE  LET c == [acc EXCEPT !.balance = v]
         IN  /\ c \in Account
             /\ c.nonce = acc.nonce /\ c.code = acc.code
             /\ c.storage = acc.storage
BY DEF Account

\* Replacing an account by one with the same nonce, code and storage.
LEMMA PartsKept ==
  ASSUME NEW m \in AccountMap, NEW a \in Address, NEW acc \in Account,
         acc.nonce = Lookup(m, a).nonce, acc.code = Lookup(m, a).code,
         acc.storage = Lookup(m, a).storage
  PROVE  SameButMoney(m, [m EXCEPT ![a] = acc])
BY LookupUpdated DEF SameButMoney

\* Another balance for one account is a matter of money.
LEMMA MoneyUpdate ==
  ASSUME NEW m \in AccountMap, NEW a \in Address, NEW v \in Uint
  PROVE  SameButMoney(m, [m EXCEPT ![a] = [Lookup(m, a) EXCEPT !.balance = v]])
<1> DEFINE acc == [Lookup(m, a) EXCEPT !.balance = v]
<1>1. /\ acc \in Account
      /\ acc.nonce = Lookup(m, a).nonce /\ acc.code = Lookup(m, a).code
      /\ acc.storage = Lookup(m, a).storage
  BY LookupType, BalanceParts
<1> HIDE DEF acc
<1>2. SameButMoney(m, [m EXCEPT ![a] = acc])
  BY <1>1, PartsKept
<1> QED BY <1>2 DEF acc

\* Matters of money add up.
LEMMA MoneyTransitive ==
  ASSUME NEW m, NEW m2, NEW m3, SameButMoney(m, m2), SameButMoney(m2, m3)
  PROVE  SameButMoney(m, m3)
BY DEF SameButMoney

\* Θ's credit of the recipient is a matter of money.
LEMMA CreditIsMoney ==
  ASSUME NEW m \in AccountMap, NEW r \in Address, NEW v \in Uint
  PROVE  SameButMoney(m, Credit(m, r, v))
<1>1. CASE Exists(m, r)
  <2>1. Lookup(m, r) = m[r] /\ m[r].balance \in Uint
    BY <1>1, LookupType DEF Account
  <2>2. AddWord(m[r].balance, v) \in Uint
    BY <2>1, WordArithmetic
  <2>3. Credit(m, r, v) = [m EXCEPT ![r] = [Lookup(m, r) EXCEPT
                              !.balance = AddWord(m[r].balance, v)]]
    BY <1>1, <2>1 DEF Credit
  <2> QED BY <2>2, <2>3, MoneyUpdate
<1>2. CASE ~Exists(m, r) /\ v = 0
  BY <1>2 DEF Credit, SameButMoney
<1>3. CASE ~Exists(m, r) /\ v # 0
  <2>1. Credit(m, r, v) = [m EXCEPT ![r] = [Lookup(m, r) EXCEPT !.balance = v]]
    BY <1>3 DEF Credit, Lookup
  <2> QED BY <2>1, MoneyUpdate
<1> QED BY <1>1, <1>2, <1>3

\* So is its debit of the sender.
LEMMA DebitIsMoney ==
  ASSUME NEW m \in AccountMap, NEW s \in Address, NEW v \in Uint
  PROVE  SameButMoney(m, Debit(m, s, v))
<1>1. CASE Exists(m, s)
  <2>1. Lookup(m, s) = m[s] /\ m[s].balance \in Uint
    BY <1>1, LookupType DEF Account
  <2>2. SubWord(m[s].balance, v) \in Uint
    BY <2>1, WordArithmetic
  <2>3. Debit(m, s, v) = [m EXCEPT ![s] = [Lookup(m, s) EXCEPT
                              !.balance = SubWord(m[s].balance, v)]]
    BY <1>1, <2>1 DEF Debit
  <2> QED BY <2>2, <2>3, MoneyUpdate
<1>2. CASE ~Exists(m, s)
  BY <1>2 DEF Debit, SameButMoney
<1> QED BY <1>1, <1>2

\* And therefore its transfer.
LEMMA TransferIsMoney ==
  ASSUME NEW m \in AccountMap, NEW s \in Address, NEW r \in Address,
         NEW v \in Uint
  PROVE  SameButMoney(m, Transfer(m, s, r, v))
<1>1. /\ Credit(m, r, v) \in AccountMap
      /\ SameButMoney(m, Credit(m, r, v))
  BY CreditType, CreditIsMoney
<1>2. SameButMoney(Credit(m, r, v), Debit(Credit(m, r, v), s, v))
  BY <1>1, DebitIsMoney
<1> QED BY <1>1, <1>2, MoneyTransitive DEF Transfer

\* So is what SELFDESTRUCT does to the balances.
LEMMA SweepIsMoney ==
  ASSUME NEW m \in AccountMap, NEW a \in Address, NEW r \in Address,
         NEW born \in BOOLEAN
  PROVE  SameButMoney(m, SweepBalance(m, a, r, born))
<1>0. SameButMoney(m, m)
  BY DEF SameButMoney
<1>1. CASE ~Exists(m, a) \/ (~Exists(m, r) /\ m[a].balance = 0) \/ (r = a /\ ~born)
  BY <1>0, <1>1 DEF SweepBalance
<1>2. CASE ~(~Exists(m, a) \/ (~Exists(m, r) /\ m[a].balance = 0) \/ (r = a /\ ~born))
  <2> DEFINE c == IF r = a THEN m ELSE Credit(m, r, m[a].balance)
  <2>1. m[a].balance \in Uint
    BY <1>2, LookupType DEF Account
  <2>2. c \in AccountMap /\ SameButMoney(m, c)
    BY <1>0, <2>1, CreditType, CreditIsMoney
  <2>3. Exists(c, a)
    BY <1>2, <2>2 DEF SameButMoney
  <2>4. SweepBalance(m, a, r, born) = [c EXCEPT ![a].balance = 0]
    BY <1>2 DEF SweepBalance
  <2> HIDE DEF c
  <2>5. 0 \in Uint
    BY WordSizeAssumption DEF Uint, WordSizeAssumption
  <2>6. c[a] = Lookup(c, a)
    BY <2>3 DEF Lookup
  <2>7. SameButMoney(c, [c EXCEPT ![a].balance = 0])
    BY <2>2, <2>5, <2>6, MoneyUpdate
  <2> QED BY <2>2, <2>4, <2>7, MoneyTransitive
<1> QED BY <1>1, <1>2

\* TSTORE changes nothing that stays.
LEMMA TransientIsMoney ==
  ASSUME NEW m \in AccountMap, NEW a \in Address, NEW slot \in Slot,
         NEW w \in Word
  PROVE  SameButMoney(m, StoreTransient(m, a, slot, w))
<1>1. CASE Exists(m, a)
  <2> DEFINE acc == [m[a] EXCEPT !.tstorage[slot] = w]
  <2>1. m[a] \in Account /\ Lookup(m, a) = m[a]
    BY <1>1, LookupType
  <2>2. /\ acc \in Account
        /\ acc.nonce = Lookup(m, a).nonce /\ acc.code = Lookup(m, a).code
        /\ acc.storage = Lookup(m, a).storage
    BY <2>1 DEF Account, Storage
  <2>3. StoreTransient(m, a, slot, w) = [m EXCEPT ![a] = acc]
    BY <1>1 DEF StoreTransient
  <2> HIDE DEF acc
  <2> QED BY <2>2, <2>3, PartsKept
<1>2. CASE ~Exists(m, a)
  BY <1>2 DEF StoreTransient, SameButMoney
<1> QED BY <1>1, <1>2

-----------------------------------------------------------------------------
(***************************************************************************)
(* Steps forward.                                                          *)
(***************************************************************************)
\* A matter of money with the same marks is a step forward.
LEMMA MoneyForward ==
  ASSUME NEW m \in AccountMap, NEW A, NEW m2, NEW A2,
         SameButMoney(m, m2), SameMarks(A, A2)
  PROVE  Forward(m, A, m2, A2)
<1> SUFFICES ASSUME NEW a \in Address PROVE ForwardAt(m, A, m2, A2, a)
  BY DEF Forward
<1>1. Lookup(m, a).nonce <= Lookup(m2, a).nonce
  BY NonceType DEF SameButMoney
<1> QED BY <1>1 DEF ForwardAt, SameButMoney, SameMarks

\* Warming an account or a slot marks nothing, nor does nothing at all.
LEMMA AccessMarksNothing ==
  ASSUME NEW A \in Substate, NEW a \in Address
  PROVE  /\ SameMarks(A, A)
         /\ SameMarks(A, AddAccessedAccount(A, a))
         /\ \A slot \in Slot : SameMarks(A, AddAccessedStorageKey(A, a, slot))
BY DEF Substate, AddAccessedAccount, AddAccessedStorageKey, SameMarks

\* SSTORE by a live account is a step forward.
LEMMA StoreForward ==
  ASSUME NEW m \in AccountMap, NEW A, NEW A2, NEW a \in Address,
         NEW slot \in Slot, NEW w \in Word, Live(m, a), SameMarks(A, A2)
  PROVE  /\ Forward(m, A, StoreWord(m, a, slot, w), A2)
         /\ \A b \in Address : Lookup(StoreWord(m, a, slot, w), b).nonce
                                 = Lookup(m, b).nonce
<1>1. Exists(m, a)
  BY DEF Live, Lookup, DefaultAccount
<1> DEFINE acc == [m[a] EXCEPT !.storage[slot] = w]
<1>2. m[a] \in Account /\ Lookup(m, a) = m[a]
  BY <1>1, LookupType
<1>3. /\ acc \in Account
      /\ acc.nonce = Lookup(m, a).nonce /\ acc.code = Lookup(m, a).code
  BY <1>2 DEF Account, Storage
<1>4. StoreWord(m, a, slot, w) = [m EXCEPT ![a] = acc]
  BY <1>1 DEF StoreWord
<1> HIDE DEF acc
<1> DEFINE c == [m EXCEPT ![a] = acc]
<1> SUFFICES ASSUME NEW b \in Address
             PROVE  /\ ForwardAt(m, A, c, A2, b)
                    /\ Lookup(c, b).nonce = Lookup(m, b).nonce
  BY <1>4 DEF Forward
<1>5. /\ Exists(m, b) => Exists(c, b)
      /\ Lookup(c, b) = IF b = a THEN acc ELSE Lookup(m, b)
  BY <1>3, LookupUpdated
<1> HIDE DEF c
<1>6. /\ Lookup(c, b).nonce = Lookup(m, b).nonce
      /\ Lookup(c, b).code = Lookup(m, b).code
  BY <1>3, <1>5
<1>7. Lookup(c, b).storage = Lookup(m, b).storage \/ Live(c, b)
  BY <1>5, <1>6 DEF Live
<1>8. Lookup(m, b).nonce <= Lookup(c, b).nonce
  BY <1>6, NonceType
<1> QED BY <1>5, <1>6, <1>7, <1>8 DEF ForwardAt, SameMarks

\* create's increment of the creator's nonce is a step forward.
LEMMA IncrementForward ==
  ASSUME NEW m \in AccountMap, NEW A, NEW A2, NEW s \in Address,
         SameMarks(A, A2)
  PROVE  /\ Forward(m, A, IncrementNonce(m, s), A2)
         /\ Exists(IncrementNonce(m, s), s)
         /\ \A b \in Address :
              Lookup(IncrementNonce(m, s), b).nonce =
                IF b = s THEN Lookup(m, s).nonce + 1 ELSE Lookup(m, b).nonce
<1> DEFINE acc == [Lookup(m, s) EXCEPT !.nonce = @ + 1]
           c   == [m EXCEPT ![s] = acc]
<1>1. Lookup(m, s) \in Account
  BY LookupType
<1>2. /\ acc \in Account
      /\ acc.nonce = Lookup(m, s).nonce + 1 /\ acc.code = Lookup(m, s).code
      /\ acc.storage = Lookup(m, s).storage
  BY <1>1 DEF Account
<1>3. IncrementNonce(m, s) = c
  BY DEF IncrementNonce
<1> HIDE DEF acc
<1>4. Exists(c, s)
  BY <1>2, LookupUpdated
<1> SUFFICES ASSUME NEW b \in Address
             PROVE  /\ ForwardAt(m, A, c, A2, b)
                    /\ Lookup(c, b).nonce = IF b = s THEN Lookup(m, s).nonce + 1
                                                     ELSE Lookup(m, b).nonce
  BY <1>3, <1>4 DEF Forward
<1>5. /\ Exists(m, b) => Exists(c, b)
      /\ Lookup(c, b) = IF b = s THEN acc ELSE Lookup(m, b)
  BY <1>2, LookupUpdated
<1> HIDE DEF c
<1>6. /\ Lookup(c, b).code = Lookup(m, b).code
      /\ Lookup(c, b).storage = Lookup(m, b).storage
      /\ Lookup(c, b).nonce = IF b = s THEN Lookup(m, s).nonce + 1
                                       ELSE Lookup(m, b).nonce
  BY <1>2, <1>5
<1>7. Lookup(m, b).nonce <= Lookup(c, b).nonce
  BY <1>6, NonceType
<1> QED BY <1>5, <1>6, <1>7 DEF ForwardAt, SameMarks

\* Λ's record of a creation is a step forward: a free address was always blank.
LEMMA LambdaMarks ==
  ASSUME NEW m \in AccountMap, NEW A \in Substate, NEW a \in Address,
         Descends(m, A), origin \in AccountMap
  PROVE  LET A2 == LambdaSubstate(m, A, a)
         IN  /\ Forward(m, A, m, A2)
             /\ ~Collides(m, a) => a \in A2.createdAccounts
             /\ A2.selfDestructSet = A.selfDestructSet
<1> DEFINE A2 == LambdaSubstate(m, A, a)
<1>1. /\ A2.selfDestructSet = A.selfDestructSet
      /\ A2.createdAccounts = IF Collides(m, a) THEN A.createdAccounts
                               ELSE A.createdAccounts \cup {a}
  BY DEF LambdaSubstate, Substate
<1> HIDE DEF A2
<1>2. ASSUME ~Collides(m, a) PROVE Blank(origin, a)
  <2>1. /\ Lookup(m, a).nonce = 0 /\ Lookup(m, a).code = 0
        /\ Lookup(m, a).storage = ZeroStorage
        /\ ~Live(m, a)
    BY <1>2 DEF Collides, Live
  <2>2. Lookup(origin, a).nonce \in Nat
    BY NonceType
  <2>3. Lookup(origin, a).nonce <= 0
    BY <2>1 DEF Descends
  <2>4. /\ Lookup(origin, a).code = 0
        /\ Lookup(origin, a).storage = ZeroStorage
    BY <2>1 DEF Descends
  <2> QED BY <2>2, <2>3, <2>4 DEF Blank
<1> SUFFICES ASSUME NEW b \in Address PROVE ForwardAt(m, A, m, A2, b)
  BY <1>1 DEF Forward, A2
<1>3. /\ b \in A.createdAccounts => b \in A2.createdAccounts
      /\ b \in A2.createdAccounts => b \in A.createdAccounts \/ Blank(origin, b)
  BY <1>1, <1>2
<1> QED BY <1>1, <1>3, NonceType DEF ForwardAt

\* Entering a creation is a step forward, and the new account then has a nonce.
LEMMA LambdaForward ==
  ASSUME NEW m \in AccountMap, NEW A \in Substate, NEW s \in Address,
         NEW a \in Address, a # s, Exists(m, s), NEW v \in Uint,
         Descends(m, A), origin \in AccountMap
  PROVE  LET m2 == LambdaWorld(m, s, a, v)
             A2 == LambdaSubstate(m, A, a)
         IN  /\ Forward(m, A, m2, A2)
             /\ \A b \in Address :
                  Lookup(m2, b).nonce = IF b = a THEN Lookup(m, a).nonce + 1
                                                ELSE Lookup(m, b).nonce
<1> DEFINE A2  == LambdaSubstate(m, A, a)
           new == [Lookup(m, a) EXCEPT !.nonce = @ + 1, !.balance = AddWord(v, @)]
           c   == [m EXCEPT ![s] = [Lookup(m, s) EXCEPT
                                      !.balance = SubWord(Lookup(m, s).balance, v)]]
           m2  == [c EXCEPT ![a] = new]
<1>1. LambdaWorld(m, s, a, v) = m2
  BY DEF LambdaWorld, Lookup
<1>2. /\ Lookup(m, a) \in Account
      /\ Lookup(m, a).nonce + 1 \in Nat
      /\ AddWord(v, Lookup(m, a).balance) \in Uint
  BY LookupType, WordArithmetic DEF Account
<1>3. /\ new \in Account
      /\ new.nonce = Lookup(m, a).nonce + 1 /\ new.code = Lookup(m, a).code
      /\ new.storage = Lookup(m, a).storage
  BY <1>2 DEF Account
<1> HIDE DEF new
<1>4. Lookup(m, s).balance \in Uint
  BY LookupType DEF Account
<1>5. SubWord(Lookup(m, s).balance, v) \in Uint
  BY <1>4, WordArithmetic
<1>6. [Lookup(m, s) EXCEPT !.balance = SubWord(Lookup(m, s).balance, v)] \in Account
  BY <1>5, LookupType, WithBalance
<1>7. c \in AccountMap /\ SameButMoney(m, c)
  BY <1>5, <1>6, InsertType, MoneyUpdate
<1> HIDE DEF c
<1>8. Forward(m, A, m, A2) /\ A2.selfDestructSet = A.selfDestructSet
  BY LambdaMarks
<1> HIDE DEF A2
<1> SUFFICES ASSUME NEW b \in Address
             PROVE  /\ ForwardAt(m, A, m2, A2, b)
                    /\ Lookup(m2, b).nonce = IF b = a THEN Lookup(m, a).nonce + 1
                                                      ELSE Lookup(m, b).nonce
  BY <1>1 DEF Forward, A2
<1>9. /\ Exists(m, b) => Exists(m2, b)
      /\ Lookup(m2, b) = IF b = a THEN new ELSE Lookup(c, b)
  BY <1>3, <1>7, LookupUpdated DEF SameButMoney
<1> HIDE DEF m2
<1>10. /\ Lookup(m2, b).nonce = IF b = a THEN Lookup(m, a).nonce + 1
                                         ELSE Lookup(m, b).nonce
       /\ Lookup(m2, b).code = Lookup(m, b).code
       /\ Lookup(m2, b).storage = Lookup(m, b).storage
  BY <1>3, <1>7, <1>9 DEF SameButMoney
<1>11. Lookup(m, b).nonce <= Lookup(m2, b).nonce
  BY <1>10, NonceType
<1> QED BY <1>8, <1>9, <1>10, <1>11 DEF ForwardAt, Forward

-----------------------------------------------------------------------------
(***************************************************************************)
(* Histories.                                                              *)
(***************************************************************************)
\* A live account stays live.
LEMMA LiveForward ==
  ASSUME NEW m \in AccountMap, NEW A, NEW m2 \in AccountMap, NEW A2,
         NEW a \in Address, ForwardAt(m, A, m2, A2, a)
  PROVE  /\ Live(m, a) => Live(m2, a)
         /\ Lookup(m, a).nonce # 0 => Lookup(m2, a).nonce # 0
<1>1. Lookup(m, a).nonce # 0 => Lookup(m2, a).nonce # 0
  <2>1. /\ Lookup(m, a).nonce \in Nat /\ Lookup(m2, a).nonce \in Nat
        /\ Lookup(m, a).nonce <= Lookup(m2, a).nonce
    BY NonceType DEF ForwardAt
  <2> QED BY <2>1
<1> QED BY <1>1 DEF Live, ForwardAt

\* A step forward from a descendant of the checkpoint state leads to one.
LEMMA DescendsForward ==
  ASSUME NEW m \in AccountMap, NEW A, NEW m2 \in AccountMap, NEW A2,
         origin \in AccountMap, Descends(m, A), Forward(m, A, m2, A2)
  PROVE  Descends(m2, A2)
<1> SUFFICES ASSUME NEW a \in Address
             PROVE  /\ Lookup(origin, a).nonce <= Lookup(m2, a).nonce
                    /\ Lookup(m2, a).storage # Lookup(origin, a).storage => Live(m2, a)
                    /\ Lookup(m2, a).code # Lookup(origin, a).code =>
                           a \in A2.createdAccounts /\ Lookup(m2, a).nonce # 0
                    /\ a \in A2.createdAccounts => Blank(origin, a)
                    /\ a \in A2.selfDestructSet => Blank(origin, a) /\ Exists(m2, a)
  BY DEF Descends
<1>1. ForwardAt(m, A, m2, A2, a)
  BY DEF Forward
<1>2. /\ Live(m, a) => Live(m2, a)
      /\ Lookup(m, a).nonce # 0 => Lookup(m2, a).nonce # 0
  BY <1>1, LiveForward
<1>3. Lookup(origin, a).nonce <= Lookup(m2, a).nonce
  <2>1. /\ Lookup(origin, a).nonce \in Nat
        /\ Lookup(m, a).nonce \in Nat /\ Lookup(m2, a).nonce \in Nat
    BY NonceType
  <2>2. /\ Lookup(origin, a).nonce <= Lookup(m, a).nonce
        /\ Lookup(m, a).nonce <= Lookup(m2, a).nonce
    BY <1>1 DEF Descends, ForwardAt
  <2> QED BY <2>1, <2>2
<1>4. Lookup(m2, a).storage # Lookup(origin, a).storage => Live(m2, a)
  BY <1>1, <1>2 DEF Descends, ForwardAt
<1>5. Lookup(m2, a).code # Lookup(origin, a).code =>
        a \in A2.createdAccounts /\ Lookup(m2, a).nonce # 0
  BY <1>1, <1>2 DEF Descends, ForwardAt
<1>6. /\ a \in A2.createdAccounts => Blank(origin, a)
      /\ a \in A2.selfDestructSet => Blank(origin, a) /\ Exists(m2, a)
  BY <1>1 DEF Descends, ForwardAt
<1> QED BY <1>3, <1>4, <1>5, <1>6

\* And every frame that runs code still has its account.
LEMMA RootedForward ==
  ASSUME NEW m \in AccountMap, NEW A, NEW m2 \in AccountMap, NEW A2,
         NEW f \in Frame, Rooted(m, A, f), Forward(m, A, m2, A2)
  PROVE  Rooted(m2, A2, f)
<1>1. f.owner \in Address
  BY DEF Frame
<1>2. ForwardAt(m, A, m2, A2, f.owner)
  BY <1>1 DEF Forward
<1>3. /\ Live(m, f.owner) => Live(m2, f.owner)
      /\ Lookup(m, f.owner).nonce # 0 => Lookup(m2, f.owner).nonce # 0
  BY <1>1, <1>2, LiveForward
<1> QED BY <1>2, <1>3 DEF Rooted, ForwardAt

\* What a frame remembers when it pays for an instruction.
SameActivation(f, g) ==
    /\ g.kind = f.kind /\ g.owner = f.owner /\ g.code = f.code
    /\ g.world = f.world /\ g.sub = f.sub /\ g.given = f.given

\* Rooted reads only that.
LEMMA RootedSame ==
  ASSUME NEW m, NEW A, NEW f, NEW g, SameActivation(f, g), Rooted(m, A, f)
  PROVE  Rooted(m, A, g)
BY DEF SameActivation, Rooted

\* A stack without its innermost frame, and the state that is given back.
LEMMA HistoryLeave ==
  ASSUME NEW fs, NEW gs, NEW n \in Nat, Len(gs) = n, n <= Len(fs), Len(fs) \in Nat,
         \A k \in 1 .. n : SameActivation(fs[k], gs[k]),
         NEW m, NEW A, History(fs, m, A),
         NEW m2, NEW A2, Descends(m2, A2),
         \A k \in 1 .. n : Rooted(m2, A2, fs[k])
  PROVE  History(gs, m2, A2)
<1> SUFFICES ASSUME NEW k \in 1 .. n
             PROVE  /\ Descends(gs[k].world, gs[k].sub)
                    /\ NoncesBelowCap(gs[k].world)
                    /\ gs[k].kind = "create" => gs[k].code \in {"program", "invalid"}
                    /\ Rooted(m2, A2, gs[k])
                    /\ \A j \in k + 1 .. n : Rooted(gs[j].world, gs[j].sub, gs[k])
  BY DEF History
<1>1. k \in 1 .. Len(fs) /\ \A j \in k + 1 .. n : j \in k + 1 .. Len(fs) /\ j \in 1 .. n
  OBVIOUS
<1>2. /\ Descends(fs[k].world, fs[k].sub)
      /\ NoncesBelowCap(fs[k].world)
      /\ fs[k].kind = "create" => fs[k].code \in {"program", "invalid"}
      /\ \A j \in k + 1 .. n : Rooted(fs[j].world, fs[j].sub, fs[k])
  BY <1>1 DEF History
<1>3. \A j \in k + 1 .. n : gs[j].world = fs[j].world /\ gs[j].sub = fs[j].sub
  BY <1>1 DEF SameActivation
<1>4. \A j \in k + 1 .. n : Rooted(gs[j].world, gs[j].sub, gs[k])
  BY <1>2, <1>3, RootedSame
<1>5. Rooted(m2, A2, gs[k])
  BY RootedSame
<1> QED BY <1>2, <1>4, <1>5 DEF SameActivation

\* A step forward in the innermost frame.
LEMMA HistoryStays ==
  ASSUME NEW fs \in Seq(Frame), NEW gs, Len(gs) = Len(fs),
         \A k \in 1 .. Len(fs) : SameActivation(fs[k], gs[k]),
         NEW m \in AccountMap, NEW A, History(fs, m, A), origin \in AccountMap,
         NEW m2 \in AccountMap, NEW A2, Forward(m, A, m2, A2)
  PROVE  History(gs, m2, A2)
<1>1. Len(fs) \in Nat /\ \A k \in 1 .. Len(fs) : fs[k] \in Frame
  BY ElementOfSeq
<1>2. Descends(m2, A2)
  BY DescendsForward DEF History
<1>3. \A k \in 1 .. Len(fs) : Rooted(m2, A2, fs[k])
  BY <1>1, RootedForward DEF History
<1>4. PICK n \in Nat : n = Len(fs)
  BY <1>1
<1>5. n <= Len(fs)
  BY <1>4
<1> QED BY <1>1, <1>2, <1>3, <1>4, <1>5, HistoryLeave

\* A frame is entered: its saved state is a step forward, and so is its first.
LEMMA HistoryEnter ==
  ASSUME NEW fs \in Seq(Frame), NEW gs, NEW n \in Nat, n = Len(fs), Len(gs) = n + 1,
         \A k \in 1 .. n : SameActivation(fs[k], gs[k]),
         NEW m \in AccountMap, NEW A, History(fs, m, A), origin \in AccountMap,
         NEW new, gs[n + 1] = new, NEW c \in AccountMap, NEW B,
         new.world = c, new.sub = B, Forward(m, A, c, B), NoncesBelowCap(c),
         new.kind = "create" => new.code \in {"program", "invalid"},
         NEW m2 \in AccountMap, NEW A2, Forward(c, B, m2, A2), Rooted(m2, A2, new)
  PROVE  History(gs, m2, A2)
<1>1. \A k \in 1 .. n : fs[k] \in Frame
  BY ElementOfSeq
<1>2. Descends(c, B) /\ Descends(m2, A2)
  BY DescendsForward DEF History
<1>3. \A k \in 1 .. n : Rooted(c, B, fs[k]) /\ Rooted(m2, A2, fs[k])
  <2>1. \A k \in 1 .. n : Rooted(c, B, fs[k])
    BY <1>1, RootedForward DEF History
  <2> QED BY <1>1, <2>1, RootedForward
<1> SUFFICES ASSUME NEW k \in 1 .. n + 1
             PROVE  /\ Descends(gs[k].world, gs[k].sub)
                    /\ NoncesBelowCap(gs[k].world)
                    /\ gs[k].kind = "create" => gs[k].code \in {"program", "invalid"}
                    /\ Rooted(m2, A2, gs[k])
                    /\ \A j \in k + 1 .. n + 1 : Rooted(gs[j].world, gs[j].sub, gs[k])
  BY <1>2 DEF History
<1>4. CASE k = n + 1
  BY <1>2, <1>4
<1>5. CASE k # n + 1
  <2>1. k \in 1 .. n
    BY <1>5
  <2>2. /\ Descends(fs[k].world, fs[k].sub)
        /\ NoncesBelowCap(fs[k].world)
        /\ fs[k].kind = "create" => fs[k].code \in {"program", "invalid"}
    BY <2>1 DEF History
  <2>3. Rooted(m2, A2, gs[k]) /\ Rooted(c, B, gs[k])
    BY <1>3, <2>1, RootedSame
  <2>4. ASSUME NEW j \in k + 1 .. n + 1
        PROVE  Rooted(gs[j].world, gs[j].sub, gs[k])
    <3>1. CASE j = n + 1
      BY <2>3, <3>1
    <3>2. CASE j # n + 1
      <4>1. j \in 1 .. n /\ j \in k + 1 .. Len(fs) /\ k \in 1 .. Len(fs)
        BY <2>1, <2>4, <3>2
      <4>2. Rooted(fs[j].world, fs[j].sub, fs[k])
        BY <4>1 DEF History
      <4>3. gs[j].world = fs[j].world /\ gs[j].sub = fs[j].sub
        BY <4>1 DEF SameActivation
      <4> QED BY <2>1, <4>2, <4>3, RootedSame
    <3> QED BY <3>1, <3>2
  <2> QED BY <2>1, <2>2, <2>3, <2>4 DEF SameActivation
<1> QED BY <1>4, <1>5

-----------------------------------------------------------------------------
(***************************************************************************)
(* What Θ and Λ give back.                                                 *)
(***************************************************************************)
\* A state that the innermost caller may be given.
Returnable(m, A) ==
    /\ Descends(m, A)
    /\ NoncesBelowCap(m)
    /\ \A k \in 1 .. Len(frames) - 1 : Rooted(m, A, frames[k])

\* What is a step forward from such a state, with the same nonces, is one too.
LEMMA ReturnableForward ==
  ASSUME TypeOK, status = "running", NEW m \in AccountMap, NEW A,
         Returnable(m, A), NEW m2 \in AccountMap, NEW A2, Forward(m, A, m2, A2),
         \A a \in Address : Lookup(m2, a).nonce = Lookup(m, a).nonce
  PROVE  Returnable(m2, A2)
<1>1. Descends(m2, A2)
  BY DescendsForward DEF Returnable, TypeOK
<1>2. NoncesBelowCap(m2)
  BY DEF Returnable, NoncesBelowCap
<1>3. \A k \in 1 .. Len(frames) - 1 : frames[k] \in Frame
  <2>1. frames \in Seq(Frame) /\ Len(frames) \in Nat
    BY TopType DEF TypeOK
  <2>2. \A k \in 1 .. Len(frames) - 1 : k \in 1 .. Len(frames)
    BY <2>1
  <2> QED BY <2>1, <2>2, ElementOfSeq
<1>4. \A k \in 1 .. Len(frames) - 1 : Rooted(m2, A2, frames[k])
  BY <1>3, RootedForward DEF Returnable
<1> QED BY <1>1, <1>2, <1>4 DEF Returnable

\* Both the state the innermost frame was entered with and the one it is in now.
LEMMA BothReturnable ==
  ASSUME TypeOK, AccountInv, status = "running"
  PROVE  /\ Returnable(Top.world, Top.sub)
         /\ Top.code # "invalid" => Returnable(world, sub)
<1>1. Len(frames) \in Nat \ {0} /\ Top = frames[Len(frames)]
  BY TopType DEF Top
<1>2. Len(frames) \in 1 .. Len(frames)
  BY <1>1
<1>3. Descends(Top.world, Top.sub) /\ NoncesBelowCap(Top.world)
  BY <1>1, <1>2 DEF AccountInv, History
<1>4. ASSUME NEW k \in 1 .. Len(frames) - 1
      PROVE  /\ Rooted(Top.world, Top.sub, frames[k])
             /\ Rooted(world, sub, frames[k])
  <2>1. k \in 1 .. Len(frames) /\ Len(frames) \in k + 1 .. Len(frames)
    BY <1>1
  <2> QED BY <1>1, <2>1 DEF AccountInv, History
<1> QED BY <1>3, <1>4 DEF Returnable, AccountInv, History

\* Setting the code of an account that the transaction created.
LEMMA DepositForward ==
  ASSUME NEW m \in AccountMap, NEW A, NEW a \in Address, NEW n \in Nat,
         a \in A.createdAccounts, Lookup(m, a).nonce # 0
  PROVE  LET c == [m EXCEPT ![a] = [Lookup(m, a) EXCEPT !.code = n]]
         IN  /\ c \in AccountMap
             /\ Forward(m, A, c, A)
             /\ \A b \in Address : Lookup(c, b).nonce = Lookup(m, b).nonce
<1> DEFINE acc == [Lookup(m, a) EXCEPT !.code = n]
           c   == [m EXCEPT ![a] = acc]
<1>1. Lookup(m, a) \in Account
  BY LookupType
<1>2. /\ acc \in Account
      /\ acc.nonce = Lookup(m, a).nonce
      /\ acc.storage = Lookup(m, a).storage
  BY <1>1 DEF Account
<1> HIDE DEF acc
<1>3. c \in AccountMap
  BY <1>2, InsertType
<1> SUFFICES ASSUME NEW b \in Address
             PROVE  /\ ForwardAt(m, A, c, A, b)
                    /\ Lookup(c, b).nonce = Lookup(m, b).nonce
  BY <1>3 DEF Forward, acc
<1>4. /\ Exists(m, b) => Exists(c, b)
      /\ Lookup(c, b) = IF b = a THEN acc ELSE Lookup(m, b)
  BY <1>2, LookupUpdated
<1> HIDE DEF c
<1>5. /\ Lookup(c, b).nonce = Lookup(m, b).nonce
      /\ Lookup(c, b).storage = Lookup(m, b).storage
      /\ b # a => Lookup(c, b).code = Lookup(m, b).code
      /\ b = a => Lookup(c, b).nonce # 0
  BY <1>2, <1>4
<1>6. Lookup(m, b).nonce <= Lookup(c, b).nonce
  BY <1>5, NonceType
<1> QED BY <1>4, <1>5, <1>6 DEF ForwardAt

\* Whatever X has returned, Θ and Λ give back such a state.
LEMMA ResultReturnable ==
  ASSUME TypeOK, AccountInv, status = "running", halt # Running
  PROVE  Returnable(FrameResult.world, FrameResult.sub)
<1>1. /\ Top \in Frame /\ Top.owner \in Address
      /\ Top.world \in AccountMap /\ Top.sub \in Substate
      /\ world \in AccountMap /\ sub \in Substate /\ origin \in AccountMap
      /\ halt.size \in Nat
  BY TopType DEF Frame, Halt, TypeOK
<1>2. Returnable(Top.world, Top.sub)
  BY BothReturnable
<1>3. ASSUME halt.cause = "success"
      PROVE  Top.code # "invalid" /\ Returnable(world, sub)
  BY <1>3, BothReturnable DEF AccountInv
<1>4. CASE Top.kind = "call"
  <2>1. \/ FrameResult.world = Top.world /\ FrameResult.sub = Top.sub
        \/ /\ halt.cause = "success"
           /\ FrameResult.world = world /\ FrameResult.sub = sub
    BY <1>4 DEF FrameResult, ThetaResult
  <2> QED BY <1>2, <1>3, <2>1
<1>5. CASE Top.kind # "call"
  <2>1. FrameResult = LambdaResult /\ Top.kind = "create"
    BY <1>1, <1>5 DEF FrameResult, Frame
  <2>2. CASE halt.cause # "success"
    BY <1>2, <2>1, <2>2 DEF LambdaResult
  <2>3. CASE halt.cause = "success" /\ DepositFails
    <3> DEFINE A == LambdaSubstate(Top.world, Top.sub, Top.owner)
    <3>1. FrameResult.world = Top.world /\ FrameResult.sub = A
      BY <2>1, <2>3 DEF LambdaResult, DepositFailure
    <3>2. Forward(Top.world, Top.sub, Top.world, A)
      BY <1>1, <1>2, LambdaMarks DEF Returnable
    <3> HIDE DEF A
    <3> QED BY <1>1, <1>2, <3>1, <3>2, ReturnableForward
  <2>4. CASE halt.cause = "success" /\ ~DepositFails
    <3> DEFINE c == [world EXCEPT ![Top.owner] =
                       [Lookup(world, Top.owner) EXCEPT !.code = halt.size]]
    <3>1. FrameResult.world = c /\ FrameResult.sub = sub
      BY <2>1, <2>4 DEF LambdaResult
    <3>2. Rooted(world, sub, Top) /\ Top.code = "program"
      <4>1. Len(frames) \in 1 .. Len(frames)
        BY TopType
      <4>2. Rooted(world, sub, Top) /\ Top.code \in {"program", "invalid"}
        BY <2>1, <4>1 DEF AccountInv, History, Top
      <4> QED BY <1>3, <2>4, <4>2
    <3>3. Top.owner \in sub.createdAccounts /\ Lookup(world, Top.owner).nonce # 0
      BY <2>1, <3>2 DEF Rooted
    <3>4. /\ c \in AccountMap /\ Forward(world, sub, c, sub)
          /\ \A b \in Address : Lookup(c, b).nonce = Lookup(world, b).nonce
      BY ZenonT(40), <1>1, <3>3, DepositForward
    <3> HIDE DEF c
    <3> QED BY <1>1, <1>3, <2>4, <3>1, <3>4, ReturnableForward
  <2> QED BY <2>2, <2>3, <2>4
<1> QED BY <1>4, <1>5

-----------------------------------------------------------------------------
(***************************************************************************)
(* The kinds of steps.                                                     *)
(***************************************************************************)
\* AccountInv of the next state, said of its parts.
LEMMA InvariantOfParts ==
  ASSUME origin' = origin, History(frames', world', sub'), status' # "idle",
         status' = "running" =>
           /\ halt'.cause = "success" => Top'.code # "invalid"
           /\ Top'.code = "invalid" \/ NoncesBelowCap(world'),
         status' = "done" => NoncesBelowCap(world')
  PROVE  AccountInv'
<1>1. History(frames, world, sub)'
  BY DEF History, Descends, NoncesBelowCap, Rooted, Blank
<1>2. NoncesBelowCap(world)' <=> NoncesBelowCap(world')
  BY DEF NoncesBelowCap
<1> QED BY <1>1, <1>2 DEF AccountInv

\* The innermost frame of a running machine.
LEMMA TopHistory ==
  ASSUME TypeOK, AccountInv, status = "running"
  PROVE  /\ Rooted(world, sub, Top)
         /\ Top.code = "program" => NoncesBelowCap(world) /\ Live(world, Top.owner)
<1>1. Len(frames) \in 1 .. Len(frames)
  BY TopType
<1>2. Rooted(world, sub, Top)
  BY <1>1 DEF AccountInv, History, Top
<1> QED BY <1>2 DEF AccountInv, Rooted

\* An instruction that stays in its frame and changes no nonce.
LEMMA InPlaceStep ==
  ASSUME TypeOK, AccountInv, status = "running", halt = Running, Top.code = "program",
         NEW f \in Frame, SameActivation(Top, f), frames' = SetTop(f),
         world' \in AccountMap, Forward(world, sub, world', sub'),
         \A a \in Address : Lookup(world', a).nonce = Lookup(world, a).nonce,
         UNCHANGED <<origin, halt, status>>
  PROVE  AccountInv'
<1>1. /\ Len(frames') = Len(frames)
      /\ \A k \in 1 .. Len(frames) :
           frames'[k] = IF k = Len(frames) THEN f ELSE frames[k]
  BY SetTopType
<1>2. \A k \in 1 .. Len(frames) : SameActivation(frames[k], frames'[k])
  BY <1>1 DEF Top, SameActivation
<1>3. History(frames', world', sub')
  BY <1>1, <1>2, HistoryStays DEF TypeOK, AccountInv
<1>4. NoncesBelowCap(world')
  BY TopHistory DEF NoncesBelowCap
<1>5. halt'.cause # "success"
  BY DEF Running
<1> QED BY <1>3, <1>4, <1>5, InvariantOfParts

\* One of those, said with its charge.
LEMMA ChargeStep ==
  ASSUME TypeOK, AccountInv, NEW op, NEW memory \in Nat, NEW cost \in Nat,
         Executes(op, memory, cost), NEW n \in Nat, n = memory + cost,
         frames' = SetTop(Charged(n)), world' \in AccountMap,
         Forward(world, sub, world', sub'),
         \A a \in Address : Lookup(world', a).nonce = Lookup(world, a).nonce,
         UNCHANGED <<origin, halt, status>>
  PROVE  AccountInv'
<1>1. status = "running" /\ halt = Running /\ Top.code = "program" /\ Top \in Frame
  BY TopType DEF Executes
<1>2. n <= memory + cost
  OBVIOUS
<1>3. Charged(n) \in Frame
  BY <1>2, ChargedType
<1>4. SameActivation(Top, Charged(n))
  BY <1>1 DEF SameActivation, Charged, Frame
<1> QED BY <1>1, <1>3, <1>4, InPlaceStep

\* X returns, having changed no nonce.
LEMMA HaltStep ==
  ASSUME TypeOK, AccountInv, status = "running", world' \in AccountMap,
         Forward(world, sub, world', sub'),
         \A a \in Address : Lookup(world', a).nonce = Lookup(world, a).nonce,
         halt'.cause = "success" => Top.code # "invalid",
         UNCHANGED <<origin, frames, status>>
  PROVE  AccountInv'
<1>1. Len(frames) \in Nat /\ frames \in Seq(Frame)
  BY TopType DEF TypeOK
<1>2. \A k \in 1 .. Len(frames) : SameActivation(frames[k], frames'[k])
  BY DEF SameActivation
<1>3. History(frames', world', sub')
  BY <1>1, <1>2, HistoryStays DEF TypeOK, AccountInv
<1>4. Top' = Top
  BY DEF Top
<1>5. Top.code = "invalid" \/ NoncesBelowCap(world')
  BY DEF AccountInv, NoncesBelowCap
<1> QED BY <1>3, <1>4, <1>5, InvariantOfParts

\* X returns and nothing has changed.
LEMMA QuietHaltStep ==
  ASSUME TypeOK, AccountInv, status = "running",
         halt'.cause = "success" => Top.code # "invalid",
         UNCHANGED <<origin, world, sub, frames, status>>
  PROVE  AccountInv'
<1>1. SameButMoney(world, world') /\ SameMarks(sub, sub')
  BY DEF SameButMoney, SameMarks
<1>2. Forward(world, sub, world', sub')
  BY <1>1, MoneyForward DEF TypeOK
<1> QED BY <1>2, HaltStep DEF TypeOK

\* A call or a creation.
LEMMA EnterStep ==
  ASSUME TypeOK, AccountInv, status = "running", halt = Running,
         NEW f \in Frame, SameActivation(Top, f),
         NEW new \in Frame, frames' = Append(SetTop(f), new),
         Forward(world, sub, new.world, new.sub), NoncesBelowCap(new.world),
         new.kind = "create" => new.code \in {"program", "invalid"},
         world' \in AccountMap, Forward(new.world, new.sub, world', sub'),
         Rooted(world', sub', new),
         new.code = "invalid" \/ NoncesBelowCap(world'),
         UNCHANGED <<origin, halt, status>>
  PROVE  AccountInv'
<1>1. PICK n \in Nat : n = Len(frames)
  BY TopType
<1>2. /\ SetTop(f) \in Seq(Frame) /\ Len(SetTop(f)) = n
      /\ \A k \in 1 .. n : SetTop(f)[k] = IF k = n THEN f ELSE frames[k]
  BY <1>1, SetTopType
<1>3. /\ Len(frames') = n + 1
      /\ frames'[n + 1] = new
      /\ \A k \in 1 .. n : frames'[k] = IF k = n THEN f ELSE frames[k]
  BY <1>1, <1>2, AppendProperties
<1>4. \A k \in 1 .. n : SameActivation(frames[k], frames'[k])
  BY <1>1, <1>3 DEF Top, SameActivation
<1>5. new.world \in AccountMap
  BY DEF Frame
<1>6. History(frames', world', sub')
  BY <1>1, <1>3, <1>4, <1>5, HistoryEnter DEF TypeOK, AccountInv
<1>7. Top' = new
  BY <1>3 DEF Top
<1>8. halt'.cause # "success"
  BY DEF Running
<1> QED BY <1>6, <1>7, <1>8, InvariantOfParts

\* The first frame of a transaction, entered with the checkpoint state.
LEMMA StartStep ==
  ASSUME TypeOK, AccountInv, status = "idle", NEW s \in Address, NEW a \in Address,
         NEW new, frames' = <<new>>, new.world = origin,
         new.sub = InitialSubstate({s, a}),
         new.kind = "create" => new.code \in {"program", "invalid"},
         world' \in AccountMap, Forward(origin, new.sub, world', sub'),
         Rooted(world', sub', new),
         new.code = "invalid" \/ NoncesBelowCap(world'),
         status' = "running", UNCHANGED <<origin, halt>>
  PROVE  AccountInv'
<1> DEFINE A == InitialSubstate({s, a})
<1>1. origin \in AccountMap
  BY DEF TypeOK
<1>2. A.selfDestructSet = {} /\ A.createdAccounts = {}
  BY DEF InitialSubstate
<1>3. Descends(origin, A)
  BY <1>1, <1>2, NonceType DEF Descends
<1>4. Forward(origin, A, origin, A)
  BY <1>1, MoneyForward DEF SameButMoney, SameMarks
<1>5. NoncesBelowCap(origin)
  <2>1. \A b \in Address : Lookup(origin, b).nonce \in Nat
    BY <1>1, NonceType
  <2>2. MaxNonce \in Nat
    BY MachineAssumption DEF MachineAssumption
  <2> QED BY <2>1, <2>2 DEF NoncesBelowCap
<1> HIDE DEF A
<1>6. <<>> \in Seq(Frame) /\ Len(<<>>) = 0
  BY EmptySeq
<1>7. History(<<>>, origin, A)
  BY <1>3, <1>6 DEF History
<1>8. Len(frames') = 0 + 1 /\ frames'[0 + 1] = new
  OBVIOUS
<1>9. \A k \in 1 .. 0 : SameActivation(<<>>[k], frames'[k])
  OBVIOUS
<1>10. History(frames', world', sub')
  BY <1>1, <1>4, <1>5, <1>6, <1>7, <1>8, <1>9, HistoryEnter DEF A
<1>11. Top' = new
  BY DEF Top
<1>12. halt'.cause # "success"
  BY DEF AccountInv, Running
<1> QED BY <1>10, <1>11, <1>12, InvariantOfParts

\* A creation at a free address leaves every nonce below the cap.
LEMMA CreationBelowCap ==
  ASSUME NEW m \in AccountMap, NEW a \in Address, NEW m2,
         NoncesBelowCap(m), ~Collides(m, a),
         \A b \in Address : Lookup(m2, b).nonce =
            IF b = a THEN Lookup(m, a).nonce + 1 ELSE Lookup(m, b).nonce,
         origin \in AccountMap
  PROVE  NoncesBelowCap(m2) /\ Lookup(m2, a).nonce # 0
<1>1. MaxNonce \in Nat \ {0}
  BY MachineAssumption DEF MachineAssumption
<1>2. Lookup(m2, a).nonce = 1
  BY DEF Collides
<1>3. Lookup(origin, a).nonce \in Nat
  BY NonceType
<1>4. \A b \in Address : b # a => Lookup(m2, b).nonce = Lookup(m, b).nonce
  OBVIOUS
<1> QED BY <1>1, <1>2, <1>3, <1>4 DEF NoncesBelowCap

\* Nor does the creator's nonce pass the cap, by EIP-2681's condition.
LEMMA CreatorBelowCap ==
  ASSUME NEW m \in AccountMap, NEW A, NEW s \in Address, NEW m2,
         Descends(m, A), NoncesBelowCap(m), Lookup(m, s).nonce < MaxNonce,
         \A b \in Address : Lookup(m2, b).nonce =
            IF b = s THEN Lookup(m, s).nonce + 1 ELSE Lookup(m, b).nonce,
         origin \in AccountMap
  PROVE  NoncesBelowCap(m2)
<1>1. MaxNonce \in Nat
  BY MachineAssumption DEF MachineAssumption
<1>2. Lookup(origin, s).nonce \in Nat /\ Lookup(m, s).nonce \in Nat
  BY NonceType
<1>3. Lookup(origin, s).nonce <= Lookup(m, s).nonce
  BY DEF Descends
<1>4. Lookup(m2, s).nonce <= MaxNonce /\ Lookup(origin, s).nonce < MaxNonce
  BY <1>1, <1>2, <1>3
<1>5. \A b \in Address : b # s => Lookup(m2, b).nonce = Lookup(m, b).nonce
  OBVIOUS
<1> QED BY <1>4, <1>5 DEF NoncesBelowCap

-----------------------------------------------------------------------------
\* The checkpoint state stays as it is.
LEMMA OriginStays ==
  ASSUME Next
  PROVE  origin' = origin
<1>1. Start => origin' = origin
  BY DEF Start, StartCall, StartCreate
<1>2. CallInstruction => origin' = origin
  BY DEF CallInstruction, Call, CallRefused
<1>3. CreateInstruction => origin' = origin
  BY DEF CreateInstruction, Create, CreateRefused
<1>4. StorageInstruction => origin' = origin
  BY DEF StorageInstruction, Sload, Sstore, Tstore
<1>5. MemoryInstruction => origin' = origin
  BY DEF MemoryInstruction, Compute, ReadAccount, Return, Log, Revert, Halts
<1>6. (\E r \in Address : Selfdestruct(r)) \/ Stop \/ Fault \/ RunPrecompile
        => origin' = origin
  BY DEF Selfdestruct, Stop, Fault, RunPrecompile, Halts
<1>7. Resume \/ Finish => origin' = origin
  BY DEF Resume, Finish
<1> QED BY <1>1, <1>2, <1>3, <1>4, <1>5, <1>6, <1>7 DEF Next, Instruction

\* A machine that has not begun is in the checkpoint state.
LEMMA AccountInit == Init => AccountInv
<1> SUFFICES ASSUME Init PROVE AccountInv
  OBVIOUS
<1>1. origin \in AccountMap /\ world = origin /\ frames = <<>>
  BY MachineAssumption DEF Init, MachineAssumption
<1>2. sub.selfDestructSet = {} /\ sub.createdAccounts = {}
  BY DEF Init, InitialSubstate
<1>3. Descends(world, sub)
  BY <1>1, <1>2, NonceType DEF Descends
<1>4. Len(frames) = 0
  BY <1>1, EmptySeq
<1> QED BY <1>3, <1>4 DEF AccountInv, History, Init

\* A transaction starts with a call.
LEMMA StartCallStep ==
  ASSUME TypeOK, TypeOK', AccountInv, NEW s \in Sender(origin), NEW a \in Address,
         NEW v \in Uint, NEW g, StartCall(s, a, v, g)
  PROVE  AccountInv'
<1> DEFINE A   == InitialSubstate({s, a})
           new == ThetaFrame(origin, A, s, a, CodeOf(origin, a), g, 0, TRUE, g)
<1>1. s \in Address /\ v \in Uint /\ origin \in AccountMap /\ world' \in AccountMap
  BY MachineAssumption DEF Sender, MachineAssumption, TypeOK
<1>2. /\ status = "idle" /\ status' = "running" /\ UNCHANGED <<origin, halt>>
      /\ frames' = <<new>> /\ world' = Transfer(origin, s, a, v) /\ sub' = A
  BY DEF StartCall
<1>3. /\ new.world = origin /\ new.sub = A /\ new.kind = "call" /\ new.owner = a
      /\ new.code = CodeOf(origin, a)
  BY DEF ThetaFrame
<1> HIDE DEF new, A
<1>4. SameButMoney(origin, world')
  BY <1>1, <1>2, TransferIsMoney
<1>5. Forward(origin, A, world', sub')
  BY <1>1, <1>2, <1>4, MoneyForward DEF SameMarks
<1>6. Rooted(world', sub', new)
  BY <1>3, <1>4 DEF Rooted, CodeOf, Live, SameButMoney
<1>7. NoncesBelowCap(world')
  <2>1. \A b \in Address : Lookup(origin, b).nonce \in Nat
    BY <1>1, NonceType
  <2>2. MaxNonce \in Nat
    BY MachineAssumption DEF MachineAssumption
  <2> QED BY <1>4, <2>1, <2>2 DEF NoncesBelowCap, SameButMoney
<1> QED BY <1>1, <1>2, <1>3, <1>5, <1>6, <1>7, StartStep DEF A

\* A transaction starts with a creation.
LEMMA StartCreateStep ==
  ASSUME TypeOK, TypeOK', AccountInv, NEW s \in Sender(origin), NEW a \in Address,
         NEW v \in Uint, NEW g, StartCreate(s, a, v, g)
  PROVE  AccountInv'
<1> DEFINE A   == InitialSubstate({s, a})
           new == LambdaFrame(origin, A, s, a, g, 0, TRUE, g)
<1>1. /\ s \in Address /\ Exists(origin, s) /\ v \in Uint
      /\ origin \in AccountMap /\ world' \in AccountMap
  BY MachineAssumption DEF Sender, MachineAssumption, TypeOK
<1>2. /\ status = "idle" /\ status' = "running" /\ UNCHANGED <<origin, halt>>
      /\ frames' = <<new>> /\ world' = LambdaWorld(origin, s, a, v)
      /\ sub' = LambdaSubstate(origin, A, a) /\ a # s
  BY DEF StartCreate, NewAddress
<1>3. /\ new.world = origin /\ new.sub = A /\ new.kind = "create" /\ new.owner = a
      /\ new.code = IF Collides(origin, a) THEN "invalid" ELSE "program"
  BY DEF LambdaFrame
<1>4. A \in Substate /\ A.selfDestructSet = {} /\ A.createdAccounts = {}
  BY <1>1, EmptySeq, MachineAssumption, WordSizeAssumption
  DEF InitialSubstate, Substate, Uint, MachineAssumption, WordSizeAssumption
<1> HIDE DEF new, A
<1>5. Descends(origin, A)
  BY <1>1, <1>4, NonceType DEF Descends
<1>6. /\ Forward(origin, A, world', sub')
      /\ \A b \in Address : Lookup(world', b).nonce =
           IF b = a THEN Lookup(origin, a).nonce + 1 ELSE Lookup(origin, b).nonce
      /\ ~Collides(origin, a) => a \in sub'.createdAccounts
  BY <1>1, <1>2, <1>4, <1>5, LambdaForward, LambdaMarks
<1>7. NoncesBelowCap(origin)
  <2>1. \A b \in Address : Lookup(origin, b).nonce \in Nat
    BY <1>1, NonceType
  <2>2. MaxNonce \in Nat
    BY MachineAssumption DEF MachineAssumption
  <2> QED BY <2>1, <2>2 DEF NoncesBelowCap
<1>8. ~Collides(origin, a) => NoncesBelowCap(world') /\ Lookup(world', a).nonce # 0
  BY <1>1, <1>6, <1>7, CreationBelowCap
<1>9. Rooted(world', sub', new) /\ (new.code = "invalid" \/ NoncesBelowCap(world'))
  BY <1>3, <1>6, <1>8 DEF Rooted, Live
<1> QED BY <1>1, <1>2, <1>3, <1>6, <1>9, StartStep DEF A

\* The four calls.
LEMMA CallStep ==
  ASSUME TypeOK, TypeOK', AccountInv, NEW op \in CallOp, NEW t \in Address,
         NEW asked \in AskedGas, NEW memory \in MemoryCost,
         NEW v \in CallValues(op), Call(op, t, v, asked, memory)
  PROVE  AccountInv'
<1> DEFINE A    == AddAccessedAccount(sub, t)
           r    == Recipient(op, t)
           s    == CallSource(op)
           give == CallGas(op, t, v, asked, memory)
           cost == CallCost(op, t, v, asked, memory)
           f    == Charged(memory)
           new  == ThetaFrame(world, A, s, r, CodeOf(world, t), give,
                              Top.depth + 1, CallPerm(op), cost)
<1>1. asked \in Nat /\ memory \in Nat /\ v \in Uint
  BY MachineAssumption, WordSizeAssumption
  DEF MachineAssumption, WordSizeAssumption, CallValues, Uint
<1>2. /\ status = "running" /\ r \in Address /\ s \in Address
      /\ give \in Nat /\ cost \in Nat /\ f \in Frame
  BY <1>1, CallFrames DEF Call
<1>3. Top \in Frame
  BY <1>2, TopType
<1>4. Top.depth + 1 \in Nat /\ Top.perm \in BOOLEAN /\ Top.owner \in Address
  BY <1>3 DEF Frame
<1>5. /\ A \in Substate /\ sub \in Substate /\ world \in AccountMap
      /\ world' \in AccountMap /\ CallPerm(op) \in BOOLEAN
  BY <1>4, SubstateTypes DEF TypeOK, CallPerm
<1>6. new \in Frame
  BY <1>2, <1>4, <1>5, EnteredFrames
<1>7. /\ new.kind = "call" /\ new.world = world /\ new.sub = A
      /\ new.owner = r /\ new.code = CodeOf(world, t)
  BY DEF ThetaFrame
<1>8. /\ frames' = Append(SetTop(f), new) /\ sub' = A
      /\ world' = Transfer(world, s, r, v) /\ UNCHANGED <<origin, halt, status>>
      /\ Top.code = "program" /\ halt = Running
  BY DEF Call, CallExecutes, Executes
<1>9. SameActivation(Top, f)
  BY <1>3 DEF SameActivation, Charged, Frame
<1> HIDE DEF f, new, A, s
<1>10. SameMarks(sub, A) /\ SameMarks(A, A) /\ SameButMoney(world, world)
  BY <1>5, AccessMarksNothing DEF A, SameButMoney
<1>11. SameButMoney(world, world')
  BY <1>1, <1>2, <1>5, <1>8, TransferIsMoney
<1>12. /\ Forward(world, sub, new.world, new.sub)
       /\ Forward(new.world, new.sub, world', sub')
  BY <1>5, <1>7, <1>8, <1>10, <1>11, MoneyForward
<1>13. NoncesBelowCap(world) /\ Live(world, Top.owner)
  BY <1>2, <1>8, TopHistory
<1>14. Rooted(world', sub', new)
  <2>1. ASSUME new.code = "program"
        PROVE  /\ Live(world, r)
               /\ Lookup(world, r).code # 0 \/ r \in sub.createdAccounts
    <3>1. Lookup(world, t).code # 0
      BY <1>7, <2>1 DEF CodeOf
    <3>2. Rooted(world, sub, Top)
      BY <1>2, TopHistory
    <3> QED BY <1>8, <1>13, <3>1, <3>2 DEF Recipient, Live, Rooted
  <2>2. sub'.createdAccounts = sub.createdAccounts
    BY <1>8, <1>10 DEF SameMarks
  <2> QED BY <1>2, <1>7, <1>11, <2>1, <2>2 DEF Rooted, Live, SameButMoney
<1>15. NoncesBelowCap(world')
  BY <1>11, <1>13 DEF NoncesBelowCap, SameButMoney
<1> QED
  BY <1>2, <1>5, <1>6, <1>7, <1>8, <1>9, <1>12, <1>13, <1>14, <1>15, EnterStep

\* CREATE and CREATE2.
LEMMA CreateStep ==
  ASSUME TypeOK, TypeOK', AccountInv, NEW op \in CreateOp, NEW a \in Address,
         NEW v \in Wei, NEW memory \in MemoryCost, Create(op, a, v, memory)
  PROVE  AccountInv'
<1> DEFINE s    == Top.owner
           cost == memory + Gcreate
           give == L(Top.gas - cost)
           m    == IncrementNonce(world, s)
           A    == AddAccessedAccount(sub, a)
           f    == Charged(cost)
           new  == LambdaFrame(m, A, s, a, give, Top.depth + 1, Top.perm, give)
<1>1. memory \in Nat /\ v \in Uint
  BY MachineAssumption DEF MachineAssumption
<1>2. status = "running" /\ f \in Frame /\ give \in Nat
  BY <1>1, CreateFrames DEF Create
<1>3. Top \in Frame
  BY <1>2, TopType
<1>4. s \in Address /\ Top.depth + 1 \in Nat /\ Top.perm \in BOOLEAN
  BY <1>3 DEF Frame
<1>5. /\ m \in AccountMap /\ A \in Substate /\ sub \in Substate
      /\ world \in AccountMap /\ world' \in AccountMap /\ origin \in AccountMap
  BY <1>4, IncrementNonceType, SubstateTypes DEF TypeOK
<1>6. new \in Frame
  BY <1>2, <1>4, <1>5, EnteredFrames
<1>7. /\ new.kind = "create" /\ new.world = m /\ new.sub = A /\ new.owner = a
      /\ new.code = IF Collides(m, a) THEN "invalid" ELSE "program"
  BY DEF LambdaFrame
<1>8. /\ frames' = Append(SetTop(f), new) /\ sub' = LambdaSubstate(m, A, a)
      /\ world' = LambdaWorld(m, s, a, v) /\ UNCHANGED <<origin, halt, status>>
      /\ Top.code = "program" /\ halt = Running /\ a # s
      /\ Lookup(world, s).nonce < MaxNonce
  BY DEF Create, CreateExecutes, CreateGranted, Executes, NewAddress
<1>9. SameActivation(Top, f)
  BY <1>3 DEF SameActivation, Charged, Frame
<1>10. SameMarks(sub, A)
  BY <1>5, AccessMarksNothing
<1> HIDE DEF f, new, A, s
<1>11. /\ Forward(world, sub, m, A) /\ Exists(m, s)
       /\ \A b \in Address : Lookup(m, b).nonce =
            IF b = s THEN Lookup(world, s).nonce + 1 ELSE Lookup(world, b).nonce
  BY <1>4, <1>5, <1>10, IncrementForward
<1> HIDE DEF m
<1>12. Descends(world, sub) /\ NoncesBelowCap(world)
  BY <1>2, <1>8, TopHistory DEF AccountInv, History
<1>13. Descends(m, A)
  BY <1>5, <1>11, <1>12, DescendsForward
<1>14. NoncesBelowCap(m)
  BY <1>4, <1>5, <1>8, <1>11, <1>12, CreatorBelowCap
<1>15. /\ Forward(m, A, world', sub')
       /\ \A b \in Address : Lookup(world', b).nonce =
            IF b = a THEN Lookup(m, a).nonce + 1 ELSE Lookup(m, b).nonce
       /\ ~Collides(m, a) => a \in sub'.createdAccounts
  BY <1>1, <1>4, <1>5, <1>8, <1>11, <1>13, LambdaForward, LambdaMarks
<1>16. ~Collides(m, a) => NoncesBelowCap(world') /\ Lookup(world', a).nonce # 0
  BY <1>5, <1>14, <1>15, CreationBelowCap
<1>17. Rooted(world', sub', new) /\ (new.code = "invalid" \/ NoncesBelowCap(world'))
  BY <1>7, <1>15, <1>16 DEF Rooted, Live
<1> QED
  BY <1>2, <1>5, <1>6, <1>7, <1>8, <1>9, <1>11, <1>14, <1>15, <1>17, EnterStep

\* SELFDESTRUCT marks the contract only if the transaction created it.
LEMMA SelfdestructStep ==
  ASSUME TypeOK, TypeOK', AccountInv, NEW r \in Address, Selfdestruct(r)
  PROVE  AccountInv'
<1> DEFINE a    == Top.owner
           born == Born(a)
           A    == AddAccessedAccount(sub, r)
<1>1. /\ status = "running" /\ halt = Running /\ Top.code = "program"
      /\ world' = SweepBalance(world, a, r, born)
      /\ sub' = IF born THEN [A EXCEPT !.selfDestructSet = @ \cup {a}] ELSE A
      /\ UNCHANGED <<origin, frames, status>>
  BY DEF Selfdestruct, Executes, Halts
<1>2. /\ Top \in Frame /\ a \in Address /\ sub \in Substate
      /\ world \in AccountMap /\ world' \in AccountMap /\ born \in BOOLEAN
  BY <1>1, TopType DEF Frame, TypeOK, Born
<1>3. SameButMoney(world, world')
  BY <1>1, <1>2, SweepIsMoney
<1>4. /\ sub'.createdAccounts = sub.createdAccounts
      /\ sub'.selfDestructSet = IF born THEN sub.selfDestructSet \cup {a}
                                ELSE sub.selfDestructSet
  BY <1>1, <1>2 DEF Substate, AddAccessedAccount
<1>5. born => Blank(origin, a) /\ Exists(world', a)
  <2>1. Live(world, a) /\ Descends(world, sub)
    BY <1>1, TopHistory DEF AccountInv, History
  <2>2. Exists(world, a)
    BY <2>1 DEF Live, Lookup, DefaultAccount
  <2> QED BY <1>2, <1>3, <2>1, <2>2 DEF Born, Descends, SameButMoney
<1> HIDE DEF born, a
<1>6. Forward(world, sub, world', sub')
  <2> SUFFICES ASSUME NEW b \in Address PROVE ForwardAt(world, sub, world', sub', b)
    BY DEF Forward
  <2>1. Lookup(world, b).nonce <= Lookup(world', b).nonce
    BY <1>2, <1>3, NonceType DEF SameButMoney
  <2>2. b \in sub'.selfDestructSet =>
          b \in sub.selfDestructSet \/ (Blank(origin, b) /\ Exists(world', b))
    BY <1>4, <1>5
  <2> QED BY <1>3, <1>4, <2>1, <2>2 DEF ForwardAt, SameButMoney
<1>7. \A b \in Address : Lookup(world', b).nonce = Lookup(world, b).nonce
  BY <1>3 DEF SameButMoney
<1>8. Top.code # "invalid"
  BY <1>1
<1> QED BY <1>1, <1>2, <1>6, <1>7, <1>8, HaltStep

\* What Resume does to the frames: the caller gets gas back, the others stay.
LEMMA ResumePops ==
  ASSUME TypeOK, Resume, NEW n \in Nat \ {0}, n = Len(frames) - 1
  PROVE  /\ n \in Nat /\ n <= Len(frames) /\ Len(frames) = n + 1
         /\ Len(frames') = n
         /\ frames[n] = Caller /\ frames[n + 1] = Top
         /\ \A k \in 1 .. n : frames[k] \in Frame
         /\ LET left == Monus(Caller.gas, Monus(Top.charge, FrameResult.gas))
            IN  /\ left \in Nat
                /\ \A k \in 1 .. n :
                     frames'[k] = IF k = n THEN [frames[k] EXCEPT !.gas = left]
                                           ELSE frames[k]
         /\ \A k \in 1 .. n : SameActivation(frames[k], frames'[k])
<1>1. /\ status = "running" /\ Len(frames) > 1 /\ halt # Running
  BY DEF Resume
<1>2. /\ Len(frames) = n + 1 /\ frames[n] = Caller /\ n <= Len(frames)
      /\ \A k \in 1 .. n : frames[k] \in Frame
  <2>1. frames \in Seq(Frame) /\ Len(frames) \in Nat
    BY DEF TypeOK
  <2>2. Len(frames) = n + 1 /\ \A k \in 1 .. n : k \in 1 .. Len(frames)
    BY <2>1
  <2> QED BY <2>1, <2>2, ElementOfSeq DEF Caller
<1> DEFINE left == Monus(Caller.gas, Monus(Top.charge, FrameResult.gas))
<1>3. left \in Nat
  <2>1. FrameResult.gas \in Nat
    BY <1>1, ResultTypes
  <2>2. Top.charge \in Nat /\ Caller.gas \in Nat
    BY SMTT(40), <1>1, <1>2, TopType DEF Frame
  <2> QED BY <2>1, <2>2, MonusType
<1>4. frames' = [Pop EXCEPT ![Len(frames) - 1].gas = left]
  <2>1. Pop[Len(frames) - 1] = Caller
    BY <1>1, PopIndex DEF Caller
  <2> QED BY <2>1 DEF Resume
<1> HIDE DEF left
<1>5. /\ Len(frames') = n
      /\ \A k \in 1 .. n : frames'[k] = IF k = n THEN [frames[k] EXCEPT !.gas = left]
                                                 ELSE frames[k]
  BY <1>1, <1>3, <1>4, PopType
<1>6. \A k \in 1 .. n : SameActivation(frames[k], frames'[k])
  BY <1>2, <1>5 DEF SameActivation, Frame
<1>7. frames[n + 1] = Top
  BY <1>2 DEF Top
<1> QED BY <1>2, <1>3, <1>5, <1>6, <1>7 DEF left

\* Θ or Λ returns to a caller.
LEMMA ResumeStep ==
  ASSUME TypeOK, TypeOK', AccountInv, Resume
  PROVE  AccountInv'
<1>1. /\ status = "running" /\ Len(frames) > 1 /\ halt # Running
      /\ world' = FrameResult.world /\ sub' = FrameResult.sub
      /\ halt' = Running /\ UNCHANGED <<origin, status>>
  BY DEF Resume
<1>2. PICK n \in Nat \ {0} : n = Len(frames) - 1
  BY <1>1, PopIndex
<1>3. /\ n \in Nat /\ Len(frames) = n + 1 /\ Len(frames') = n
      /\ \A k \in 1 .. n : SameActivation(frames[k], frames'[k])
  BY <1>2, ResumePops
<1>8. Returnable(world', sub')
  BY <1>1, ResultReturnable
<1>9. /\ Descends(world', sub') /\ NoncesBelowCap(world')
      /\ \A k \in 1 .. n : Rooted(world', sub', frames[k])
  BY <1>2, <1>8 DEF Returnable
<1>10. n <= Len(frames) /\ Len(frames) \in Nat /\ n \in Nat
  BY <1>3
<1>11. History(frames', world', sub')
  BY <1>3, <1>9, <1>10, HistoryLeave DEF AccountInv
<1>12. halt'.cause # "success"
  BY <1>1 DEF Running
<1> QED BY <1>1, <1>9, <1>11, <1>12, InvariantOfParts

\* Θ or Λ returns to Υ.
LEMMA FinishStep ==
  ASSUME TypeOK, TypeOK', AccountInv, Finish
  PROVE  AccountInv'
<1>1. /\ status = "running" /\ halt # Running
      /\ world' = FrameResult.world /\ sub' = FrameResult.sub
      /\ frames' = <<>> /\ status' = "done" /\ origin' = origin
  BY DEF Finish
<1>2. Returnable(world', sub')
  BY <1>1, ResultReturnable
<1>3. Len(frames') = 0
  BY <1>1, EmptySeq
<1>4. History(frames', world', sub')
  BY <1>2, <1>3 DEF History, Returnable
<1> QED BY <1>1, <1>2, <1>4, InvariantOfParts DEF Returnable

\* SSTORE marks nothing for erasure, nor as created.
LEMMA SstoreMarks ==
  ASSUME TypeOK, NEW slot \in Slot, NEW new, Sstore(slot, new)
  PROVE  SameMarks(sub, sub')
<1> DEFINE A == AddAccessedStorageKey(sub, Top.owner, slot)
<1>1. Top.owner \in Address /\ sub \in Substate
  BY TopType DEF Sstore, Executes, Frame, TypeOK
<1>2. A \in Substate /\ SameMarks(sub, A) /\ SameMarks(sub, sub)
  BY <1>1, SubstateTypes, AccessMarksNothing
<1>3. PICK n : sub' = IF Exists(world, Top.owner) THEN [A EXCEPT !.refundBalance = n]
                      ELSE sub
  BY DEF Sstore
<1>4. SameMarks(A, [A EXCEPT !.refundBalance = n])
  BY <1>2 DEF Substate, SameMarks
<1> QED BY <1>2, <1>3, <1>4 DEF SameMarks

\* SSTORE, by a contract that has an account.
LEMMA SstoreStep ==
  ASSUME TypeOK, TypeOK', AccountInv, NEW slot \in Slot, NEW new \in Word,
         Sstore(slot, new)
  PROVE  AccountInv'
<1> DEFINE a    == Top.owner
           cost == Csstore(a, slot, StoredWord(origin, a, slot),
                           StoredWord(world, a, slot), new, sub)
<1>1. cost \in Nat /\ cost = 0 + cost
  BY FeeScheduleAssumption DEF Csstore, FeeScheduleAssumption
<1>2. /\ Executes("SSTORE", 0, cost) /\ frames' = SetTop(Charged(cost))
      /\ world' = StoreWord(world, a, slot, new)
      /\ UNCHANGED <<origin, halt, status>>
  BY DEF Sstore
<1> HIDE DEF cost
<1>3. /\ status = "running" /\ Top.code = "program" /\ a \in Address
      /\ world \in AccountMap /\ world' \in AccountMap /\ sub \in Substate
  BY <1>2, TopType DEF Executes, Frame, TypeOK
<1>4. Live(world, a)
  BY <1>3, TopHistory
<1>5. SameMarks(sub, sub')
  BY SstoreMarks
<1>6. /\ Forward(world, sub, world', sub')
      /\ \A b \in Address : Lookup(world', b).nonce = Lookup(world, b).nonce
  BY <1>2, <1>3, <1>4, <1>5, StoreForward
<1> QED BY <1>1, <1>2, <1>3, <1>6, ChargeStep

\* An instruction that is paid for and changes nothing but money and warmth.
LEMMA ReadStep ==
  ASSUME TypeOK, TypeOK', AccountInv, NEW op, NEW memory \in Nat, NEW cost \in Nat,
         Executes(op, memory, cost), frames' = SetTop(Charged(memory + cost)),
         SameButMoney(world, world'), SameMarks(sub, sub'),
         UNCHANGED <<origin, halt, status>>
  PROVE  AccountInv'
<1>1. world \in AccountMap /\ world' \in AccountMap
  BY DEF TypeOK
<1>2. Forward(world, sub, world', sub')
  BY <1>1, MoneyForward
<1>3. \A a \in Address : Lookup(world', a).nonce = Lookup(world, a).nonce
  BY DEF SameButMoney
<1>4. memory + cost \in Nat
  OBVIOUS
<1> QED BY <1>1, <1>2, <1>3, <1>4, ChargeStep

\* A refused call stays in its frame.
LEMMA RefusedStays ==
  ASSUME TypeOK, NEW op \in CallOp, NEW t \in Address, NEW asked \in AskedGas,
         NEW memory \in MemoryCost, NEW v \in CallValues(op),
         CallRefused(op, t, v, asked, memory)
  PROVE  \E f \in Frame : SameActivation(Top, f) /\ frames' = SetTop(f)
<1> DEFINE kept == Monus(CallCost(op, t, v, asked, memory),
                         CallGas(op, t, v, asked, memory))
           left == Monus(Top.gas - memory, kept)
           f    == [Top EXCEPT !.gas = left, !.fuel = Top.fuel - 1]
<1>1. asked \in Nat /\ memory \in Nat /\ v \in Uint
  BY MachineAssumption, WordSizeAssumption
  DEF MachineAssumption, WordSizeAssumption, CallValues, Uint
<1>2. /\ status = "running"
      /\ CallCost(op, t, v, asked, memory) \in Nat
      /\ CallGas(op, t, v, asked, memory) \in Nat
      /\ Top.gas - memory \in Nat /\ Top.fuel - 1 \in Nat
  BY <1>1, CallFrames DEF CallRefused
<1>3. left \in Nat /\ Top \in Frame
  BY <1>2, MonusType, TopType
<1>4. frames' = SetTop(f)
  BY DEF CallRefused
<1> HIDE DEF left
<1>5. f \in Frame
  BY <1>2, <1>3, FrameFields
<1>6. SameActivation(Top, f)
  BY <1>3 DEF Frame, SameActivation
<1> QED BY <1>4, <1>5, <1>6

\* Every step of Next keeps the history of the accounts.
LEMMA AccountStep == TypeOK /\ TypeOK' /\ AccountInv /\ [Next]_vars => AccountInv'
<1> SUFFICES ASSUME TypeOK, TypeOK', AccountInv, [Next]_vars PROVE AccountInv'
  OBVIOUS
<1>0. /\ Gwarmaccess \in Nat /\ Glog \in Nat /\ Gcreate \in Nat
      /\ SameButMoney(world, world) /\ sub \in Substate /\ SameMarks(sub, sub)
      /\ world \in AccountMap
      /\ \A memory \in MemoryCost : memory \in Nat
      /\ \A cost \in StepCost : cost \in Nat
  BY FeeScheduleAssumption, MachineAssumption
  DEF FeeScheduleAssumption, MachineAssumption, SameButMoney, SameMarks, TypeOK
<1>1. ASSUME NEW s \in Sender(origin), NEW a \in Address, NEW v \in Wei,
             NEW g \in TxGas, StartCall(s, a, v, g) \/ StartCreate(s, a, v, g)
      PROVE  AccountInv'
  <2>1. v \in Uint
    BY MachineAssumption DEF MachineAssumption
  <2> QED BY <1>1, <2>1, StartCallStep, StartCreateStep
<1>2. ASSUME NEW op \in CallOp, NEW t \in Address, NEW asked \in AskedGas,
             NEW memory \in MemoryCost, NEW v \in CallValues(op),
             Call(op, t, v, asked, memory)
      PROVE  AccountInv'
  BY <1>2, CallStep
<1>3. ASSUME NEW op \in CallOp, NEW t \in Address, NEW asked \in AskedGas,
             NEW memory \in MemoryCost, NEW v \in CallValues(op),
             CallRefused(op, t, v, asked, memory)
      PROVE  AccountInv'
  <2>1. PICK f \in Frame : SameActivation(Top, f) /\ frames' = SetTop(f)
    BY <1>3, RefusedStays
  <2>2. /\ status = "running" /\ halt = Running /\ Top.code = "program"
        /\ world' = world /\ sub' = AddAccessedAccount(sub, t)
        /\ UNCHANGED <<origin, halt, status>>
    BY <1>3 DEF CallRefused, CallExecutes, Executes
  <2>3. Forward(world, sub, world', sub')
    BY <1>0, <2>2, AccessMarksNothing, MoneyForward
  <2> QED BY <1>0, <2>1, <2>2, <2>3, InPlaceStep
<1>4. ASSUME NEW op \in CreateOp, NEW a \in Address, NEW v \in Wei,
             NEW memory \in MemoryCost, Create(op, a, v, memory)
      PROVE  AccountInv'
  BY <1>4, CreateStep
<1>5. ASSUME NEW op \in CreateOp, NEW v \in Wei, NEW memory \in MemoryCost,
             CreateRefused(op, v, memory)
      PROVE  AccountInv'
  BY <1>0, <1>5, ReadStep DEF CreateRefused, CreateExecutes
<1>6. ASSUME NEW slot \in Slot, Sload(slot)
      PROVE  AccountInv'
  <2> DEFINE cost == Csload(Top.owner, slot, sub)
  <2>1. cost \in Nat /\ 0 + cost = cost
    BY FeeScheduleAssumption DEF Csload, FeeScheduleAssumption
  <2>2. /\ Executes("SLOAD", 0, cost) /\ frames' = SetTop(Charged(cost))
        /\ world' = world /\ sub' = AddAccessedStorageKey(sub, Top.owner, slot)
        /\ UNCHANGED <<origin, halt, status>>
    BY <1>6 DEF Sload
  <2> HIDE DEF cost
  <2>3. Top.owner \in Address
    BY <2>2, TopType DEF Executes, Frame
  <2> QED BY <1>0, <2>1, <2>2, <2>3, AccessMarksNothing, ReadStep
<1>7. ASSUME NEW slot \in Slot, NEW new \in Word, Sstore(slot, new)
      PROVE  AccountInv'
  BY <1>7, SstoreStep
<1>8. ASSUME NEW slot \in Slot, NEW new \in Word, Tstore(slot, new)
      PROVE  AccountInv'
  <2>1. /\ Executes("TSTORE", 0, Gwarmaccess)
        /\ frames' = SetTop(Charged(Gwarmaccess))
        /\ world' = StoreTransient(world, Top.owner, slot, new) /\ sub' = sub
        /\ UNCHANGED <<origin, halt, status>>
    BY <1>8 DEF Tstore
  <2>2. Gwarmaccess = 0 + Gwarmaccess
    BY <1>0
  <2>3. Top.owner \in Address
    BY <2>1, TopType DEF Executes, Frame
  <2> QED BY <1>0, <2>1, <2>2, <2>3, TransientIsMoney, ReadStep
<1>9. ASSUME NEW memory \in MemoryCost, NEW cost \in StepCost,
             Compute(memory, cost)
      PROVE  AccountInv'
  BY <1>0, <1>9, ReadStep DEF Compute
<1>10. ASSUME NEW memory \in MemoryCost, NEW a \in Address, ReadAccount(a, memory)
       PROVE  AccountInv'
  BY <1>0, <1>10, CaccessType, AccessMarksNothing, ReadStep DEF ReadAccount
<1>11. ASSUME NEW memory \in MemoryCost, Log(memory)
       PROVE  AccountInv'
  <2>1. SameMarks(sub, sub')
    BY <1>0, <1>11 DEF Log, SameMarks, Substate
  <2> QED BY <1>0, <1>11, <2>1, ReadStep DEF Log
<1>12. ASSUME NEW memory \in MemoryCost, NEW size \in ReturnedSize,
              NEW ef \in BOOLEAN, Return(memory, size, ef)
       PROVE  AccountInv'
  BY <1>12, QuietHaltStep DEF Return, Halts, Executes
<1>13. ASSUME NEW memory \in MemoryCost, Revert(memory)
       PROVE  AccountInv'
  BY <1>13, QuietHaltStep DEF Revert, Halts, Executes
<1>14. ASSUME NEW r \in Address, Selfdestruct(r)
       PROVE  AccountInv'
  BY <1>14, SelfdestructStep
<1>15. CASE Stop
  BY <1>15, QuietHaltStep DEF Stop, Halts, Halting
<1>16. CASE Fault
  BY <1>16, QuietHaltStep DEF Fault, Halts, Halting, Failed
<1>17. CASE RunPrecompile
  BY <1>17, QuietHaltStep DEF RunPrecompile, Halts, Halting
<1>18. CASE Resume
  BY <1>18, ResumeStep
<1>19. CASE Finish
  BY <1>19, FinishStep
<1>20. CASE UNCHANGED vars
  <2>1. Top' = Top
    BY <1>20 DEF vars, Top
  <2>2. /\ History(frames', world', sub')
        /\ NoncesBelowCap(world') <=> NoncesBelowCap(world)
        /\ status' = status /\ halt' = halt /\ origin' = origin /\ world' = world
    BY <1>20 DEF vars, AccountInv
  <2>3. CASE status = "idle"
    BY <1>20, <2>3 DEF vars, AccountInv, History, Descends, NoncesBelowCap, Rooted, Blank
  <2>4. CASE status # "idle"
    BY <2>1, <2>2, <2>4, InvariantOfParts DEF AccountInv
  <2> QED BY <2>3, <2>4
<1> QED
  BY <1>1, <1>2, <1>3, <1>4, <1>5, <1>6, <1>7, <1>8, <1>9, <1>10, <1>11, <1>12,
     <1>13, <1>14, <1>15, <1>16, <1>17, <1>18, <1>19, <1>20
  DEF Next, Start, Instruction, CallInstruction, CreateInstruction,
      StorageInstruction, MemoryInstruction

\* AccountInv holds of every state of the machine.
LEMMA AccountsKept == Spec => [](TypeOK /\ AccountInv)
<1>1. Init => TypeOK /\ AccountInv
  BY InitType, AccountInit
<1>2. TypeOK /\ AccountInv /\ [Next]_vars => (TypeOK /\ AccountInv)'
  BY TypeStep, AccountStep
<1> QED BY <1>1, <1>2, PTL DEF Spec

-----------------------------------------------------------------------------
(***************************************************************************)
(* Code: an account whose code is not the one it had when the transaction  *)
(* began was blank then, and was created by the transaction; no call, no   *)
(* delegation and no failure of a creation gives code to anyone else.      *)
(***************************************************************************)
THEOREM CodeComesFromCreation == Spec => []CodeFromCreation
<1>1. TypeOK /\ AccountInv => CodeFromCreation
  BY DEF AccountInv, History, Descends, CodeFromCreation
<1> QED BY <1>1, AccountsKept, PTL

(***************************************************************************)
(* SELFDESTRUCT (EIP-6780): what a transaction marks for erasure did not   *)
(* exist as a contract before it, through any nesting of creations, calls  *)
(* and failures, and is there to be erased.                                *)
(***************************************************************************)
THEOREM OnlyNewbornAreDestroyed == Spec => []OnlyNewbornDestroyed
<1>1. TypeOK /\ AccountInv => OnlyNewbornDestroyed
  <2> SUFFICES ASSUME TypeOK, AccountInv, NEW a \in sub.selfDestructSet
               PROVE  Blank(origin, a) /\ Exists(world, a)
    BY DEF OnlyNewbornDestroyed
  <2>1. a \in Address
    BY DEF TypeOK, Substate
  <2> QED BY <2>1 DEF AccountInv, History, Descends
<1> QED BY <1>1, AccountsKept, PTL

(***************************************************************************)
(* Nonces: no nonce falls below the checkpoint state's, also after a       *)
(* failure, and no creation takes one past the limit of EIP-2681.          *)
(***************************************************************************)
THEOREM NonceIsBounded == Spec => []NonceBounded
<1>1. TypeOK /\ AccountInv => NonceBounded
  <2> SUFFICES ASSUME TypeOK, AccountInv, status = "running" => Top.code # "invalid"
               PROVE  NonceBounded
    BY DEF NonceBounded
  <2>1. Descends(world, sub)
    BY DEF AccountInv, History
  <2>2. NoncesBelowCap(world)
    <3>1. CASE status = "idle"
      <4>1. \A b \in Address : Lookup(origin, b).nonce \in Nat
        BY NonceType DEF TypeOK
      <4>2. MaxNonce \in Nat /\ world = origin
        BY <3>1, MachineAssumption DEF MachineAssumption, AccountInv
      <4> QED BY <4>1, <4>2 DEF NoncesBelowCap
    <3>2. CASE status # "idle"
      BY <3>2 DEF AccountInv, TypeOK
    <3> QED BY <3>1, <3>2
  <2> QED BY <2>1, <2>2 DEF NonceBounded, Descends, NoncesBelowCap
<1> QED BY <1>1, AccountsKept, PTL

-----------------------------------------------------------------------------
(***************************************************************************)
(* Calls nest: every step of the machine is a step of NestedCalls, or does *)
(* not show there.                                                         *)
(***************************************************************************)
\* Two sequences that begin alike have the same beginning.
LEMMA SameBeginning ==
  ASSUME NEW S, NEW T, NEW s \in Seq(S), NEW t \in Seq(T), NEW n \in Nat,
         n <= Len(s), n <= Len(t), \A k \in 1 .. n : s[k] = t[k]
  PROVE  SubSeq(s, 1, n) = SubSeq(t, 1, n)
OBVIOUS

\* A sequence with an entry for each frame and one for the state on top.
StackShape(stack, fs, n, m, A) ==
    /\ \E S : stack \in Seq(S)
    /\ Len(stack) = n + 1
    /\ \A k \in 1 .. n : stack[k] = Visible(fs[k].world, fs[k].sub)
    /\ stack[n + 1] = Visible(m, A)

\* The visible stack is one.
LEMMA VisibleStackIs ==
  ASSUME NEW fs, NEW n \in Nat, n = Len(fs), NEW m, NEW A
  PROVE  StackShape(VisibleStack(fs, m, A), fs, n, m, A)
<1> DEFINE stack == VisibleStack(fs, m, A)
           S == {stack[k] : k \in 1 .. n + 1}
<1>1. stack = [k \in 1 .. n + 1 |-> stack[k]]
  BY DEF VisibleStack
<1>2. /\ \A k \in 1 .. n : stack[k] = Visible(fs[k].world, fs[k].sub)
      /\ stack[n + 1] = Visible(m, A)
  BY DEF VisibleStack
<1> HIDE DEF stack
<1>3. stack \in [1 .. n + 1 -> S]
  BY <1>1
<1> HIDE DEF S
<1>4. stack \in Seq(S) /\ Len(stack) = n + 1
  BY <1>3
<1>5. \E R : stack \in Seq(R)
  BY <1>4
<1> QED BY <1>2, <1>4, <1>5 DEF stack, StackShape

\* What a caller sees again when its callee is done.
SameEntry(f, g) == g.world = f.world /\ g.sub = f.sub

\* No call begins or ends.
LEMMA WorkNests ==
  ASSUME NEW n \in Nat, n = Len(frames), Len(frames') = n,
         \A k \in 1 .. n : SameEntry(frames[k], frames'[k]),
         \/ flag' = flag
         \/ flag' = FALSE /\ Visible(world', sub') = Visible(world, sub)
  PROVE  Calls!Next
<1> DEFINE s == VisibleStack(frames, world, sub)
           t == VisibleStack(frames', world', sub')
<1>0. StackShape(s, frames, n, world, sub) /\ StackShape(t, frames', n, world', sub')
  BY VisibleStackIs
<1>4. VisibleStack(frames, world, sub)' = t
  BY DEF VisibleStack, Visible, Exists
<1> HIDE DEF s, t
<1>1. PICK S : s \in Seq(S)
  BY <1>0 DEF StackShape
<1>2. PICK T : t \in Seq(T)
  BY <1>0 DEF StackShape
<1>3. /\ Len(s) = n + 1 /\ Len(t) = n + 1 /\ n <= Len(s) /\ n <= Len(t)
      /\ \A k \in 1 .. n : s[k] = t[k]
      /\ s[n + 1] = Visible(world, sub) /\ t[n + 1] = Visible(world', sub')
  BY <1>0 DEF SameEntry, StackShape
<1>5. CASE flag' = flag
  <2>1. SubSeq(t, 1, n) = SubSeq(s, 1, n)
    BY <1>1, <1>2, <1>3, SameBeginning
  <2>2. Len(t) - 1 = n /\ Len(s) - 1 = n
    BY <1>3
  <2> QED BY <1>3, <1>4, <1>5, <2>1, <2>2 DEF Calls!Next, Calls!Work, Calls!Below, Calls!Depth, s
<1>6. CASE flag' = FALSE /\ Visible(world', sub') = Visible(world, sub)
  <2>1. \A k \in 1 .. n + 1 : s[k] = t[k]
    BY <1>3, <1>6
  <2>2. s = t
    BY <1>1, <1>2, <1>3, <2>1
  <2> QED BY <1>4, <1>6, <2>2 DEF Calls!Next, Calls!Refuse, s
<1> QED BY <1>5, <1>6

\* A call or a creation begins.
LEMMA OpenNests ==
  ASSUME NEW n \in Nat, n = Len(frames), Len(frames') = n + 1,
         \A k \in 1 .. n : SameEntry(frames[k], frames'[k]), flag' = flag
  PROVE  Calls!Next
<1> DEFINE s == VisibleStack(frames, world, sub)
           t == VisibleStack(frames', world', sub')
<1>0. n + 1 \in Nat /\ \A k \in 1 .. n : k \in 1 .. n + 1
  OBVIOUS
<1>1. StackShape(s, frames, n, world, sub) /\ StackShape(t, frames', n + 1, world', sub')
  BY <1>0, VisibleStackIs
<1>7. VisibleStack(frames, world, sub)' = t
  BY DEF VisibleStack, Visible, Exists
<1> HIDE DEF s, t
<1>2. PICK S : s \in Seq(S)
  BY <1>1 DEF StackShape
<1>3. PICK T : t \in Seq(T)
  BY <1>1 DEF StackShape
<1>4. Len(s) = n + 1 /\ Len(t) = n + 1 + 1 /\ n <= Len(s) /\ n <= Len(t)
  BY <1>1 DEF StackShape
<1>5. ASSUME NEW k \in 1 .. n PROVE s[k] = t[k]
  BY <1>0, <1>1 DEF SameEntry, StackShape
<1>8. SubSeq(t, 1, n) = SubSeq(s, 1, n)
  BY <1>2, <1>3, <1>4, <1>5, SameBeginning
<1>9. Len(t) - 2 = n /\ Len(s) - 1 = n
  BY <1>4
<1> QED BY <1>4, <1>7, <1>8, <1>9 DEF Calls!Next, Calls!Open, Calls!Below, Calls!Depth, s

\* A call or a creation ends, and its caller gets one of two states.
LEMMA ReturnNests ==
  ASSUME NEW n \in Nat, Len(frames) = n + 1, Len(frames') = n,
         \A k \in 1 .. n : SameEntry(frames[k], frames'[k]),
         flag' \in BOOLEAN,
         Visible(world', sub') =
            IF flag' THEN Visible(world, sub)
            ELSE Visible(frames[n + 1].world, frames[n + 1].sub)
  PROVE  Calls!Next
<1> DEFINE s == VisibleStack(frames, world, sub)
           t == VisibleStack(frames', world', sub')
<1>0. n + 1 \in Nat /\ n + 1 \in 1 .. n + 1 /\ \A k \in 1 .. n : k \in 1 .. n + 1
  OBVIOUS
<1>1. StackShape(s, frames, n + 1, world, sub) /\ StackShape(t, frames', n, world', sub')
  BY <1>0, VisibleStackIs
<1>6. VisibleStack(frames, world, sub)' = t
  BY DEF VisibleStack, Visible, Exists
<1> HIDE DEF s, t
<1>2. PICK S : s \in Seq(S)
  BY <1>1 DEF StackShape
<1>3. PICK T : t \in Seq(T)
  BY <1>1 DEF StackShape
<1>4. /\ Len(s) = n + 1 + 1 /\ Len(t) = n + 1 /\ n <= Len(s) /\ n <= Len(t)
      /\ s[n + 1 + 1] = Visible(world, sub) /\ t[n + 1] = Visible(world', sub')
      /\ s[n + 1] = Visible(frames[n + 1].world, frames[n + 1].sub)
  BY <1>0, <1>1 DEF StackShape
<1>5. ASSUME NEW k \in 1 .. n PROVE s[k] = t[k]
  BY <1>0, <1>1 DEF SameEntry, StackShape
<1>8. CASE flag' = TRUE
  <2>1. SubSeq(t, 1, n) = SubSeq(s, 1, n)
    BY <1>2, <1>3, <1>4, <1>5, SameBeginning
  <2>2. t[n + 1] = s[n + 2] /\ n + 2 = Len(s) /\ Len(s) - 2 = n /\ Len(s) > 1
    BY <1>4, <1>8
  <2>3. t = Append(SubSeq(t, 1, n), t[n + 1])
    BY <1>3, <1>4
  <2>4. t = Append(SubSeq(s, 1, Len(s) - 2), s[Len(s)])
    BY <2>1, <2>2, <2>3
  <2> QED BY <1>6, <1>8, <2>2, <2>4 DEF Calls!Next, Calls!Commit, Calls!Below, Calls!Depth, s
<1>9. CASE flag' = FALSE
  <2>1. \A k \in 1 .. n + 1 : s[k] = t[k]
    BY <1>4, <1>5, <1>9
  <2>2. SubSeq(s, 1, n + 1) = SubSeq(t, 1, n + 1)
    BY <1>0, <1>2, <1>3, <1>4, <2>1, SameBeginning
  <2>3. t = SubSeq(t, 1, n + 1)
    BY <1>3, <1>4
  <2>4. Len(s) - 1 = n + 1 /\ Len(s) > 1
    BY <1>4
  <2> QED BY <1>6, <1>9, <2>2, <2>3, <2>4 DEF Calls!Next, Calls!Abort, Calls!Below, Calls!Depth, s
<1> QED BY <1>8, <1>9

-----------------------------------------------------------------------------
\* An instruction that stays in its frame.
LEMMA StayNests ==
  ASSUME TypeOK, status = "running", NEW f \in Frame, SameEntry(Top, f),
         frames' = SetTop(f),
         \/ flag' = flag
         \/ flag' = FALSE /\ Visible(world', sub') = Visible(world, sub)
  PROVE  Calls!Next
<1>1. PICK n \in Nat : n = Len(frames)
  BY TopType
<1>2. /\ Len(frames') = n
      /\ \A k \in 1 .. n : frames'[k] = IF k = n THEN f ELSE frames[k]
  BY <1>1, SetTopType
<1>3. \A k \in 1 .. n : SameEntry(frames[k], frames'[k])
  BY <1>1, <1>2 DEF Top, SameEntry
<1> QED BY <1>1, <1>2, <1>3, WorkNests

\* One that is paid for.
LEMMA ChargeNests ==
  ASSUME TypeOK, NEW op, NEW memory \in Nat, NEW cost \in Nat,
         Executes(op, memory, cost), frames' = SetTop(Charged(memory + cost)),
         \/ flag' = flag
         \/ flag' = FALSE /\ Visible(world', sub') = Visible(world, sub)
  PROVE  Calls!Next
<1>1. status = "running" /\ Top \in Frame
  BY TopType DEF Executes
<1>2. memory + cost \in Nat /\ memory + cost <= memory + cost
  OBVIOUS
<1>3. Charged(memory + cost) \in Frame
  BY <1>2, ChargedType
<1>4. SameEntry(Top, Charged(memory + cost))
  BY <1>1, ChargedKeeps DEF SameEntry
<1> QED BY <1>1, <1>3, <1>4, StayNests

\* X returns.
LEMMA HaltNests ==
  ASSUME TypeOK, UNCHANGED <<frames, flag>>
  PROVE  Calls!Next
<1>1. PICK n \in Nat : n = Len(frames)
  BY DEF TypeOK
<1> QED BY <1>1, WorkNests DEF SameEntry

\* A call or a creation by the innermost frame.
LEMMA EnterNests ==
  ASSUME TypeOK, status = "running", NEW f \in Frame, SameEntry(Top, f),
         NEW new, frames' = Append(SetTop(f), new), flag' = flag
  PROVE  Calls!Next
<1>1. PICK n \in Nat : n = Len(frames)
  BY TopType
<1>2. /\ SetTop(f) \in Seq(Frame) /\ Len(SetTop(f)) = n
      /\ \A k \in 1 .. n : SetTop(f)[k] = IF k = n THEN f ELSE frames[k]
  BY <1>1, SetTopType
<1>3. /\ Len(frames') = n + 1
      /\ \A k \in 1 .. n : frames'[k] = IF k = n THEN f ELSE frames[k]
  BY <1>1, <1>2, AppendProperties
<1>4. \A k \in 1 .. n : SameEntry(frames[k], frames'[k])
  BY <1>1, <1>3 DEF Top, SameEntry
<1> QED BY <1>1, <1>3, <1>4, OpenNests

\* What Λ marks of a creation is not visible.
LEMMA MarksInvisible ==
  ASSUME NEW m, NEW m2, NEW A \in Substate, NEW a
  PROVE  Visible(m, LambdaSubstate(m2, A, a)) = Visible(m, A)
BY DEF Visible, LambdaSubstate, Substate

\* Nor is the code that a creation has deposited.
LEMMA DepositInvisible ==
  ASSUME NEW m \in AccountMap, NEW A, NEW a \in Address, NEW n \in Nat, Exists(m, a)
  PROVE  Visible([m EXCEPT ![a] = [Lookup(m, a) EXCEPT !.code = n]], A) = Visible(m, A)
<1> DEFINE acc == [Lookup(m, a) EXCEPT !.code = n]
           c   == [m EXCEPT ![a] = acc]
           Seen(x, b) == IF Exists(x, b) THEN [x[b] EXCEPT !.code = 0] ELSE NoAccount
<1>1. Lookup(m, a) \in Account /\ m[a] = Lookup(m, a)
  BY LookupType
<1>2. acc \in Account /\ [acc EXCEPT !.code = 0] = [m[a] EXCEPT !.code = 0]
  BY <1>1 DEF Account
<1> HIDE DEF acc
<1>3. ASSUME NEW b \in Address PROVE Seen(c, b) = Seen(m, b)
  <2>1. c[b] = IF b = a THEN acc ELSE m[b]
    BY DEF AccountMap
  <2> QED BY <1>2, <2>1, NoAccountAssumption DEF Exists, NoAccountAssumption
<1> HIDE DEF c
<1>4. [b \in Address |-> Seen(c, b)] = [b \in Address |-> Seen(m, b)]
  BY <1>3
<1>5. Visible(c, A) = Visible(m, A)
  BY <1>4 DEF Visible
<1> QED BY <1>5 DEF c, acc

\* z says which of its two states a frame gives back.
LEMMA ResultNests ==
  ASSUME TypeOK, AccountInv, status = "running", halt # Running
  PROVE  Visible(FrameResult.world, FrameResult.sub) =
           IF FrameResult.z THEN Visible(world, sub)
                            ELSE Visible(Top.world, Top.sub)
<1>1. /\ Top \in Frame /\ Top.owner \in Address
      /\ Top.world \in AccountMap /\ Top.sub \in Substate
      /\ world \in AccountMap /\ sub \in Substate
      /\ halt.size \in Nat
  BY TopType DEF Frame, Halt, TypeOK
<1>2. CASE Top.kind = "call"
  BY <1>2 DEF FrameResult, ThetaResult
<1>3. CASE Top.kind # "call"
  <2>1. FrameResult = LambdaResult /\ Top.kind = "create"
    BY <1>1, <1>3 DEF FrameResult, Frame
  <2>2. CASE halt.cause # "success"
    BY <2>1, <2>2 DEF LambdaResult
  <2>3. CASE halt.cause = "success" /\ DepositFails
    BY <1>1, <2>1, <2>3, MarksInvisible DEF LambdaResult, DepositFailure
  <2>4. CASE halt.cause = "success" /\ ~DepositFails
    <3>1. Rooted(world, sub, Top) /\ Top.code = "program"
      <4>1. Len(frames) \in 1 .. Len(frames)
        BY TopType
      <4>2. Rooted(world, sub, Top) /\ Top.code \in {"program", "invalid"}
        BY <2>1, <4>1 DEF AccountInv, History, Top
      <4> QED BY <2>4, <4>2 DEF AccountInv
    <3>2. Exists(world, Top.owner)
      BY <2>1, <3>1 DEF Rooted, Lookup, DefaultAccount
    <3> QED BY <1>1, <2>1, <2>4, <3>2, DepositInvisible DEF LambdaResult
  <2> QED BY <2>2, <2>3, <2>4
<1> QED BY <1>2, <1>3

\* Θ or Λ returns to a caller.
LEMMA ResumeNests ==
  ASSUME TypeOK, TypeOK', AccountInv, Resume
  PROVE  Calls!Next
<1>1. /\ status = "running" /\ Len(frames) > 1 /\ halt # Running
      /\ world' = FrameResult.world /\ sub' = FrameResult.sub
      /\ flag' = FrameResult.z
  BY DEF Resume
<1>2. PICK n \in Nat \ {0} : n = Len(frames) - 1
  BY <1>1, PopIndex
<1>3. /\ n \in Nat /\ Len(frames) = n + 1 /\ Len(frames') = n
      /\ frames[n + 1] = Top
      /\ \A k \in 1 .. n : SameActivation(frames[k], frames'[k])
  BY <1>2, ResumePops
<1>7. \A k \in 1 .. n : SameEntry(frames[k], frames'[k])
  BY <1>3 DEF SameEntry, SameActivation
<1>8. flag' \in BOOLEAN
  BY DEF TypeOK
<1>10. Visible(world', sub') = IF flag' THEN Visible(world, sub)
                               ELSE Visible(frames[n + 1].world, frames[n + 1].sub)
  BY <1>1, <1>3, ResultNests
<1> QED BY <1>3, <1>7, <1>8, <1>10, ReturnNests

\* Θ or Λ returns to Υ.
LEMMA FinishNests ==
  ASSUME TypeOK, TypeOK', AccountInv, Finish
  PROVE  Calls!Next
<1>1. /\ status = "running" /\ Len(frames) = 0 + 1 /\ halt # Running
      /\ world' = FrameResult.world /\ sub' = FrameResult.sub
      /\ flag' = FrameResult.z /\ frames' = <<>>
  BY DEF Finish
<1>2. Len(frames') = 0 /\ 0 \in Nat /\ flag' \in BOOLEAN
  BY <1>1 DEF TypeOK
<1>3. \A k \in 1 .. 0 : SameEntry(frames[k], frames'[k])
  OBVIOUS
<1>4. frames[0 + 1] = Top
  BY <1>1 DEF Top
<1>5. Visible(world', sub') = IF flag' THEN Visible(world, sub)
                              ELSE Visible(frames[0 + 1].world, frames[0 + 1].sub)
  BY <1>1, <1>4, ResultNests
<1> QED BY <1>1, <1>2, <1>3, <1>5, ReturnNests

\* A transaction starts.
LEMMA StartNests ==
  ASSUME TypeOK, status = "idle", NEW new, frames' = <<new>>, flag' = flag
  PROVE  Calls!Next
<1>1. frames = <<>> /\ 0 \in Nat
  BY DEF TypeOK
<1>2. 0 = Len(frames) /\ Len(frames') = 0 + 1
  BY <1>1
<1>3. \A k \in 1 .. 0 : SameEntry(frames[k], frames'[k])
  OBVIOUS
<1> QED BY <1>1, <1>2, <1>3, OpenNests

\* Warming an address shows nowhere.
LEMMA WarmthInvisible ==
  ASSUME NEW m, NEW A \in Substate, NEW t
  PROVE  Visible(m, AddAccessedAccount(A, t)) = Visible(m, A)
BY DEF Visible, AddAccessedAccount, Substate

-----------------------------------------------------------------------------
\* Every step of Next is a step of NestedCalls, or none.
LEMMA CallsStep ==
  TypeOK /\ TypeOK' /\ AccountInv /\ [Next]_vars => Calls!Next \/ UNCHANGED vars
<1> SUFFICES ASSUME TypeOK, TypeOK', AccountInv, Next PROVE Calls!Next
  BY DEF vars
<1>0. /\ Gwarmaccess \in Nat /\ Glog \in Nat /\ Gcreate \in Nat
      /\ sub \in Substate
      /\ \A memory \in MemoryCost : memory \in Nat /\ memory = memory + 0
      /\ \A cost \in StepCost : cost \in Nat
      /\ \A cost \in Nat : 0 + cost = cost
  BY SMTT(40), FeeScheduleAssumption, MachineAssumption
  DEF FeeScheduleAssumption, MachineAssumption, TypeOK
<1>1. ASSUME NEW s, NEW a, NEW v, NEW g, StartCall(s, a, v, g) \/ StartCreate(s, a, v, g)
      PROVE  Calls!Next
  BY <1>1, StartNests DEF StartCall, StartCreate
<1>2. ASSUME NEW op \in CallOp, NEW t \in Address, NEW asked \in AskedGas,
             NEW memory \in MemoryCost, NEW v \in CallValues(op),
             Call(op, t, v, asked, memory) \/ CallRefused(op, t, v, asked, memory)
      PROVE  Calls!Next
  <2>1. asked \in Nat /\ memory \in Nat /\ v \in Uint
    BY MachineAssumption, WordSizeAssumption
    DEF MachineAssumption, WordSizeAssumption, CallValues, Uint
  <2>2. CallExecutes(op, t, v, asked, memory)
    BY <1>2 DEF Call, CallRefused
  <2>3. /\ status = "running"
        /\ CallCost(op, t, v, asked, memory) \in Nat
        /\ CallGas(op, t, v, asked, memory) \in Nat
        /\ Top.gas - memory \in Nat /\ Top.fuel - 1 \in Nat
        /\ Charged(memory) \in Frame
    BY <2>1, <2>2, CallFrames
  <2>4. Top \in Frame
    BY <2>3, TopType
  <2>5. CASE Call(op, t, v, asked, memory)
    <3>1. SameEntry(Top, Charged(memory))
      BY <2>4, ChargedKeeps DEF SameEntry
    <3>2. flag' = flag /\ \E new : frames' = Append(SetTop(Charged(memory)), new)
      BY <2>5 DEF Call
    <3> QED BY <2>3, <3>1, <3>2, EnterNests
  <2>6. CASE CallRefused(op, t, v, asked, memory)
    <3>1. PICK f \in Frame : SameActivation(Top, f) /\ frames' = SetTop(f)
      BY <2>6, RefusedStays
    <3>2. world' = world /\ flag' = FALSE /\ sub' = AddAccessedAccount(sub, t)
      BY <2>6 DEF CallRefused
    <3>3. Visible(world', sub') = Visible(world, sub)
      BY <1>0, <3>2, WarmthInvisible
    <3>4. SameEntry(Top, f)
      BY <3>1 DEF SameEntry, SameActivation
    <3> QED BY <2>3, <3>1, <3>2, <3>3, <3>4, StayNests
  <2> QED BY <1>2, <2>5, <2>6
<1>3. ASSUME NEW op, NEW a, NEW v, NEW memory \in MemoryCost, Create(op, a, v, memory)
      PROVE  Calls!Next
  <2>1. /\ memory \in Nat /\ CreateExecutes(op, memory) /\ flag' = flag
        /\ \E new : frames' = Append(SetTop(Charged(memory + Gcreate)), new)
    BY <1>0, <1>3 DEF Create
  <2>2. status = "running" /\ Charged(memory + Gcreate) \in Frame
    BY <2>1, CreateFrames
  <2>3. SameEntry(Top, Charged(memory + Gcreate))
    BY <2>2, TopType, ChargedKeeps DEF SameEntry
  <2> QED BY <2>1, <2>2, <2>3, EnterNests
<1>4. ASSUME NEW op, NEW v, NEW memory \in MemoryCost, CreateRefused(op, v, memory)
      PROVE  Calls!Next
  <2>1. Visible(world', sub') = Visible(world, sub)
    BY <1>4 DEF CreateRefused
  <2> QED BY <1>0, <1>4, <2>1, ChargeNests DEF CreateRefused, CreateExecutes
<1>5. ASSUME NEW slot, Sload(slot)
      PROVE  Calls!Next
  <2> DEFINE cost == Csload(Top.owner, slot, sub)
  <2>1. cost \in Nat
    BY FeeScheduleAssumption DEF Csload, FeeScheduleAssumption
  <2>2. Executes("SLOAD", 0, cost) /\ frames' = SetTop(Charged(cost)) /\ flag' = flag
    BY <1>5 DEF Sload
  <2> HIDE DEF cost
  <2>3. frames' = SetTop(Charged(0 + cost))
    BY <1>0, <2>1, <2>2
  <2> QED BY <2>1, <2>2, <2>3, ChargeNests
<1>6. ASSUME NEW slot, NEW new, Sstore(slot, new)
      PROVE  Calls!Next
  <2> DEFINE cost == Csstore(Top.owner, slot, StoredWord(origin, Top.owner, slot),
                             StoredWord(world, Top.owner, slot), new, sub)
  <2>1. cost \in Nat
    BY FeeScheduleAssumption DEF Csstore, FeeScheduleAssumption
  <2>2. Executes("SSTORE", 0, cost) /\ frames' = SetTop(Charged(cost)) /\ flag' = flag
    BY <1>6 DEF Sstore
  <2> HIDE DEF cost
  <2>3. frames' = SetTop(Charged(0 + cost))
    BY <1>0, <2>1, <2>2
  <2> QED BY <2>1, <2>2, <2>3, ChargeNests
<1>7. ASSUME NEW slot, NEW new, Tstore(slot, new)
      PROVE  Calls!Next
  <2>1. /\ Executes("TSTORE", 0, Gwarmaccess) /\ flag' = flag
        /\ frames' = SetTop(Charged(0 + Gwarmaccess))
    BY <1>0, <1>7 DEF Tstore
  <2> QED BY <1>0, <2>1, ChargeNests
<1>8. ASSUME NEW memory \in MemoryCost, NEW cost \in StepCost, Compute(memory, cost)
      PROVE  Calls!Next
  BY <1>0, <1>8, ChargeNests DEF Compute
<1>9. ASSUME NEW memory \in MemoryCost, NEW a, ReadAccount(a, memory)
      PROVE  Calls!Next
  BY <1>0, <1>9, CaccessType, ChargeNests DEF ReadAccount
<1>10. ASSUME NEW memory \in MemoryCost, Log(memory)
       PROVE  Calls!Next
  BY <1>0, <1>10, ChargeNests DEF Log
<1>11. ASSUME NEW memory, NEW size, NEW ef,
              Return(memory, size, ef) \/ Revert(memory)
       PROVE  Calls!Next
  BY <1>11, HaltNests DEF Return, Revert, Halts
<1>12. ASSUME NEW r, Selfdestruct(r)
       PROVE  Calls!Next
  BY <1>12, HaltNests DEF Selfdestruct, Halts
<1>13. CASE Stop \/ Fault \/ RunPrecompile
  BY <1>13, HaltNests DEF Stop, Fault, RunPrecompile, Halts
<1>14. CASE Resume
  BY <1>14, ResumeNests
<1>15. CASE Finish
  BY <1>15, FinishNests
<1> QED
  BY <1>1, <1>2, <1>3, <1>4, <1>5, <1>6, <1>7, <1>8, <1>9, <1>10, <1>11, <1>12,
     <1>13, <1>14, <1>15
  DEF Next, Start, Instruction, CallInstruction, CreateInstruction,
      StorageInstruction, MemoryInstruction

(***************************************************************************)
(* The machine implements NestedCalls: whatever nests in whatever, a call  *)
(* or a creation commits all that it did or none of it, the x its caller   *)
(* is told is TRUE exactly when it committed, and no step of a callee      *)
(* touches what its callers were entered with.                             *)
(***************************************************************************)
THEOREM CallsCommitOrAbort == Spec => CallsNest
<1>1. Init => Calls!Init
  <2> SUFFICES ASSUME Init PROVE Calls!Init
    OBVIOUS
  <2>1. 0 = Len(frames) /\ 0 \in Nat /\ flag = FALSE
    BY DEF Init
  <2>2. StackShape(VisibleStack(frames, world, sub), frames, 0, world, sub)
    BY <2>1, VisibleStackIs
  <2> QED BY <2>1, <2>2 DEF StackShape, Calls!Init
<1>2. TypeOK /\ TypeOK' /\ AccountInv /\ [Next]_vars
        => [Calls!Next]_<<VisibleStack(frames, world, sub), flag>>
  <2>1. UNCHANGED vars => UNCHANGED <<VisibleStack(frames, world, sub), flag>>
    BY DEF vars, VisibleStack, Visible, Exists
  <2> QED BY <2>1, CallsStep
<1> QED BY <1>1, <1>2, AccountsKept, PTL DEF Spec, CallsNest, Calls!Spec

-----------------------------------------------------------------------------
(***************************************************************************)
(* Ether and refunds: EtherInv and RefundInv are inductive.  Neither asks  *)
(* how many accounts there are or how deep the calls nest: a sum over all  *)
(* accounts is only ever compared with the one before, by DataTheorems.    *)
(***************************************************************************)
(***************************************************************************)
(* Balances and their sum.                                                 *)
(***************************************************************************)
\* Balances are natural numbers, and two of them are no more than all.
LEMMA TotalType ==
  ASSUME NEW m \in AccountMap
  PROVE  /\ BalanceOf(m) \in [Address -> Nat]
         /\ TotalBalance(m) \in Nat
         /\ \A a \in Address :
              /\ Balance(m, a) \in Nat
              /\ BalanceOf(m)[a] = Balance(m, a)
              /\ Balance(m, a) <= TotalBalance(m)
              /\ \A b \in Address \ {a} :
                   Balance(m, a) + Balance(m, b) <= TotalBalance(m)
<1>1. \A a \in Address : Balance(m, a) \in Nat /\ BalanceOf(m)[a] = Balance(m, a)
  BY LookupType DEF Uint, BalanceOf
<1>2. BalanceOf(m) \in [Address -> Nat]
  BY <1>1 DEF BalanceOf
<1>3. IsFiniteSet(Address)
  BY AddressAssumption DEF AddressAssumption
<1>4. TotalBalance(m) \in Nat
  <2>1. CASE Address = {}
    <3>1. TotalBalance(m) = SumFunctionOnSet(BalanceOf(m), {})
      BY <1>2, <2>1 DEF TotalBalance, SumFunction
    <3> QED BY <3>1, SumOfNone
  <2>2. ASSUME NEW a \in Address PROVE TotalBalance(m) \in Nat
    BY <1>2, <1>3, SumBounds DEF TotalBalance
  <2> QED BY <2>1, <2>2
<1>5. ASSUME NEW a \in Address
      PROVE  /\ Balance(m, a) <= TotalBalance(m)
             /\ \A b \in Address \ {a} :
                  Balance(m, a) + Balance(m, b) <= TotalBalance(m)
  <2>1. /\ BalanceOf(m)[a] <= TotalBalance(m)
        /\ \A b \in Address \ {a} :
             BalanceOf(m)[a] + BalanceOf(m)[b] <= TotalBalance(m)
    BY <1>2, <1>3, SumBounds DEF TotalBalance
  <2> QED BY <1>1, <2>1
<1> QED BY <1>1, <1>2, <1>4, <1>5

\* c is m with another account at a.
Updated(m, a, acc, c) ==
    /\ c \in AccountMap
    /\ acc.balance \in Nat
    /\ TotalBalance(m) + acc.balance = TotalBalance(c) + Balance(m, a)
    /\ \A b \in Address :
         /\ Balance(c, b) = IF b = a THEN acc.balance ELSE Balance(m, b)
         /\ Exists(c, b) <=> (b = a \/ Exists(m, b))
         /\ c[b] = IF b = a THEN acc ELSE m[b]

\* The sum changes by what one account's balance changes.
LEMMA TotalUpdated ==
  ASSUME NEW m \in AccountMap, NEW a \in Address, NEW acc \in Account
  PROVE  Updated(m, a, acc, [m EXCEPT ![a] = acc])
<1> DEFINE c == [m EXCEPT ![a] = acc]
<1>1. c \in AccountMap /\ IsFiniteSet(Address) /\ acc.balance \in Nat
  BY InsertType, AddressAssumption DEF AddressAssumption, Account, Uint
<1>2. \A b \in Address :
        /\ Balance(c, b) = IF b = a THEN acc.balance ELSE Balance(m, b)
        /\ Exists(c, b) <=> (b = a \/ Exists(m, b))
        /\ c[b] = IF b = a THEN acc ELSE m[b]
  BY LookupUpdated DEF Balance, AccountMap
<1> HIDE DEF c
<1>3. /\ BalanceOf(m) \in [Address -> Nat] /\ BalanceOf(c) \in [Address -> Nat]
      /\ \A x \in Address \ {a} : BalanceOf(m)[x] = BalanceOf(c)[x]
      /\ BalanceOf(m)[a] = Balance(m, a) /\ BalanceOf(c)[a] = acc.balance
  BY <1>1, <1>2, TotalType
<1>4. SumFunction(BalanceOf(m)) + BalanceOf(c)[a]
        = SumFunction(BalanceOf(c)) + BalanceOf(m)[a]
  BY <1>1, <1>3, SumOfChanged
<1> QED BY <1>1, <1>2, <1>3, <1>4 DEF TotalBalance, Updated, c

(***************************************************************************)
(* A step that moves ether: nothing is made, nobody but those in P has      *)
(* less, and no account is left empty that was not.                        *)
(***************************************************************************)
Moves(m, m2, P) ==
    /\ \A a \in Address \ P : Balance(m, a) <= Balance(m2, a)
    /\ \A a \in Address : Exists(m2, a) /\ IsEmptyAccount(m2[a])
                            => Exists(m, a) /\ IsEmptyAccount(m[a])

MovesAll(m, m2, P) == Moves(m, m2, P) /\ TotalBalance(m2) = TotalBalance(m)

MoneyStep(m, A, m2, A2, P) ==
    /\ Moves(m, m2, P)
    /\ TotalBalance(m2) <= TotalBalance(m)
    /\ A.selfDestructSet \subseteq A2.selfDestructSet
    /\ A2.selfDestructSet = {} => TotalBalance(m2) = TotalBalance(m)

\* Doing nothing is such a step.
LEMMA MovesNothing ==
  ASSUME NEW m \in AccountMap, NEW P
  PROVE  MovesAll(m, m, P)
BY TotalType DEF MovesAll, Moves

\* Two such steps are one.
LEMMA MovesTransitive ==
  ASSUME NEW m \in AccountMap, NEW m2 \in AccountMap, NEW m3 \in AccountMap, NEW P,
         MovesAll(m, m2, P), MovesAll(m2, m3, P)
  PROVE  MovesAll(m, m3, P)
<1>1. \A a \in Address : /\ Balance(m, a) \in Nat /\ Balance(m2, a) \in Nat
                         /\ Balance(m3, a) \in Nat
  BY TotalType
<1>2. \A a \in Address \ P : Balance(m, a) <= Balance(m3, a)
  BY <1>1 DEF MovesAll, Moves
<1> QED BY <1>2 DEF MovesAll, Moves

\* One that destroys nothing.
LEMMA MovesIsMoneyStep ==
  ASSUME NEW m \in AccountMap, NEW A, NEW m2 \in AccountMap, NEW A2, NEW P,
         MovesAll(m, m2, P), SameMarks(A, A2)
  PROVE  MoneyStep(m, A, m2, A2, P)
BY TotalType DEF MovesAll, MoneyStep, SameMarks

\* Another account with the same balance, and no emptier.
LEMMA SameBalanceMoves ==
  ASSUME NEW m \in AccountMap, NEW a \in Address, NEW acc \in Account, NEW P,
         acc.balance = Balance(m, a),
         IsEmptyAccount(acc) => Exists(m, a) /\ IsEmptyAccount(m[a])
  PROVE  MovesAll(m, [m EXCEPT ![a] = acc], P)
<1> DEFINE c == [m EXCEPT ![a] = acc]
<1>0. Updated(m, a, acc, c)
  BY TotalUpdated
<1> HIDE DEF c
<1>1. /\ c \in AccountMap /\ acc.balance \in Nat
      /\ TotalBalance(m) + acc.balance = TotalBalance(c) + Balance(m, a)
      /\ \A b \in Address :
           /\ Balance(c, b) = IF b = a THEN acc.balance ELSE Balance(m, b)
           /\ Exists(c, b) <=> (b = a \/ Exists(m, b))
           /\ c[b] = IF b = a THEN acc ELSE m[b]
  BY <1>0 DEF Updated
<1>2. TotalBalance(m) \in Nat /\ TotalBalance(c) \in Nat /\ \A b \in Address : Balance(m, b) \in Nat
  BY <1>1, TotalType
<1>3. TotalBalance(c) = TotalBalance(m)
  BY <1>1, <1>2
<1>4. Moves(m, c, P)
  BY <1>1, <1>2 DEF Moves
<1> QED BY <1>3, <1>4 DEF MovesAll, c

-----------------------------------------------------------------------------
(***************************************************************************)
(* The operators of WorldState and Λ.                                      *)
(***************************************************************************)
\* An account with another balance.
LEMMA BalanceSet ==
  ASSUME NEW acc \in Account, NEW v \in Uint
  PROVE  LET c == [acc EXCEPT !.balance = v]
         IN  /\ c \in Account /\ c.balance = v
             /\ c.nonce = acc.nonce /\ c.code = acc.code
             /\ v # 0 \/ acc.nonce # 0 \/ acc.code # 0 => ~IsEmptyAccount(c)
BY DEF Account, IsEmptyAccount

\* A transfer out of a live account that has the money.
LEMMA TransferMoves ==
  ASSUME NEW m \in AccountMap, NEW s \in Address, NEW r \in Address, NEW v \in Uint,
         TotalBalance(m) < WordSize, v <= Balance(m, s), v # 0 => Live(m, s)
  PROVE  MovesAll(m, Transfer(m, s, r, v), {s})
<1>1. CASE v = 0
  BY <1>1, TransferNothing, MovesNothing
<1>2. CASE s = r
  BY <1>2, TransferToItself, MovesNothing
<1>3. CASE v # 0 /\ s # r
  <2> DEFINE x    == Balance(m, r)
             y    == Balance(m, s)
             accr == [Lookup(m, r) EXCEPT !.balance = x + v]
             accs == [Lookup(m, s) EXCEPT !.balance = y - v]
             c    == [m EXCEPT ![r] = accr]
             d    == [c EXCEPT ![s] = accs]
  <2>1. /\ x \in Uint /\ y \in Uint /\ x \in Nat /\ y \in Nat /\ v \in Nat
        /\ x + y <= TotalBalance(m) /\ TotalBalance(m) \in Nat
    BY <1>3, LookupType, TotalType DEF Uint
  <2>2. x + v < WordSize /\ x + v \in Uint /\ y - v \in Uint /\ WordSize \in Nat
    BY <2>1, WordSizeAssumption DEF Uint, WordSizeAssumption
  <2>3. AddWord(x, v) = x + v /\ SubWord(y, v) = y - v
    BY <2>1, <2>2, WordArithmetic
  <2>4. Exists(m, s) /\ Live(m, s)
    BY <1>3 DEF Live, Lookup, DefaultAccount
  <2>5. Credit(m, r, v) = c
    <3>1. CASE Exists(m, r)
      BY <2>3, <3>1, LookupType DEF Credit, Balance
    <3>2. CASE ~Exists(m, r)
      <4>1. x = 0
        BY <3>2 DEF Balance, Lookup, DefaultAccount
      <4>2. x + v = v
        BY <2>1, <4>1
      <4> HIDE DEF x
      <4> QED BY <1>3, <3>2, <4>2 DEF Credit, Lookup
    <3> QED BY <3>1, <3>2
  <2>6. /\ accr \in Account /\ accr.balance = x + v /\ ~IsEmptyAccount(accr)
        /\ accs \in Account /\ accs.balance = y - v /\ ~IsEmptyAccount(accs)
    <3>1. x + v # 0
      BY <1>3, <2>1
    <3> QED BY <2>2, <2>4, <3>1, LookupType, BalanceSet DEF Live
  <2> HIDE DEF accr, accs, x, y
  <2>7. /\ c \in AccountMap
        /\ TotalBalance(m) + (x + v) = TotalBalance(c) + x
        /\ \A b \in Address :
             /\ Balance(c, b) = IF b = r THEN x + v ELSE Balance(m, b)
             /\ Exists(c, b) <=> (b = r \/ Exists(m, b))
             /\ c[b] = IF b = r THEN accr ELSE m[b]
    <3>1. Updated(m, r, accr, c)
      BY <2>6, TotalUpdated
    <3> HIDE DEF c
    <3> QED BY <2>6, <3>1 DEF x, Updated
  <2>8. c[s] = Lookup(m, s) /\ Exists(c, s) /\ Balance(c, s) = y
    BY <1>3, <2>4, <2>7, LookupType DEF y
  <2>9. Debit(c, s, v) = d
    <3>1. c[s].balance = y
      BY <2>8 DEF y, Balance
    <3> QED BY <2>3, <2>8, <3>1 DEF Debit, accs
  <2> HIDE DEF c
  <2>10. /\ d \in AccountMap
         /\ TotalBalance(c) + (y - v) = TotalBalance(d) + y
         /\ \A b \in Address :
              /\ Balance(d, b) = IF b = s THEN y - v ELSE Balance(c, b)
              /\ Exists(d, b) <=> (b = s \/ Exists(c, b))
              /\ d[b] = IF b = s THEN accs ELSE c[b]
    <3>1. Updated(c, s, accs, d)
      BY <2>6, <2>7, TotalUpdated
    <3> HIDE DEF d
    <3> QED BY <2>6, <2>8, <3>1 DEF Updated
  <2> HIDE DEF d
  <2>11. TotalBalance(d) = TotalBalance(m)
    <3>1. TotalBalance(c) \in Nat /\ TotalBalance(d) \in Nat
      BY <2>7, <2>10, TotalType
    <3> QED BY <2>1, <2>7, <2>10, <3>1
  <2>12. ASSUME NEW a \in Address \ {s} PROVE Balance(m, a) <= Balance(d, a)
    <3>1. Balance(m, a) \in Nat
      BY TotalType
    <3>2. CASE a = r
      BY <2>1, <2>7, <2>10, <3>2 DEF x
    <3>3. CASE a # r
      BY <2>7, <2>10, <3>1, <3>3
    <3> QED BY <3>2, <3>3
  <2>13. ASSUME NEW a \in Address, Exists(d, a), IsEmptyAccount(d[a])
         PROVE  Exists(m, a) /\ IsEmptyAccount(m[a])
    <3>1. a # s /\ a # r
      BY <2>6, <2>7, <2>10, <2>13
    <3> QED BY <2>7, <2>10, <2>13, <3>1
  <2>14. Transfer(m, s, r, v) = d
    BY <2>5, <2>9 DEF Transfer, c
  <2> QED BY <2>11, <2>12, <2>13, <2>14 DEF MovesAll, Moves
<1> QED BY <1>1, <1>2, <1>3

\* create's increment of the nonce.
LEMMA IncrementMoves ==
  ASSUME NEW m \in AccountMap, NEW s \in Address, NEW P
  PROVE  /\ MovesAll(m, IncrementNonce(m, s), P)
         /\ Live(IncrementNonce(m, s), s)
         /\ Exists(IncrementNonce(m, s), s)
         /\ \A b \in Address : Balance(IncrementNonce(m, s), b) = Balance(m, b)
<1> DEFINE acc == [Lookup(m, s) EXCEPT !.nonce = @ + 1]
           c   == [m EXCEPT ![s] = acc]
<1>1. Lookup(m, s) \in Account /\ Lookup(m, s).nonce + 1 # 0
  BY LookupType, NonceType
<1>2. /\ acc \in Account /\ acc.balance = Balance(m, s)
      /\ acc.nonce # 0 /\ ~IsEmptyAccount(acc)
  BY <1>1 DEF Account, Balance, IsEmptyAccount
<1>3. IncrementNonce(m, s) = c
  BY DEF IncrementNonce
<1> HIDE DEF acc
<1>4. MovesAll(m, c, P)
  BY <1>2, SameBalanceMoves
<1>5. \A b \in Address : /\ Lookup(c, b) = IF b = s THEN acc ELSE Lookup(m, b)
                         /\ Exists(c, b) <=> (b = s \/ Exists(m, b))
  BY <1>2, LookupUpdated
<1> HIDE DEF c
<1>6. \A b \in Address : Balance(c, b) = Balance(m, b)
  BY <1>2, <1>5 DEF Balance
<1> QED BY <1>2, <1>3, <1>4, <1>5, <1>6 DEF Live

\* Entering a creation, by a live creator that has the endowment.
LEMMA LambdaMoves ==
  ASSUME NEW m \in AccountMap, NEW s \in Address, NEW a \in Address, a # s,
         NEW v \in Uint, Exists(m, s), Live(m, s), v <= Balance(m, s),
         TotalBalance(m) < WordSize
  PROVE  MovesAll(m, LambdaWorld(m, s, a, v), {s})
<1> DEFINE x    == Balance(m, a)
           y    == Balance(m, s)
           accs == [Lookup(m, s) EXCEPT !.balance = y - v]
           new  == [Lookup(m, a) EXCEPT !.nonce = @ + 1, !.balance = v + x]
           c    == [m EXCEPT ![s] = accs]
           d    == [c EXCEPT ![a] = new]
<1>1. /\ x \in Uint /\ y \in Uint /\ x \in Nat /\ y \in Nat /\ v \in Nat
      /\ y + x <= TotalBalance(m) /\ TotalBalance(m) \in Nat
  BY LookupType, TotalType DEF Uint
<1>2. v + x < WordSize /\ v + x \in Uint /\ y - v \in Uint /\ WordSize \in Nat
  BY <1>1, WordSizeAssumption DEF Uint, WordSizeAssumption
<1>3. AddWord(v, x) = v + x /\ SubWord(y, v) = y - v
  BY <1>1, <1>2, WordArithmetic
<1>4. LambdaWorld(m, s, a, v) = d
  BY <1>3 DEF LambdaWorld, Lookup, Balance
<1>5. /\ accs \in Account /\ accs.balance = y - v /\ ~IsEmptyAccount(accs)
      /\ new \in Account /\ new.balance = v + x /\ ~IsEmptyAccount(new)
  <2>1. /\ Lookup(m, a) \in Account /\ Lookup(m, s) \in Account
        /\ Lookup(m, a).nonce + 1 \in Nat /\ Lookup(m, a).nonce + 1 # 0
    BY LookupType, NonceType
  <2>2. accs \in Account /\ accs.balance = y - v /\ ~IsEmptyAccount(accs)
    BY <1>2, <2>1, BalanceSet DEF Live
  <2>3. new \in Account /\ new.balance = v + x /\ new.nonce # 0
    BY <1>2, <2>1 DEF Account
  <2> QED BY <2>2, <2>3 DEF IsEmptyAccount
<1> HIDE DEF accs, new, x, y
<1>6. Updated(m, s, accs, c)
  BY <1>5, TotalUpdated
<1>7. c \in AccountMap
  BY <1>6 DEF Updated
<1>8. Updated(c, a, new, d)
  BY <1>5, <1>7, TotalUpdated
<1> HIDE DEF c, d
<1>9. Balance(c, a) = x
  BY <1>6 DEF Updated, x
<1>10. TotalBalance(d) = TotalBalance(m)
  <2>1. /\ TotalBalance(m) + (y - v) = TotalBalance(c) + y
        /\ TotalBalance(c) + (v + x) = TotalBalance(d) + x
        /\ c \in AccountMap /\ d \in AccountMap
    BY <1>5, <1>6, <1>8, <1>9 DEF Updated, y
  <2>2. TotalBalance(c) \in Nat /\ TotalBalance(d) \in Nat
    BY <2>1, TotalType
  <2> QED BY <1>1, <2>1, <2>2
<1>11. ASSUME NEW b \in Address \ {s} PROVE Balance(m, b) <= Balance(d, b)
  <2>1. Balance(m, b) \in Nat
    BY TotalType
  <2>2. CASE b = a
    BY <1>1, <1>5, <1>8, <2>2 DEF x, Updated
  <2>3. CASE b # a
    BY <1>6, <1>8, <2>1, <2>3 DEF Updated
  <2> QED BY <2>2, <2>3
<1>12. ASSUME NEW b \in Address, Exists(d, b), IsEmptyAccount(d[b])
       PROVE  Exists(m, b) /\ IsEmptyAccount(m[b])
  <2>1. b # s /\ b # a
    BY <1>5, <1>6, <1>8, <1>12 DEF Updated
  <2> QED BY <1>6, <1>8, <1>12, <2>1 DEF Updated
<1> QED BY <1>4, <1>10, <1>11, <1>12 DEF MovesAll, Moves

\* SELFDESTRUCT of a live account: only its own beneficiary burns its balance.
LEMMA SweepMoves ==
  ASSUME NEW m \in AccountMap, NEW a \in Address, NEW r \in Address,
         NEW born \in BOOLEAN, Live(m, a), TotalBalance(m) < WordSize
  PROVE  LET d == SweepBalance(m, a, r, born)
         IN  /\ Moves(m, d, {a})
             /\ TotalBalance(d) <= TotalBalance(m)
             /\ ~born => TotalBalance(d) = TotalBalance(m)
<1> DEFINE d == SweepBalance(m, a, r, born)
           y == Balance(m, a)
<1>1. /\ Exists(m, a) /\ m[a] = Lookup(m, a) /\ m[a].balance = y
      /\ y \in Nat /\ y \in Uint /\ TotalBalance(m) \in Nat
  <2>1. Exists(m, a)
    BY DEF Live, Lookup, DefaultAccount
  <2> QED BY <2>1, LookupType, TotalType DEF Balance
<1>2. 0 \in Uint
  BY WordSizeAssumption DEF Uint, WordSizeAssumption
<1>3. CASE d = m
  BY <1>1, <1>3, MovesNothing DEF MovesAll
<1>4. CASE ~(~Exists(m, a) \/ (~Exists(m, r) /\ y = 0) \/ (r = a /\ ~born))
  <2> DEFINE acc == [m[a] EXCEPT !.balance = 0]
  <2>1. acc \in Account /\ acc.balance = 0 /\ ~IsEmptyAccount(acc)
    BY <1>1, <1>2, LookupType, BalanceSet DEF Live
  <2>2. CASE r = a
    <3>1. d = [m EXCEPT ![a] = acc] /\ born
      BY <1>1, <1>4, <2>2 DEF SweepBalance
    <3> HIDE DEF acc, d
    <3>2. Updated(m, a, acc, d)
      BY <2>1, <3>1, TotalUpdated
    <3>3. TotalBalance(d) \in Nat
      BY <3>2, TotalType DEF Updated
    <3>4. TotalBalance(m) + 0 = TotalBalance(d) + y
      BY <2>1, <3>2 DEF Updated, y
    <3>5. TotalBalance(d) <= TotalBalance(m)
      BY <1>1, <3>3, <3>4
    <3>6. \A b \in Address : Balance(m, b) \in Nat
      BY TotalType
    <3>7. Moves(m, d, {a})
      BY <2>1, <3>2, <3>6 DEF Moves, Updated
    <3> QED BY <3>1, <3>5, <3>7 DEF d
  <2>3. CASE r # a
    <3> DEFINE e == Transfer(m, a, r, y)
    <3>1. Credit(m, r, y) \in AccountMap /\ Credit(m, r, y)[a] = m[a] /\ Exists(Credit(m, r, y), a)
      <4>1. Credit(m, r, y) \in AccountMap
        BY <1>1, CreditType
      <4>2. Credit(m, r, y)[a] = m[a]
        BY <2>3 DEF Credit, AccountMap
      <4> QED BY <1>1, <4>1, <4>2 DEF Exists
    <3>2. SubWord(y, y) = 0
      <4>1. SubWord(y, y) = y - y
        BY <1>1, WordArithmetic
      <4> QED BY <1>1, <4>1
    <3>3. d = [Credit(m, r, y) EXCEPT ![a] = acc]
      BY <1>1, <1>4, <2>3, <3>1 DEF SweepBalance
    <3>4. e = [Credit(m, r, y) EXCEPT ![a] = acc]
      BY <1>1, <3>1, <3>2 DEF Transfer, Debit
    <3>5. MovesAll(m, e, {a})
      BY <1>1, TransferMoves
    <3>6. y <= y
      BY <1>1
    <3>7. MovesAll(m, d, {a})
      BY <3>3, <3>4, <3>5
    <3> QED BY <1>1, <3>7 DEF MovesAll
  <2> QED BY <2>2, <2>3
<1>5. d = m \/ ~(~Exists(m, a) \/ (~Exists(m, r) /\ y = 0) \/ (r = a /\ ~born))
  BY <1>1 DEF SweepBalance
<1> QED BY <1>3, <1>4, <1>5

\* SSTORE and TSTORE move nothing.
LEMMA StoreMoves ==
  ASSUME NEW m \in AccountMap, NEW a \in Address, NEW slot \in Slot,
         NEW w \in Word, NEW P
  PROVE  /\ MovesAll(m, StoreWord(m, a, slot, w), P)
         /\ MovesAll(m, StoreTransient(m, a, slot, w), P)
<1>1. CASE Exists(m, a)
  <2> DEFINE x == [m[a] EXCEPT !.storage[slot] = w]
             y == [m[a] EXCEPT !.tstorage[slot] = w]
  <2>1. m[a] \in Account /\ m[a].balance = Balance(m, a)
    BY <1>1, LookupType DEF Balance
  <2>2. /\ x \in Account /\ x.balance = Balance(m, a)
        /\ IsEmptyAccount(x) => IsEmptyAccount(m[a])
    BY <2>1 DEF Account, Storage, IsEmptyAccount
  <2>3. /\ y \in Account /\ y.balance = Balance(m, a)
        /\ IsEmptyAccount(y) => IsEmptyAccount(m[a])
    BY <2>1 DEF Account, Storage, IsEmptyAccount
  <2>4. /\ StoreWord(m, a, slot, w) = [m EXCEPT ![a] = x]
        /\ StoreTransient(m, a, slot, w) = [m EXCEPT ![a] = y]
    BY <1>1 DEF StoreWord, StoreTransient
  <2> HIDE DEF x, y
  <2>5. MovesAll(m, [m EXCEPT ![a] = x], P)
    BY <1>1, <2>2, SameBalanceMoves
  <2>6. MovesAll(m, [m EXCEPT ![a] = y], P)
    BY <1>1, <2>3, SameBalanceMoves
  <2> QED BY <2>4, <2>5, <2>6
<1>2. CASE ~Exists(m, a)
  BY <1>2, MovesNothing DEF StoreWord, StoreTransient
<1> QED BY <1>1, <1>2

\* Nor does the deposit of a code for an account that has a nonce.
LEMMA DepositMoves ==
  ASSUME NEW m \in AccountMap, NEW a \in Address, NEW n \in Nat,
         Lookup(m, a).nonce # 0, NEW P
  PROVE  MovesAll(m, [m EXCEPT ![a] = [Lookup(m, a) EXCEPT !.code = n]], P)
<1> DEFINE acc == [Lookup(m, a) EXCEPT !.code = n]
<1>1. Lookup(m, a) \in Account
  BY LookupType
<1>2. acc \in Account /\ acc.balance = Balance(m, a) /\ ~IsEmptyAccount(acc)
  BY <1>1 DEF Account, Balance, IsEmptyAccount
<1> HIDE DEF acc
<1>3. MovesAll(m, [m EXCEPT ![a] = acc], P)
  BY <1>2, SameBalanceMoves
<1> QED BY <1>3 DEF acc

-----------------------------------------------------------------------------
(***************************************************************************)
(* Whatever the machine does, each state it then has, on top or saved in a *)
(* frame, comes of one it had: by no step at all, or by moving ether.  And *)
(* the outermost frame is still the one that the transaction entered.      *)
(***************************************************************************)
\* Only a program spends, and only its own.
Spenders == IF Top.code = "program" THEN {Top.owner} ELSE {}

Held(m, A) ==
    \/ m = world /\ A = sub
    \/ \E k \in 1 .. Len(frames) : m = frames[k].world /\ A = frames[k].sub

Comes(m2, A2) ==
    /\ m2 \in AccountMap
    /\ \E m \in AccountMap : \E A : Held(m, A) /\ MoneyStep(m, A, m2, A2, Spenders)

AllCome ==
    /\ Comes(world', sub')
    /\ \A k \in 1 .. Len(frames') : Comes(frames'[k].world, frames'[k].sub)
    /\ Len(frames') > 0 => frames'[1].given = frames[1].given

\* What was there before comes of itself.
LEMMA HeldComes ==
  ASSUME NEW m \in AccountMap, NEW A, Held(m, A)
  PROVE  Comes(m, A)
<1>1. MovesAll(m, m, Spenders) /\ SameMarks(A, A)
  BY MovesNothing DEF SameMarks
<1> QED BY <1>1, MovesIsMoneyStep DEF Comes

\* A step from what is on top.
LEMMA TopComes ==
  ASSUME TypeOK, NEW m2 \in AccountMap, NEW A2,
         MoneyStep(world, sub, m2, A2, Spenders)
  PROVE  Comes(m2, A2)
BY DEF Comes, Held, TypeOK

\* Frames that stay where they are.
LEMMA SavedCome ==
  ASSUME TypeOK, NEW n \in Nat, n <= Len(frames), NEW gs,
         \A k \in 1 .. n : SameActivation(frames[k], gs[k])
  PROVE  \A k \in 1 .. n : Comes(gs[k].world, gs[k].sub)
<1> SUFFICES ASSUME NEW k \in 1 .. n PROVE Comes(gs[k].world, gs[k].sub)
  OBVIOUS
<1>1. frames \in Seq(Frame) /\ Len(frames) \in Nat
  BY DEF TypeOK
<1>2. k \in 1 .. Len(frames)
  BY <1>1
<1>3. frames[k] \in Frame
  BY <1>1, <1>2, ElementOfSeq
<1>4. /\ gs[k].world \in AccountMap
      /\ gs[k].world = frames[k].world /\ gs[k].sub = frames[k].sub
  BY <1>3 DEF SameActivation, Frame
<1>5. Held(gs[k].world, gs[k].sub)
  BY <1>2, <1>4 DEF Held
<1> QED BY <1>4, <1>5, HeldComes

\* An instruction that stays in its frame.
LEMMA StaysCome ==
  ASSUME TypeOK, TypeOK', status = "running", NEW f \in Frame,
         SameActivation(Top, f), frames' = SetTop(f),
         MoneyStep(world, sub, world', sub', Spenders)
  PROVE  AllCome
<1>1. PICK n \in Nat : n = Len(frames)
  BY TopType
<1>2. /\ Len(frames') = n
      /\ \A k \in 1 .. n : frames'[k] = IF k = n THEN f ELSE frames[k]
  BY <1>1, SetTopType
<1>3. \A k \in 1 .. n : SameActivation(frames[k], frames'[k])
  BY <1>1, <1>2 DEF Top, SameActivation
<1>4. \A k \in 1 .. n : Comes(frames'[k].world, frames'[k].sub)
  BY <1>1, <1>3, SavedCome
<1>5. Comes(world', sub')
  BY TopComes DEF TypeOK
<1>6. n > 0 => frames'[1].given = frames[1].given
  BY <1>3 DEF SameActivation
<1> QED BY <1>2, <1>4, <1>5, <1>6 DEF AllCome

\* One that is paid for.
LEMMA ChargeCome ==
  ASSUME TypeOK, TypeOK', NEW op, NEW memory \in Nat, NEW cost \in Nat,
         Executes(op, memory, cost), frames' = SetTop(Charged(memory + cost)),
         MovesAll(world, world', Spenders), SameMarks(sub, sub')
  PROVE  AllCome
<1>1. status = "running" /\ Top \in Frame
  BY TopType DEF Executes
<1>2. memory + cost \in Nat /\ memory + cost <= memory + cost
  OBVIOUS
<1>3. Charged(memory + cost) \in Frame
  BY <1>2, ChargedType
<1>4. SameActivation(Top, Charged(memory + cost))
  BY <1>1 DEF SameActivation, Charged, Frame
<1>5. MoneyStep(world, sub, world', sub', Spenders)
  BY MovesIsMoneyStep DEF TypeOK
<1> QED BY <1>1, <1>3, <1>4, <1>5, StaysCome

\* X returns.
LEMMA HaltCome ==
  ASSUME TypeOK, TypeOK', UNCHANGED frames,
         MoneyStep(world, sub, world', sub', Spenders)
  PROVE  AllCome
<1>1. PICK n \in Nat : n = Len(frames)
  BY DEF TypeOK
<1>2. \A k \in 1 .. n : SameActivation(frames[k], frames[k])
  BY DEF SameActivation
<1>3. \A k \in 1 .. n : Comes(frames[k].world, frames[k].sub)
  BY <1>1, <1>2, SavedCome
<1>4. Comes(world', sub')
  BY TopComes DEF TypeOK
<1> QED BY <1>1, <1>3, <1>4 DEF AllCome

\* X returns and nothing has changed.
LEMMA QuietHaltCome ==
  ASSUME TypeOK, TypeOK', UNCHANGED <<frames, world, sub>>
  PROVE  AllCome
<1>1. MovesAll(world, world', Spenders) /\ SameMarks(sub, sub')
  BY MovesNothing DEF SameMarks, TypeOK
<1>2. MoneyStep(world, sub, world', sub', Spenders)
  BY <1>1, MovesIsMoneyStep DEF TypeOK
<1> QED BY <1>2, HaltCome

\* A call or a creation by the innermost frame.
LEMMA EnterCome ==
  ASSUME TypeOK, TypeOK', status = "running", NEW f \in Frame,
         SameActivation(Top, f), NEW new \in Frame,
         frames' = Append(SetTop(f), new),
         MoneyStep(world, sub, new.world, new.sub, Spenders),
         MoneyStep(world, sub, world', sub', Spenders)
  PROVE  AllCome
<1>1. PICK n \in Nat : n = Len(frames)
  BY TopType
<1>2. /\ SetTop(f) \in Seq(Frame) /\ Len(SetTop(f)) = n
      /\ \A k \in 1 .. n : SetTop(f)[k] = IF k = n THEN f ELSE frames[k]
  BY <1>1, SetTopType
<1>3. /\ Len(frames') = n + 1 /\ frames'[n + 1] = new
      /\ \A k \in 1 .. n : frames'[k] = IF k = n THEN f ELSE frames[k]
  BY <1>1, <1>2, AppendProperties
<1>4. \A k \in 1 .. n : SameActivation(frames[k], frames'[k])
  BY <1>1, <1>3 DEF Top, SameActivation
<1>5. \A k \in 1 .. n : Comes(frames'[k].world, frames'[k].sub)
  <2>1. n <= Len(frames)
    BY <1>1
  <2> QED BY <1>4, <2>1, SavedCome
<1>6. Comes(new.world, new.sub) /\ Comes(world', sub')
  BY TopComes DEF TypeOK, Frame
<1>7. \A k \in 1 .. n + 1 : k = n + 1 \/ k \in 1 .. n
  OBVIOUS
<1>8. frames'[1].given = frames[1].given
  <2>1. 1 \in 1 .. n
    BY <1>1, TopType
  <2> QED BY <1>4, <2>1 DEF SameActivation
<1> QED BY <1>3, <1>5, <1>6, <1>7, <1>8 DEF AllCome

\* What Θ and Λ give back is as good as one of the two states they have.
LEMMA ResultComes ==
  ASSUME TypeOK, AccountInv, status = "running", halt # Running
  PROVE  Comes(FrameResult.world, FrameResult.sub)
<1>1. /\ Top \in Frame /\ Top.owner \in Address
      /\ Top.world \in AccountMap /\ Top.sub \in Substate
      /\ world \in AccountMap /\ sub \in Substate /\ halt.size \in Nat
      /\ Len(frames) \in 1 .. Len(frames)
  BY SMTT(40), TopType DEF Frame, Halt, TypeOK
<1>2. Held(Top.world, Top.sub) /\ Held(world, sub)
  BY <1>1 DEF Held, Top
<1>3. Comes(Top.world, Top.sub) /\ Comes(world, sub)
  BY <1>1, <1>2, HeldComes
<1>4. CASE Top.kind = "call"
  BY <1>3, <1>4 DEF FrameResult, ThetaResult
<1>5. CASE Top.kind # "call"
  <2>1. FrameResult = LambdaResult /\ Top.kind = "create"
    BY <1>1, <1>5 DEF FrameResult, Frame
  <2>2. CASE halt.cause # "success"
    BY <1>3, <2>1, <2>2 DEF LambdaResult
  <2>3. CASE halt.cause = "success" /\ DepositFails
    <3> DEFINE A == LambdaSubstate(Top.world, Top.sub, Top.owner)
    <3>1. FrameResult.world = Top.world /\ FrameResult.sub = A
      BY <2>1, <2>3 DEF LambdaResult, DepositFailure
    <3>2. A.selfDestructSet = Top.sub.selfDestructSet
      BY <1>1 DEF LambdaSubstate, Substate
    <3> HIDE DEF A
    <3>3. MovesAll(Top.world, Top.world, Spenders)
      BY <1>1, MovesNothing
    <3>4. MoneyStep(Top.world, Top.sub, Top.world, A, Spenders)
      BY <1>1, <3>2, <3>3, TotalType DEF MoneyStep, MovesAll
    <3> QED BY <1>1, <1>2, <3>1, <3>4 DEF Comes
  <2>4. CASE halt.cause = "success" /\ ~DepositFails
    <3> DEFINE c == [world EXCEPT ![Top.owner] =
                       [Lookup(world, Top.owner) EXCEPT !.code = halt.size]]
    <3>1. FrameResult.world = c /\ FrameResult.sub = sub
      BY <2>1, <2>4 DEF LambdaResult
    <3>2. Rooted(world, sub, Top) /\ Top.code = "program"
      <4>1. Rooted(world, sub, Top) /\ Top.code \in {"program", "invalid"}
        BY <1>1, <2>1 DEF AccountInv, History, Top
      <4> QED BY <2>4, <4>1 DEF AccountInv
    <3>3. Lookup(world, Top.owner).nonce # 0
      BY <2>1, <3>2 DEF Rooted
    <3>4. MovesAll(world, c, Spenders) /\ SameMarks(sub, sub)
      BY <1>1, <3>3, DepositMoves DEF SameMarks
    <3>5. FrameResult.world \in AccountMap
      BY ResultTypes
    <3> HIDE DEF c
    <3>6. MoneyStep(world, sub, c, sub, Spenders)
      BY <1>1, <3>1, <3>4, <3>5, MovesIsMoneyStep
    <3> QED BY <1>1, <1>2, <3>1, <3>5, <3>6 DEF Comes
  <2> QED BY <2>2, <2>3, <2>4
<1> QED BY <1>4, <1>5

-----------------------------------------------------------------------------
\* What a running machine may count on: its top is live, and no sum wraps.
LEMMA Affluent ==
  ASSUME TypeOK, AccountInv, EtherInv, status = "running", Top.code = "program"
  PROVE  /\ Top \in Frame /\ Top.owner \in Address
         /\ world \in AccountMap /\ sub \in Substate
         /\ Live(world, Top.owner) /\ Exists(world, Top.owner)
         /\ TotalBalance(world) < WordSize
         /\ Spenders = {Top.owner}
<1>1. Top \in Frame /\ Top.owner \in Address
  BY TopType DEF Frame
<1>2. Live(world, Top.owner)
  BY TopHistory
<1>3. Exists(world, Top.owner)
  BY <1>2 DEF Live, Lookup, DefaultAccount
<1>4. TotalBalance(world) < WordSize
  <2>1. /\ TotalBalance(world) \in Nat /\ TotalBalance(origin) \in Nat
        /\ TotalBalance(world) <= TotalBalance(origin)
        /\ TotalBalance(origin) < WordSize /\ WordSize \in Nat
    BY TotalType, WordSizeAssumption DEF EtherInv, Conserved, TypeOK, WordSizeAssumption
  <2> QED BY <2>1
<1> QED BY <1>1, <1>2, <1>3, <1>4 DEF Spenders, TypeOK

\* The four calls.
LEMMA CallComes ==
  ASSUME TypeOK, TypeOK', AccountInv, EtherInv, NEW op \in CallOp, NEW t \in Address,
         NEW asked \in AskedGas, NEW memory \in MemoryCost,
         NEW v \in CallValues(op), Call(op, t, v, asked, memory)
  PROVE  AllCome
<1> DEFINE A    == AddAccessedAccount(sub, t)
           r    == Recipient(op, t)
           s    == CallSource(op)
           give == CallGas(op, t, v, asked, memory)
           cost == CallCost(op, t, v, asked, memory)
           f    == Charged(memory)
           new  == ThetaFrame(world, A, s, r, CodeOf(world, t), give,
                              Top.depth + 1, CallPerm(op), cost)
<1>1. asked \in Nat /\ memory \in Nat /\ v \in Uint
  BY MachineAssumption, WordSizeAssumption
  DEF MachineAssumption, WordSizeAssumption, CallValues, Uint
<1>2. /\ status = "running" /\ r \in Address /\ s \in Address
      /\ give \in Nat /\ cost \in Nat /\ f \in Frame
  BY <1>1, CallFrames DEF Call
<1>3. /\ frames' = Append(SetTop(f), new) /\ sub' = A
      /\ world' = Transfer(world, s, r, v)
      /\ Top.code = "program" /\ v <= Balance(world, Top.owner)
  BY DEF Call, CallExecutes, Executes, CallGranted
<1>4. /\ Top \in Frame /\ Top.owner \in Address
      /\ world \in AccountMap /\ sub \in Substate
      /\ Live(world, Top.owner) /\ TotalBalance(world) < WordSize
      /\ Spenders = {Top.owner}
  BY <1>2, <1>3, Affluent
<1>5. Top.depth + 1 \in Nat /\ Top.perm \in BOOLEAN
  BY <1>4 DEF Frame
<1>6. A \in Substate /\ CallPerm(op) \in BOOLEAN
  BY <1>4, <1>5, SubstateTypes DEF CallPerm
<1>7. new \in Frame
  BY <1>2, <1>4, <1>5, <1>6, EnteredFrames
<1>8. new.world = world /\ new.sub = A
  BY DEF ThetaFrame
<1>9. SameActivation(Top, f)
  BY <1>4 DEF SameActivation, Charged, Frame
<1>10. MovesAll(world, world', Spenders)
  <2>1. CASE v = 0
    BY <1>2, <1>3, <1>4, <2>1, TransferNothing, MovesNothing
  <2>2. CASE v # 0
    <3>1. s = Top.owner
      BY <2>2 DEF CallSource, CallValues
    <3>2. MovesAll(world, Transfer(world, s, r, v), {s})
      BY <1>1, <1>2, <1>3, <1>4, <3>1, TransferMoves
    <3> QED BY <1>3, <1>4, <3>1, <3>2
  <2> QED BY <2>1, <2>2
<1> HIDE DEF f, new, s
<1>11. SameMarks(sub, A) /\ MovesAll(world, world, Spenders)
  BY <1>4, AccessMarksNothing, MovesNothing
<1> HIDE DEF A
<1>12. /\ MoneyStep(world, sub, new.world, new.sub, Spenders)
       /\ MoneyStep(world, sub, world', sub', Spenders)
  BY <1>3, <1>4, <1>8, <1>10, <1>11, MovesIsMoneyStep DEF TypeOK
<1> QED BY <1>2, <1>3, <1>7, <1>9, <1>12, EnterCome

\* CREATE and CREATE2.
LEMMA CreateComes ==
  ASSUME TypeOK, TypeOK', AccountInv, EtherInv, NEW op \in CreateOp, NEW a \in Address,
         NEW v \in Wei, NEW memory \in MemoryCost, Create(op, a, v, memory)
  PROVE  AllCome
<1> DEFINE s    == Top.owner
           give == L(Top.gas - (memory + Gcreate))
           m    == IncrementNonce(world, s)
           A    == AddAccessedAccount(sub, a)
           f    == Charged(memory + Gcreate)
           new  == LambdaFrame(m, A, s, a, give, Top.depth + 1, Top.perm, give)
<1>1. memory \in Nat /\ v \in Uint
  BY MachineAssumption DEF MachineAssumption
<1>2. CreateExecutes(op, memory)
  BY DEF Create
<1>3. status = "running" /\ f \in Frame /\ give \in Nat
  BY <1>1, <1>2, CreateFrames
<1>4. /\ frames' = Append(SetTop(f), new)
      /\ world' = LambdaWorld(m, s, a, v) /\ sub' = LambdaSubstate(m, A, a)
      /\ Top.code = "program" /\ v <= Balance(world, s) /\ a # s
  BY DEF Create, CreateExecutes, Executes, CreateGranted, NewAddress
<1>5. /\ Top \in Frame /\ s \in Address
      /\ world \in AccountMap /\ sub \in Substate
      /\ TotalBalance(world) < WordSize /\ Spenders = {s}
  BY <1>3, <1>4, Affluent
<1>6. Top.depth + 1 \in Nat /\ Top.perm \in BOOLEAN
  BY <1>5 DEF Frame
<1>7. A \in Substate /\ m \in AccountMap
  BY <1>5, SubstateTypes, IncrementNonceType
<1>8. new \in Frame
  BY <1>3, <1>5, <1>6, <1>7, EnteredFrames
<1>9. new.world = m /\ new.sub = A
  BY DEF LambdaFrame
<1>10. SameActivation(Top, f)
  BY <1>5 DEF SameActivation, Charged, Frame
<1>11. SameMarks(sub, A)
  BY <1>5, AccessMarksNothing
<1>12. /\ MovesAll(world, m, Spenders) /\ Live(m, s) /\ Exists(m, s)
       /\ v <= Balance(m, s)
  BY <1>4, <1>5, IncrementMoves
<1> HIDE DEF m, f, new
<1>13. TotalBalance(m) < WordSize
  BY <1>5, <1>12 DEF MovesAll
<1>14. MovesAll(m, world', Spenders)
  BY <1>1, <1>4, <1>5, <1>7, <1>12, <1>13, LambdaMoves
<1>15. MovesAll(world, world', Spenders)
  BY <1>5, <1>7, <1>12, <1>14, MovesTransitive DEF TypeOK
<1>16. sub'.selfDestructSet = sub.selfDestructSet
  <2>1. sub'.selfDestructSet = A.selfDestructSet
    BY <1>4, <1>7 DEF LambdaSubstate, Substate
  <2> QED BY <1>11, <2>1 DEF SameMarks
<1> HIDE DEF A
<1>17. MoneyStep(world, sub, new.world, new.sub, Spenders)
  BY <1>5, <1>7, <1>9, <1>11, <1>12, MovesIsMoneyStep
<1>18. MoneyStep(world, sub, world', sub', Spenders)
  BY <1>5, <1>15, <1>16, TotalType DEF MoneyStep, MovesAll
<1> QED BY <1>3, <1>4, <1>8, <1>10, <1>17, <1>18, EnterCome

\* SELFDESTRUCT.
LEMMA SelfdestructComes ==
  ASSUME TypeOK, TypeOK', AccountInv, EtherInv, NEW r \in Address, Selfdestruct(r)
  PROVE  AllCome
<1> DEFINE a    == Top.owner
           born == Born(a)
           A    == AddAccessedAccount(sub, r)
<1>1. /\ status = "running" /\ Top.code = "program" /\ UNCHANGED frames
      /\ world' = SweepBalance(world, a, r, born)
      /\ sub' = IF born THEN [A EXCEPT !.selfDestructSet = @ \cup {a}] ELSE A
  BY DEF Selfdestruct, Executes, Halts
<1>2. /\ a \in Address /\ world \in AccountMap /\ sub \in Substate
      /\ Live(world, a) /\ TotalBalance(world) < WordSize /\ Spenders = {a}
  BY <1>1, Affluent
<1>3. /\ Moves(world, world', {a})
      /\ TotalBalance(world') <= TotalBalance(world)
      /\ ~born => TotalBalance(world') = TotalBalance(world)
  <2>1. born \in BOOLEAN
    BY DEF Born
  <2> HIDE DEF born, a
  <2> QED BY <1>1, <1>2, <2>1, SweepMoves
<1>4. A \in Substate /\ A.selfDestructSet = sub.selfDestructSet
  BY <1>2, SubstateTypes, AccessMarksNothing DEF SameMarks
<1> HIDE DEF A
<1>5. /\ sub.selfDestructSet \subseteq sub'.selfDestructSet
      /\ born => sub'.selfDestructSet # {}
  BY <1>1, <1>4 DEF Substate
<1>6. MoneyStep(world, sub, world', sub', Spenders)
  BY <1>2, <1>3, <1>5 DEF MoneyStep
<1> QED BY <1>1, <1>6, HaltCome

\* Θ or Λ returns to a caller.
LEMMA ResumeComes ==
  ASSUME TypeOK, TypeOK', AccountInv, Resume
  PROVE  AllCome
<1>1. /\ status = "running" /\ Len(frames) > 1 /\ halt # Running
      /\ world' = FrameResult.world /\ sub' = FrameResult.sub
  BY DEF Resume
<1>2. PICK n \in Nat \ {0} : n = Len(frames) - 1
  BY <1>1, PopIndex
<1>3. /\ n \in Nat /\ n <= Len(frames) /\ Len(frames') = n
      /\ \A k \in 1 .. n : SameActivation(frames[k], frames'[k])
  BY <1>1, <1>2, ResumePops
<1>4. Comes(world', sub')
  BY <1>1, ResultComes
<1>5. \A k \in 1 .. n : Comes(frames'[k].world, frames'[k].sub)
  BY <1>3, SavedCome
<1>6. frames'[1].given = frames[1].given
  BY <1>3 DEF SameActivation
<1> QED BY <1>3, <1>4, <1>5, <1>6 DEF AllCome

\* Θ or Λ returns to Υ.
LEMMA FinishComes ==
  ASSUME TypeOK, AccountInv, Finish
  PROVE  AllCome
<1>1. /\ status = "running" /\ halt # Running
      /\ world' = FrameResult.world /\ sub' = FrameResult.sub /\ frames' = <<>>
  BY DEF Finish
<1>2. Comes(world', sub')
  BY <1>1, ResultComes
<1>3. Len(frames') = 0
  BY <1>1, EmptySeq
<1> QED BY <1>2, <1>3 DEF AllCome

\* SSTORE and TSTORE.
LEMMA StoresCome ==
  ASSUME TypeOK, TypeOK', NEW slot \in Slot, NEW new \in Word,
         Sstore(slot, new) \/ Tstore(slot, new)
  PROVE  AllCome
<1> DEFINE a    == Top.owner
           cost == IF Sstore(slot, new)
                     THEN Csstore(a, slot, StoredWord(origin, a, slot),
                                  StoredWord(world, a, slot), new, sub)
                     ELSE Gwarmaccess
<1>1. cost \in Nat /\ 0 + cost = cost
  BY FeeScheduleAssumption DEF Csstore, FeeScheduleAssumption
<1>2. /\ \E op : Executes(op, 0, cost)
      /\ frames' = SetTop(Charged(cost))
      /\ \/ world' = StoreWord(world, a, slot, new)
         \/ world' = StoreTransient(world, a, slot, new)
  BY DEF Sstore, Tstore
<1> HIDE DEF cost
<1>3. /\ a \in Address /\ world \in AccountMap /\ sub \in Substate
  BY <1>2, TopType DEF Executes, Frame, TypeOK
<1>4. SameMarks(sub, sub')
  <2>1. CASE Sstore(slot, new)
    BY <2>1, SstoreMarks
  <2>2. CASE Tstore(slot, new)
    BY <2>2 DEF Tstore, SameMarks
  <2> QED BY <2>1, <2>2
<1>5. MovesAll(world, world', Spenders)
  BY <1>2, <1>3, StoreMoves
<1>6. 0 \in Nat /\ frames' = SetTop(Charged(0 + cost))
  BY <1>1, <1>2
<1> QED BY <1>1, <1>2, <1>4, <1>5, <1>6, ChargeCome

\* An instruction that is paid for and moves nothing.
LEMMA ReadComes ==
  ASSUME TypeOK, TypeOK', NEW op, NEW memory \in Nat, NEW cost \in Nat,
         Executes(op, memory, cost), frames' = SetTop(Charged(memory + cost)),
         world' = world, SameMarks(sub, sub')
  PROVE  AllCome
<1>1. MovesAll(world, world', Spenders)
  BY MovesNothing DEF TypeOK
<1> QED BY <1>1, ChargeCome

\* A call that is refused.
LEMMA RefusedComes ==
  ASSUME TypeOK, TypeOK', NEW op \in CallOp, NEW t \in Address, NEW asked \in AskedGas,
         NEW memory \in MemoryCost, NEW v \in CallValues(op),
         CallRefused(op, t, v, asked, memory)
  PROVE  AllCome
<1>1. PICK f \in Frame : SameActivation(Top, f) /\ frames' = SetTop(f)
  BY RefusedStays
<1>2. /\ status = "running" /\ world' = world /\ sub' = AddAccessedAccount(sub, t)
      /\ world \in AccountMap /\ sub \in Substate
  BY DEF CallRefused, CallExecutes, Executes, TypeOK
<1>3. MovesAll(world, world', Spenders) /\ SameMarks(sub, sub')
  BY <1>2, MovesNothing, AccessMarksNothing
<1>4. MoneyStep(world, sub, world', sub', Spenders)
  BY <1>2, <1>3, MovesIsMoneyStep
<1> QED BY <1>1, <1>2, <1>4, StaysCome

\* Whatever the machine does once it has begun.
LEMMA StepsCome ==
  ASSUME TypeOK, TypeOK', AccountInv, EtherInv, Instruction \/ Resume \/ Finish
  PROVE  AllCome
<1>0. /\ Gwarmaccess \in Nat /\ Glog \in Nat /\ Gcreate \in Nat
      /\ sub \in Substate /\ SameMarks(sub, sub)
      /\ \A memory \in MemoryCost : memory \in Nat
      /\ \A cost \in StepCost : cost \in Nat
  BY FeeScheduleAssumption, MachineAssumption
  DEF FeeScheduleAssumption, MachineAssumption, SameMarks, TypeOK
<1>1. ASSUME NEW op \in CallOp, NEW t \in Address, NEW asked \in AskedGas,
             NEW memory \in MemoryCost, NEW v \in CallValues(op),
             Call(op, t, v, asked, memory) \/ CallRefused(op, t, v, asked, memory)
      PROVE  AllCome
  BY <1>1, CallComes, RefusedComes
<1>2. ASSUME NEW op \in CreateOp, NEW a \in Address, NEW v \in Wei,
             NEW memory \in MemoryCost, Create(op, a, v, memory)
      PROVE  AllCome
  BY <1>2, CreateComes
<1>3. ASSUME NEW op \in CreateOp, NEW v \in Wei, NEW memory \in MemoryCost,
             CreateRefused(op, v, memory)
      PROVE  AllCome
  BY <1>0, <1>3, ReadComes DEF CreateRefused, CreateExecutes
<1>4. ASSUME NEW slot \in Slot, Sload(slot)
      PROVE  AllCome
  <2> DEFINE cost == Csload(Top.owner, slot, sub)
  <2>1. cost \in Nat /\ 0 + cost = cost
    BY FeeScheduleAssumption DEF Csload, FeeScheduleAssumption
  <2>2. /\ Executes("SLOAD", 0, cost) /\ frames' = SetTop(Charged(cost))
        /\ world' = world /\ sub' = AddAccessedStorageKey(sub, Top.owner, slot)
    BY <1>4 DEF Sload
  <2> HIDE DEF cost
  <2>3. Top.owner \in Address
    BY <2>2, TopType DEF Executes, Frame
  <2> QED BY <1>0, <2>1, <2>2, <2>3, AccessMarksNothing, ReadComes
<1>5. ASSUME NEW slot \in Slot, NEW new \in Word, Sstore(slot, new) \/ Tstore(slot, new)
      PROVE  AllCome
  BY <1>5, StoresCome
<1>6. ASSUME NEW memory \in MemoryCost, NEW cost \in StepCost,
             Compute(memory, cost)
      PROVE  AllCome
  BY <1>0, <1>6, ReadComes DEF Compute
<1>7. ASSUME NEW memory \in MemoryCost, NEW a \in Address, ReadAccount(a, memory)
      PROVE  AllCome
  BY <1>0, <1>7, CaccessType, AccessMarksNothing, ReadComes DEF ReadAccount
<1>8. ASSUME NEW memory \in MemoryCost, Log(memory)
      PROVE  AllCome
  <2>1. SameMarks(sub, sub')
    BY <1>0, <1>8 DEF Log, SameMarks, Substate
  <2> QED BY <1>0, <1>8, <2>1, ReadComes DEF Log
<1>9. ASSUME NEW memory, NEW size, NEW ef, Return(memory, size, ef) \/ Revert(memory)
      PROVE  AllCome
  BY <1>9, QuietHaltCome DEF Return, Revert, Halts
<1>10. ASSUME NEW r \in Address, Selfdestruct(r)
       PROVE  AllCome
  BY <1>10, SelfdestructComes
<1>11. CASE Stop \/ Fault \/ RunPrecompile
  BY <1>11, QuietHaltCome DEF Stop, Fault, RunPrecompile, Halts
<1>12. CASE Resume
  BY <1>12, ResumeComes
<1>13. CASE Finish
  BY <1>13, FinishComes
<1> QED
  BY <1>1, <1>2, <1>3, <1>4, <1>5, <1>6, <1>7, <1>8, <1>9, <1>10, <1>11, <1>12, <1>13
  DEF Instruction, CallInstruction, CreateInstruction,
      StorageInstruction, MemoryInstruction

\* The first frame keeps the checkpoint state, and the sender pays.
LEMMA StartMoves ==
  ASSUME TypeOK, EtherInv, NEW s \in Sender(origin), NEW a \in Address,
         NEW v \in Uint, NEW g, StartCall(s, a, v, g) \/ StartCreate(s, a, v, g)
  PROVE  /\ MovesAll(origin, world', {s})
         /\ sub'.selfDestructSet = {}
         /\ \E new : /\ frames' = <<new>> /\ new.world = origin
                     /\ new.sub.selfDestructSet = {} /\ new.given = g
<1> DEFINE A == InitialSubstate({s, a})
<1>1. /\ origin \in AccountMap /\ s \in Address /\ v \in Uint
      /\ Exists(origin, s) /\ Live(origin, s) /\ TotalBalance(origin) < WordSize
  BY DEF Sender, Live, Lookup, EtherInv, TypeOK
<1>2. A.selfDestructSet = {}
  BY DEF InitialSubstate
<1>3. CASE StartCall(s, a, v, g)
  <2>1. /\ v <= Balance(origin, s) /\ world' = Transfer(origin, s, a, v) /\ sub' = A
        /\ frames' = <<ThetaFrame(origin, A, s, a, CodeOf(origin, a), g, 0, TRUE, g)>>
    BY <1>3 DEF StartCall
  <2>2. MovesAll(origin, world', {s})
    BY <1>1, <2>1, TransferMoves
  <2> HIDE DEF A
  <2> QED BY <1>2, <2>1, <2>2 DEF ThetaFrame
<1>4. CASE StartCreate(s, a, v, g)
  <2>1. /\ v <= Balance(origin, s) /\ world' = LambdaWorld(origin, s, a, v) /\ a # s
        /\ sub' = LambdaSubstate(origin, A, a)
        /\ frames' = <<LambdaFrame(origin, A, s, a, g, 0, TRUE, g)>>
    BY <1>4 DEF StartCreate, NewAddress
  <2>2. MovesAll(origin, world', {s})
    BY <1>1, <2>1, LambdaMoves
  <2>3. sub'.selfDestructSet = {}
    BY <2>1 DEF LambdaSubstate, InitialSubstate
  <2> HIDE DEF A
  <2> QED BY <1>2, <2>1, <2>2, <2>3 DEF LambdaFrame
<1> QED BY <1>3, <1>4

-----------------------------------------------------------------------------
(***************************************************************************)
(* What every such step keeps.                                             *)
(***************************************************************************)
\* A state with no more ether than the checkpoint state gives way to another.
LEMMA ConservedOn ==
  ASSUME NEW m \in AccountMap, NEW A, NEW m2 \in AccountMap, NEW A2, NEW P,
         origin \in AccountMap, Conserved(m, A), MoneyStep(m, A, m2, A2, P)
  PROVE  Conserved(m2, A2)
<1>1. /\ TotalBalance(m) \in Nat /\ TotalBalance(m2) \in Nat
      /\ TotalBalance(origin) \in Nat
  BY TotalType
<1>2. TotalBalance(m2) <= TotalBalance(origin)
  BY <1>1 DEF Conserved, MoneyStep
<1>3. A2.selfDestructSet = {} => A.selfDestructSet = {}
  BY DEF MoneyStep
<1> QED BY <1>2, <1>3 DEF Conserved, MoneyStep

\* EtherInv of the next state, said of its parts.
LEMMA EtherOfParts ==
  ASSUME origin' = origin, TotalBalance(origin) < WordSize, Conserved(world', sub'),
         \A k \in 1 .. Len(frames') : Conserved(frames'[k].world, frames'[k].sub)
  PROVE  EtherInv'
<1>1. Conserved(world, sub)'
  BY DEF Conserved
<1>2. ASSUME NEW k \in 1 .. Len(frames')
      PROVE  Conserved(frames[k].world, frames[k].sub)'
  BY <1>2 DEF Conserved
<1> QED BY <1>1, <1>2 DEF EtherInv

LEMMA SparseOfParts ==
  ASSUME origin' = origin,
         NoEmpties(origin) =>
           /\ NoEmpties(world')
           /\ \A k \in 1 .. Len(frames') : NoEmpties(frames'[k].world)
  PROVE  SparseInv'
BY DEF SparseInv

\* Nothing has happened yet.
LEMMA EtherInit == Init => EtherInv /\ SparseInv
<1> SUFFICES ASSUME Init PROVE EtherInv /\ SparseInv
  OBVIOUS
<1>1. /\ origin \in AccountMap /\ TotalBalance(origin) < WordSize
      /\ world = origin /\ Len(frames) = 0
  BY MachineAssumption, EtherAssumption, EmptySeq
  DEF Init, MachineAssumption, EtherAssumption
<1>2. TotalBalance(origin) \in Nat
  BY <1>1, TotalType
<1>3. Conserved(world, sub)
  BY <1>1, <1>2 DEF Conserved
<1> QED BY <1>1, <1>3 DEF EtherInv, SparseInv

\* A transaction begins.
LEMMA StartEther ==
  ASSUME TypeOK, EtherInv, NEW s \in Sender(origin), NEW a \in Address,
         NEW v \in Uint, NEW g, StartCall(s, a, v, g) \/ StartCreate(s, a, v, g)
  PROVE  EtherInv' /\ SparseInv'
<1>1. origin \in AccountMap /\ TotalBalance(origin) < WordSize
  BY DEF TypeOK, EtherInv
<1>2. /\ MovesAll(origin, world', {s}) /\ sub'.selfDestructSet = {}
      /\ \E new : /\ frames' = <<new>> /\ new.world = origin
                  /\ new.sub.selfDestructSet = {}
  BY StartMoves
<1>3. /\ Len(frames') = 1 /\ frames'[1].world = origin
      /\ frames'[1].sub.selfDestructSet = {} /\ origin' = origin
  <2>1. PICK new : /\ frames' = <<new>> /\ new.world = origin
                   /\ new.sub.selfDestructSet = {}
    BY <1>2
  <2>2. Len(frames') = 1 /\ frames'[1] = new
    BY <2>1
  <2>3. origin' = origin
    BY DEF StartCall, StartCreate
  <2> QED BY <2>1, <2>2, <2>3
<1>4. TotalBalance(world') = TotalBalance(origin) /\ TotalBalance(origin) \in Nat
  BY <1>1, <1>2, TotalType DEF MovesAll
<1>5. /\ Conserved(world', sub')
      /\ \A k \in 1 .. Len(frames') : Conserved(frames'[k].world, frames'[k].sub)
  BY <1>2, <1>3, <1>4 DEF Conserved
<1>6. NoEmpties(origin) => NoEmpties(world')
  BY <1>2 DEF MovesAll, Moves, NoEmpties
<1> QED BY <1>1, <1>3, <1>5, <1>6, EtherOfParts, SparseOfParts

\* Every step of Next keeps the ether, and leaves no account empty.
LEMMA EtherStep ==
  TypeOK /\ TypeOK' /\ AccountInv /\ EtherInv /\ SparseInv /\ [Next]_vars
    => EtherInv' /\ SparseInv'
<1> SUFFICES ASSUME TypeOK, TypeOK', AccountInv, EtherInv, SparseInv, [Next]_vars
             PROVE  EtherInv' /\ SparseInv'
  OBVIOUS
<1>0. origin \in AccountMap /\ TotalBalance(origin) < WordSize
  BY DEF TypeOK, EtherInv
<1>1. CASE Start
  BY <1>1, StartEther, MachineAssumption DEF Start, MachineAssumption
<1>2. CASE Instruction \/ Resume \/ Finish
  <2>1. AllCome
    BY <1>2, StepsCome
  <2>2. origin' = origin
    BY <1>2, OriginStays DEF Next
  <2>3. ASSUME NEW m2, NEW A2, Comes(m2, A2)
        PROVE  Conserved(m2, A2) /\ (NoEmpties(origin) => NoEmpties(m2))
    <3>1. PICK m, A : m \in AccountMap /\ Held(m, A) /\ MoneyStep(m, A, m2, A2, Spenders)
      BY <2>3 DEF Comes
    <3>2. Conserved(m, A) /\ (NoEmpties(origin) => NoEmpties(m))
      BY <3>1 DEF Held, EtherInv, SparseInv
    <3>3. Conserved(m2, A2)
      BY <1>0, <2>3, <3>1, <3>2, ConservedOn DEF Comes
    <3>4. NoEmpties(m) => NoEmpties(m2)
      BY <3>1 DEF MoneyStep, Moves, NoEmpties
    <3> QED BY <3>2, <3>3, <3>4
  <2> QED BY <1>0, <2>1, <2>2, <2>3, EtherOfParts, SparseOfParts DEF AllCome
<1>3. CASE UNCHANGED vars
  <2>1. /\ origin' = origin /\ Conserved(world', sub')
        /\ \A k \in 1 .. Len(frames') : Conserved(frames'[k].world, frames'[k].sub)
        /\ NoEmpties(origin) =>
             /\ NoEmpties(world')
             /\ \A k \in 1 .. Len(frames') : NoEmpties(frames'[k].world)
    BY <1>3 DEF vars, EtherInv, SparseInv
  <2> QED BY <1>0, <2>1, EtherOfParts, SparseOfParts
<1> QED BY <1>1, <1>2, <1>3 DEF Next

LEMMA EtherKept == Spec => [](TypeOK /\ AccountInv /\ EtherInv /\ SparseInv)
<1>1. Init => TypeOK /\ AccountInv /\ EtherInv /\ SparseInv
  BY InitType, AccountInit, EtherInit
<1>2. TypeOK /\ AccountInv /\ EtherInv /\ SparseInv /\ [Next]_vars
        => (TypeOK /\ AccountInv /\ EtherInv /\ SparseInv)'
  BY TypeStep, AccountStep, EtherStep
<1> QED BY <1>1, <1>2, PTL DEF Spec

(***************************************************************************)
(* Ether: through every nesting of calls, creations, failures and self-    *)
(* destructions the balances of all accounts add up to what they did when  *)
(* the transaction began, or to less after a contract born in it destroyed *)
(* itself; they are summed as natural numbers, so no balance ever wraps.   *)
(***************************************************************************)
THEOREM EtherIsConserved == Spec => []EtherConserved
<1>1. EtherInv => EtherConserved
  BY DEF EtherInv, EtherConserved
<1> QED BY <1>1, EtherKept, PTL

-----------------------------------------------------------------------------
(***************************************************************************)
(* Refunds.  What gas may still buy is worth MaxRefund for each unit.      *)
(***************************************************************************)
Worth(g) == MaxRefund * g

LEMMA WorthAdds ==
  /\ MaxRefund \in Nat
  /\ \A x \in Nat : Worth(x) \in Nat
  /\ \A x \in Nat : \A y \in Nat : Worth(x + y) = Worth(x) + Worth(y)
  /\ \A x \in Nat : \A y \in Nat : x <= y => Worth(x) <= Worth(y)
  /\ \A f : Room(f) = f.sub.refundBalance + Worth(f.given)
<1>1. MaxRefund \in Nat
  BY FeeScheduleAssumption DEF MaxRefund, FeeScheduleAssumption
<1> DEFINE K == MaxRefund
<1> HIDE DEF K
<1>2. ASSUME NEW x \in Nat PROVE Worth(x) \in Nat
  <2>1. K \in Nat
    BY <1>1 DEF K
  <2>2. K * x \in Nat
    BY <2>1
  <2> QED BY <2>2 DEF Worth, K
<1>3. ASSUME NEW x \in Nat, NEW y \in Nat PROVE Worth(x + y) = Worth(x) + Worth(y)
  <2>1. K \in Nat
    BY <1>1 DEF K
  <2>2. K * (x + y) = K * x + K * y
    BY <2>1
  <2> QED BY <2>2 DEF Worth, K
<1>4. ASSUME NEW x \in Nat, NEW y \in Nat, x <= y PROVE Worth(x) <= Worth(y)
  <2>1. y - x \in Nat /\ y = x + (y - x)
    BY <1>4
  <2>2. Worth(y) = Worth(x) + Worth(y - x)
    BY <1>3, <2>1
  <2> QED BY <1>2, <2>1, <2>2
<1>5. \A f : Room(f) = f.sub.refundBalance + Worth(f.given)
  BY DEF Room, Worth
<1> QED BY <1>1, <1>2, <1>3, <1>4, <1>5

SameStorage(m, m2) ==
    \A a \in Address : Lookup(m2, a).storage = Lookup(m, a).storage

\* The same storage, the same slots erased, and as many refunds to cover.
LEMMA SameCleared ==
  ASSUME NEW m, NEW m2, SameStorage(m, m2), NEW A, NEW A2,
         A2.refundBalance = A.refundBalance, Covered(m, A)
  PROVE  Covered(m2, A2)
<1>1. \A as \in Address \X Slot :
        StoredWord(m2, as[1], as[2]) = StoredWord(m, as[1], as[2])
  BY DEF SameStorage, StoredWord
<1>2. Cleared(m2) = Cleared(m)
  BY <1>1 DEF Cleared
<1> QED BY <1>2 DEF Covered

\* The slots erased are finitely many.
LEMMA ClearedType ==
  ASSUME NEW m
  PROVE  IsFiniteSet(Cleared(m)) /\ Cardinality(Cleared(m)) \in Nat
<1>1. IsFiniteSet(Address \X Slot)
  BY AddressAssumption, FS_Product DEF AddressAssumption
<1>2. Cleared(m) \subseteq Address \X Slot
  BY DEF Cleared
<1> QED BY <1>1, <1>2, FS_Subset, FS_CardinalityType

\* A creation moves money and counts a nonce; storage stays.
LEMMA LambdaStorage ==
  ASSUME NEW m \in AccountMap, NEW s \in Address, NEW a \in Address, a # s,
         NEW v \in Uint
  PROVE  SameStorage(m, LambdaWorld(m, s, a, v))
<1>1. CASE Exists(m, s)
  <2> DEFINE accs == [Lookup(m, s) EXCEPT !.balance = SubWord(@, v)]
             new  == [Lookup(m, a) EXCEPT !.nonce = @ + 1, !.balance = AddWord(v, @)]
             c    == [m EXCEPT ![s] = accs]
             d    == [c EXCEPT ![a] = new]
  <2>1. /\ Lookup(m, s) \in Account /\ Lookup(m, a) \in Account
        /\ m[s] = Lookup(m, s)
        /\ SubWord(Lookup(m, s).balance, v) \in Uint
        /\ AddWord(v, Lookup(m, a).balance) \in Uint
        /\ Lookup(m, a).nonce + 1 \in Nat
    BY <1>1, LookupType, WordArithmetic, NonceType DEF Account
  <2>2. /\ accs \in Account /\ accs.storage = Lookup(m, s).storage
        /\ new \in Account /\ new.storage = Lookup(m, a).storage
    BY <2>1 DEF Account
  <2>3. LambdaWorld(m, s, a, v) = d
    BY <1>1, <2>1 DEF LambdaWorld
  <2> HIDE DEF accs, new
  <2>4. c \in AccountMap
    BY <2>2, InsertType
  <2>5. \A b \in Address : Lookup(c, b) = IF b = s THEN accs ELSE Lookup(m, b)
    BY <2>2, LookupUpdated
  <2> HIDE DEF c
  <2>6. \A b \in Address : Lookup(d, b) = IF b = a THEN new ELSE Lookup(c, b)
    BY <2>2, <2>4, LookupUpdated
  <2> HIDE DEF d
  <2> QED BY <2>2, <2>3, <2>5, <2>6 DEF SameStorage
<1>2. CASE ~Exists(m, s)
  BY <1>2 DEF LambdaWorld, SameStorage
<1> QED BY <1>1, <1>2

\* What warms or records leaves the refunds alone.
LEMMA SameRefund ==
  ASSUME NEW A \in Substate, NEW m, NEW a
  PROVE  /\ AddAccessedAccount(A, a).refundBalance = A.refundBalance
         /\ \A slot : AddAccessedStorageKey(A, a, slot).refundBalance = A.refundBalance
         /\ LambdaSubstate(m, A, a).refundBalance = A.refundBalance
BY DEF AddAccessedAccount, AddAccessedStorageKey, LambdaSubstate, Substate

\* RefundInv of the next state, said of its parts.
LEMMA RefundOfParts ==
  ASSUME origin' = origin, Covered(world', sub'),
         \A k \in 1 .. Len(frames') : Covered(frames'[k].world, frames'[k].sub),
         RefundBounded(frames'),
         status' = "running" =>
           sub'.refundBalance + Worth(Top'.gas) <= Room(Top')
  PROVE  RefundInv'
<1>1. Covered(world, sub)'
  BY DEF Covered, Cleared, StoredWord
<1>2. ASSUME NEW k \in 1 .. Len(frames')
      PROVE  Covered(frames[k].world, frames[k].sub)'
  BY <1>2 DEF Covered, Cleared, StoredWord
<1>3. RefundBounded(frames)'
  BY DEF RefundBounded
<1>4. (status = "running" => sub.refundBalance + MaxRefund * Top.gas <= Room(Top))'
  BY DEF Worth, Room, Top
<1> QED BY <1>1, <1>2, <1>3, <1>4 DEF RefundInv

\* What RefundInv says of the innermost frame.
LEMMA TopRefund ==
  ASSUME TypeOK, RefundInv, status = "running"
  PROVE  /\ Top \in Frame /\ Top.gas \in Nat /\ Top.given \in Nat
         /\ sub \in Substate /\ Top.sub \in Substate
         /\ sub.refundBalance \in Nat /\ Top.sub.refundBalance \in Nat
         /\ Worth(Top.gas) \in Nat /\ Worth(Top.given) \in Nat
         /\ sub.refundBalance + Worth(Top.gas) <= Room(Top)
         /\ Room(Top) \in Nat /\ Room(Top) < WordSize
         /\ Covered(world, sub) /\ Covered(Top.world, Top.sub)
<1>1. Top \in Frame /\ Len(frames) \in 1 .. Len(frames)
  BY TopType
<1>2. /\ Top.gas \in Nat /\ Top.given \in Nat
      /\ sub \in Substate /\ Top.sub \in Substate
      /\ sub.refundBalance \in Nat /\ Top.sub.refundBalance \in Nat
  <2>1. /\ Top.gas \in Nat /\ Top.given \in Nat
        /\ sub \in Substate /\ Top.sub \in Substate
    BY <1>1 DEF TypeOK, Frame
  <2>2. \A A \in Substate : A.refundBalance \in Nat
    BY DEF Substate, Uint
  <2> QED BY <2>1, <2>2
<1>3. Worth(Top.gas) \in Nat /\ Worth(Top.given) \in Nat
  BY <1>2, WorthAdds
<1>4. Room(Top) \in Nat
  <2>1. Room(Top) = Top.sub.refundBalance + Worth(Top.given)
    BY DEF Room, Worth
  <2> QED BY <1>2, <1>3, <2>1
<1>5. /\ sub.refundBalance + Worth(Top.gas) <= Room(Top)
      /\ Room(Top) < WordSize
      /\ Covered(world, sub) /\ Covered(Top.world, Top.sub)
  BY <1>1 DEF RefundInv, RefundBounded, Top, Worth
<1> QED BY <1>1, <1>2, <1>3, <1>4, <1>5

\* An instruction that stays in its frame buys no more than its gas is worth.
LEMMA StayRefund ==
  ASSUME TypeOK, RefundInv, status = "running", NEW f \in Frame,
         SameActivation(Top, f), f.given = Top.given, f.charge = Top.charge,
         frames' = SetTop(f), Covered(world', sub'),
         sub'.refundBalance + Worth(f.gas) <= sub.refundBalance + Worth(Top.gas),
         sub'.refundBalance \in Nat, UNCHANGED <<origin, status>>
  PROVE  RefundInv'
<1>1. PICK n \in Nat \ {0} : n = Len(frames)
  BY TopType
<1>2. /\ Len(frames') = n
      /\ \A k \in 1 .. n : frames'[k] = IF k = n THEN f ELSE frames[k]
  BY <1>1, SetTopType
<1>3. Room(f) = Room(Top)
  BY DEF Room, SameActivation
<1>4. \A k \in 1 .. n : Covered(frames'[k].world, frames'[k].sub)
  BY <1>1, <1>2 DEF RefundInv, SameActivation, Top
<1>5. RefundBounded(frames')
  <2> SUFFICES ASSUME NEW k \in 1 .. n
               PROVE  /\ Room(frames'[k]) < WordSize
                      /\ k > 1 => Room(frames'[k])
                                    + MaxRefund * (frames'[k - 1].gas - frames'[k].charge)
                                    <= Room(frames'[k - 1])
    BY <1>2 DEF RefundBounded
  <2>1. Room(frames'[k]) = Room(frames[k]) /\ frames'[k].charge = frames[k].charge
    BY <1>1, <1>2, <1>3 DEF Top
  <2>2. ASSUME k > 1 PROVE frames'[k - 1] = frames[k - 1]
    <3>1. k - 1 \in 1 .. n /\ k - 1 # n
      BY <2>2
    <3> QED BY <1>2, <3>1
  <2> QED BY <1>1, <2>1, <2>2 DEF RefundInv, RefundBounded
<1>6. Top' = f
  BY <1>1, <1>2 DEF Top
<1>7. Worth(f.gas) \in Nat
  BY WorthAdds DEF Frame
<1>8. sub'.refundBalance + Worth(f.gas) <= Room(Top)
  BY <1>7, TopRefund
<1> QED BY <1>2, <1>3, <1>4, <1>5, <1>6, <1>8, RefundOfParts

\* One that is paid for and does not store.
LEMMA ChargeRefund ==
  ASSUME TypeOK, RefundInv, NEW op, NEW memory \in Nat, NEW cost \in Nat,
         Executes(op, memory, cost), frames' = SetTop(Charged(memory + cost)),
         SameStorage(world, world'), sub'.refundBalance = sub.refundBalance,
         UNCHANGED <<origin, status>>
  PROVE  RefundInv'
<1>1. status = "running"
  BY DEF Executes
<1>2. /\ Top \in Frame /\ Top.gas \in Nat /\ sub.refundBalance \in Nat
      /\ Worth(Top.gas) \in Nat /\ Covered(world, sub)
  BY <1>1, TopRefund
<1>3. memory + cost \in Nat /\ memory + cost <= memory + cost
  OBVIOUS
<1> DEFINE f == Charged(memory + cost)
<1>4. f \in Frame /\ f.gas = Top.gas - (memory + cost) /\ f.gas \in Nat
  BY <1>3, ChargedType
<1>5. SameActivation(Top, f) /\ f.given = Top.given /\ f.charge = Top.charge
  BY <1>2 DEF SameActivation, Charged, Frame
<1> HIDE DEF f
<1>6. f.gas <= Top.gas
  BY <1>2, <1>3, <1>4
<1>7. Worth(f.gas) <= Worth(Top.gas) /\ Worth(f.gas) \in Nat
  BY <1>2, <1>4, <1>6, WorthAdds
<1>8. Covered(world', sub')
  BY <1>2, SameCleared
<1>9. sub'.refundBalance + Worth(f.gas) <= sub.refundBalance + Worth(Top.gas)
  BY <1>2, <1>7
<1>10. frames' = SetTop(f)
  BY DEF f
<1> QED BY <1>1, <1>2, <1>4, <1>5, <1>8, <1>9, <1>10, StayRefund

\* X returns.
LEMMA HaltRefund ==
  ASSUME TypeOK, RefundInv, SameStorage(world, world'),
         sub'.refundBalance = sub.refundBalance, UNCHANGED <<origin, frames, status>>
  PROVE  RefundInv'
<1>1. Covered(world', sub')
  BY SameCleared DEF RefundInv
<1>2. Top' = Top
  BY DEF Top
<1>3. /\ \A k \in 1 .. Len(frames') : Covered(frames'[k].world, frames'[k].sub)
      /\ RefundBounded(frames')
      /\ status' = "running" => sub'.refundBalance + Worth(Top'.gas) <= Room(Top')
  BY <1>2 DEF RefundInv, Worth
<1> QED BY <1>1, <1>3, RefundOfParts

\* A callee is given less than its caller pays, and the counter as it is.
LEMMA EnterRefund ==
  ASSUME TypeOK, RefundInv, status = "running", NEW f \in Frame,
         SameActivation(Top, f), f.given = Top.given, f.charge = Top.charge,
         f.gas <= Top.gas,
         NEW new \in Frame, new.given <= new.charge, new.charge <= f.gas,
         new.gas = new.given, new.sub.refundBalance = sub.refundBalance,
         SameStorage(world, new.world), SameStorage(world, world'),
         sub'.refundBalance = sub.refundBalance,
         frames' = Append(SetTop(f), new), UNCHANGED <<origin, status>>
  PROVE  RefundInv'
<1>1. PICK n \in Nat \ {0} : n = Len(frames)
  BY TopType
<1>2. /\ SetTop(f) \in Seq(Frame) /\ Len(SetTop(f)) = n
      /\ \A k \in 1 .. n : SetTop(f)[k] = IF k = n THEN f ELSE frames[k]
  BY <1>1, SetTopType
<1>3. /\ Len(frames') = n + 1 /\ frames'[n + 1] = new
      /\ \A k \in 1 .. n : frames'[k] = IF k = n THEN f ELSE frames[k]
  BY <1>1, <1>2, AppendProperties
<1>4. /\ Covered(world, sub) /\ sub.refundBalance \in Nat /\ Top.gas \in Nat
      /\ sub.refundBalance + Worth(Top.gas) <= Room(Top)
      /\ Room(Top) \in Nat /\ Room(Top) < WordSize
      /\ Worth(Top.gas) \in Nat
  BY TopRefund
<1>5. Covered(new.world, new.sub) /\ Covered(world', sub')
  BY <1>4, SameCleared
<1>6. Room(f) = Room(Top)
  BY DEF Room, SameActivation
<1>7. /\ Room(new) = sub.refundBalance + Worth(new.gas)
      /\ Room(new) + MaxRefund * (f.gas - new.charge) <= Room(Top)
      /\ Room(new) <= Room(Top) /\ Room(new) < WordSize
  <2>1. /\ new.given \in Nat /\ new.charge \in Nat /\ f.gas \in Nat
        /\ f.gas - new.charge \in Nat
        /\ new.given + (f.gas - new.charge) \in Nat
        /\ new.given + (f.gas - new.charge) <= Top.gas
    <3>1. new.given \in Nat /\ new.charge \in Nat /\ f.gas \in Nat
      BY DEF Frame
    <3>2. \A x, y, z, t \in Nat : x <= y /\ y <= z /\ z <= t =>
            z - y \in Nat /\ x + (z - y) \in Nat /\ x + (z - y) <= t
      OBVIOUS
    <3> QED BY <1>4, <3>1, <3>2
  <2> DEFINE x == new.given
             y == f.gas - new.charge
  <2>2. Room(new) = sub.refundBalance + Worth(x)
    BY DEF Room, Worth
  <2>3. MaxRefund * y = Worth(y)
    BY DEF Worth
  <2> HIDE DEF x, y
  <2>4. /\ x \in Nat /\ y \in Nat /\ x + y \in Nat /\ x + y <= Top.gas
    BY <2>1 DEF x, y
  <2>5. /\ Worth(x) \in Nat /\ Worth(y) \in Nat
        /\ Worth(x) + Worth(y) <= Worth(Top.gas)
    BY ZenonT(40), <1>4, <2>4, WorthAdds
  <2>6. Room(new) + Worth(y) <= Room(Top) /\ Room(new) <= Room(Top) /\ Room(new) < WordSize
    BY <1>4, <2>2, <2>5, WordSizeAssumption DEF WordSizeAssumption
  <2> QED BY <2>2, <2>3, <2>6 DEF x, y
<1>8. \A k \in 1 .. n + 1 : k = n + 1 \/ k \in 1 .. n
  OBVIOUS
<1>9. \A k \in 1 .. n + 1 : Covered(frames'[k].world, frames'[k].sub)
  <2>1. \A k \in 1 .. n : Covered(frames'[k].world, frames'[k].sub)
    BY <1>1, <1>3 DEF RefundInv, SameActivation, Top
  <2> QED BY <1>3, <1>5, <1>8, <2>1
<1>10. RefundBounded(frames')
  <2> SUFFICES ASSUME NEW k \in 1 .. n + 1
               PROVE  /\ Room(frames'[k]) < WordSize
                      /\ k > 1 => Room(frames'[k])
                                    + MaxRefund * (frames'[k - 1].gas - frames'[k].charge)
                                    <= Room(frames'[k - 1])
    BY <1>3 DEF RefundBounded
  <2>1. CASE k = n + 1
    <3>1. frames'[k] = new /\ frames'[k - 1] = f
      BY <1>3, <2>1
    <3> QED BY <1>6, <1>7, <3>1
  <2>2. CASE k \in 1 .. n
    <3>1. Room(frames'[k]) = Room(frames[k]) /\ frames'[k].charge = frames[k].charge
      BY <1>1, <1>3, <1>6, <2>2 DEF Top
    <3>2. ASSUME k > 1 PROVE frames'[k - 1] = frames[k - 1]
      <4>1. k - 1 \in 1 .. n /\ k - 1 # n
        BY <2>2, <3>2
      <4> QED BY <1>3, <4>1
    <3> QED BY <1>1, <2>2, <3>1, <3>2 DEF RefundInv, RefundBounded
  <2> QED BY <1>8, <2>1, <2>2
<1>11. Top' = new
  BY <1>3 DEF Top
<1>12. sub'.refundBalance + Worth(Top'.gas) <= Room(Top')
  <2>1. Worth(new.gas) \in Nat
    BY WorthAdds DEF Frame
  <2> QED BY <1>4, <1>7, <1>11, <2>1
<1> QED BY <1>3, <1>5, <1>9, <1>10, <1>12, RefundOfParts

(***************************************************************************)
(* SSTORE: what it adds to the refund counter or takes from it follows     *)
(* what it does to the erased slots, and is never more than MaxRefund.     *)
(***************************************************************************)
Erases(orig, w) == IF orig # 0 /\ w = 0 THEN 1 ELSE 0

LEMMA DeltaFollows ==
  ASSUME NEW orig \in Word, NEW cur \in Word, NEW new \in Word
  PROVE  /\ RefundDelta(orig, cur, new) \in Int
         /\ RefundDelta(orig, cur, new) <= MaxRefund
         /\ Rsclear * Erases(orig, new)
              <= Rsclear * Erases(orig, cur) + RefundDelta(orig, cur, new)
<1>1. /\ Rsclear \in Nat /\ Gsset \in Nat /\ Gsreset \in Nat /\ Gwarmaccess \in Nat
      /\ Gwarmaccess <= Gsset /\ Gwarmaccess <= Gsreset
  BY FeeScheduleAssumption DEF FeeScheduleAssumption
<1>2. Rsclear * 0 = 0 /\ Rsclear * 1 = Rsclear
  BY <1>1
<1>3. RefundDelta(orig, cur, new) \in Int /\ RefundDelta(orig, cur, new) <= MaxRefund
  BY <1>1 DEF RefundDelta, MaxRefund
<1>4. CASE orig = 0
  <2>1. RefundDelta(orig, cur, new) >= 0
    BY <1>1, <1>4 DEF RefundDelta
  <2> QED BY <1>2, <1>3, <1>4, <2>1 DEF Erases
<1>5. CASE orig # 0
  <2>1. CASE cur = 0 /\ new # 0
    BY <1>1, <1>2, <1>3, <1>5, <2>1 DEF RefundDelta, Erases
  <2>2. CASE cur # 0 /\ new = 0
    BY <1>1, <1>2, <1>3, <1>5, <2>2 DEF RefundDelta, Erases
  <2>3. CASE cur = 0 /\ new = 0
    BY <1>1, <1>2, <1>3, <1>5, <2>3 DEF RefundDelta, Erases
  <2>4. CASE cur # 0 /\ new # 0
    BY <1>1, <1>2, <1>3, <1>5, <2>4 DEF RefundDelta, Erases
  <2> QED BY <2>1, <2>2, <2>3, <2>4
<1> QED BY <1>3, <1>4, <1>5

\* How many slots are erased after one is stored to.
LEMMA ClearedStored ==
  ASSUME NEW m \in AccountMap, NEW a \in Address, Exists(m, a),
         NEW slot \in Slot, NEW w \in Word
  PROVE  Cardinality(Cleared(StoreWord(m, a, slot, w)))
           + Erases(StoredWord(origin, a, slot), StoredWord(m, a, slot))
         = Cardinality(Cleared(m)) + Erases(StoredWord(origin, a, slot), w)
<1> DEFINE acc == [m[a] EXCEPT !.storage[slot] = w]
           m2  == [m EXCEPT ![a] = acc]
           x   == <<a, slot>>
           C   == Cleared(m)
           D   == Cleared(m2)
<1>1. m[a] \in Account /\ Lookup(m, a) = m[a]
  BY LookupType
<1>2. /\ acc \in Account
      /\ \A t \in Slot : acc.storage[t] = IF t = slot THEN w ELSE m[a].storage[t]
  BY <1>1 DEF Account, Storage
<1>3. StoreWord(m, a, slot, w) = m2
  BY DEF StoreWord
<1> HIDE DEF acc
<1>4. \A b \in Address : Lookup(m2, b) = IF b = a THEN acc ELSE Lookup(m, b)
  BY <1>2, LookupUpdated
<1> HIDE DEF m2
<1>5. \A b \in Address : \A t \in Slot :
        StoredWord(m2, b, t) = IF b = a /\ t = slot THEN w ELSE StoredWord(m, b, t)
  BY <1>1, <1>2, <1>4 DEF StoredWord
<1>6. x \in Address \X Slot /\ x[1] = a /\ x[2] = slot
  OBVIOUS
<1>7. /\ x \in C <=> Erases(StoredWord(origin, a, slot), StoredWord(m, a, slot)) = 1
      /\ x \in D <=> Erases(StoredWord(origin, a, slot), w) = 1
  BY <1>5, <1>6 DEF Cleared, Erases
<1>8. C \ {x} = D \ {x}
  <2>1. ASSUME NEW y \in Address \X Slot, y # x PROVE y \in C <=> y \in D
    <3>1. y[1] \in Address /\ y[2] \in Slot /\ ~(y[1] = a /\ y[2] = slot)
      BY <2>1
    <3>2. StoredWord(m2, y[1], y[2]) = StoredWord(m, y[1], y[2])
      BY <1>5, <3>1
    <3> QED BY <3>2 DEF Cleared
  <2>2. C \subseteq Address \X Slot /\ D \subseteq Address \X Slot
    BY DEF Cleared
  <2> HIDE DEF C, D, x
  <2> QED BY <2>1, <2>2
<1>9. /\ IsFiniteSet(C) /\ IsFiniteSet(D)
      /\ Cardinality(C) \in Nat /\ Cardinality(D) \in Nat
  BY ClearedType
<1> DEFINE eC == Erases(StoredWord(origin, a, slot), StoredWord(m, a, slot))
           eD == Erases(StoredWord(origin, a, slot), w)
<1>10. eC \in {0, 1} /\ eD \in {0, 1}
  BY DEF Erases
<1> HIDE DEF C, D, x, eC, eD
<1>11. /\ Cardinality(C \ {x}) = IF x \in C THEN Cardinality(C) - 1 ELSE Cardinality(C)
       /\ Cardinality(D \ {x}) = IF x \in D THEN Cardinality(D) - 1 ELSE Cardinality(D)
  BY <1>9, FS_RemoveElement
<1>12. (x \in C <=> eC = 1) /\ (x \in D <=> eD = 1)
  BY <1>7 DEF eC, eD
<1>13. Cardinality(D) + eC = Cardinality(C) + eD
  <2>1. Cardinality(C \ {x}) = Cardinality(D \ {x})
    BY <1>8
  <2>2. /\ Cardinality(C \ {x}) = Cardinality(C) - eC
        /\ Cardinality(D \ {x}) = Cardinality(D) - eD
    BY <1>9, <1>10, <1>11, <1>12
  <2>3. \A p, q, r, t \in Int : p - r = q - t => q + r = p + t
    OBVIOUS
  <2>4. eC \in Int /\ eD \in Int /\ Cardinality(C) \in Int /\ Cardinality(D) \in Int
    BY <1>9, <1>10
  <2>5. Cardinality(C) - eC = Cardinality(D) - eD
    BY <2>1, <2>2
  <2> QED BY <2>3, <2>4, <2>5
<1> QED BY <1>3, <1>13 DEF C, D, eC, eD

LEMMA SstoreRefund ==
  ASSUME TypeOK, AccountInv, RefundInv, NEW slot \in Slot, NEW new \in Word,
         Sstore(slot, new)
  PROVE  RefundInv'
<1> DEFINE a     == Top.owner
           orig  == StoredWord(origin, a, slot)
           cur   == StoredWord(world, a, slot)
           cost  == Csstore(a, slot, orig, cur, new, sub)
           delta == RefundDelta(orig, cur, new)
           A     == AddAccessedStorageKey(sub, a, slot)
           f     == Charged(cost)
           R     == sub.refundBalance
<1>1. /\ status = "running" /\ Top.code = "program"
      /\ Executes("SSTORE", 0, cost) /\ frames' = SetTop(f)
      /\ world' = StoreWord(world, a, slot, new)
      /\ sub' = IF Exists(world, a)
                  THEN [A EXCEPT !.refundBalance = AddRefund(A.refundBalance, delta)]
                  ELSE sub
      /\ UNCHANGED <<origin, status>>
  BY DEF Sstore, Executes
<1>2. /\ Top \in Frame /\ Top.gas \in Nat /\ R \in Nat /\ sub \in Substate
      /\ Worth(Top.gas) \in Nat /\ R + Worth(Top.gas) <= Room(Top)
      /\ Room(Top) \in Nat /\ Room(Top) < WordSize /\ Covered(world, sub)
  BY <1>1, TopRefund
<1>3. a \in Address /\ world \in AccountMap /\ origin \in AccountMap
  BY <1>2 DEF Frame, TypeOK
<1>4. Exists(world, a)
  BY <1>1, TopHistory DEF Live, Lookup, DefaultAccount
<1>5. orig \in Word /\ cur \in Word
  <2>1. Lookup(origin, a) \in Account /\ Lookup(world, a) \in Account
    BY <1>3, LookupType
  <2> QED BY <2>1 DEF StoredWord, Account, Storage
<1>6. cost \in Nat \ {0}
  BY <1>2, <1>3, OtherCosts
<1>7. A.refundBalance = R /\ A \in Substate
  <2>1. A \in Substate
    BY <1>2, <1>3, SubstateTypes
  <2>2. A.refundBalance = R
    BY <1>2 DEF AddAccessedStorageKey, Substate
  <2> QED BY <2>1, <2>2
<1>8. f \in Frame /\ f.gas = Top.gas - cost /\ Top.gas - cost \in Nat
  <2>1. cost <= 0 + cost
    BY <1>6
  <2> QED BY <1>1, <1>6, <2>1, ChargedType
<1>9. SameActivation(Top, f) /\ f.given = Top.given /\ f.charge = Top.charge
  BY <1>2 DEF SameActivation, Charged, Frame
<1>10. /\ delta \in Int /\ delta <= MaxRefund
       /\ Rsclear * Erases(orig, new) <= Rsclear * Erases(orig, cur) + delta
  BY <1>5, DeltaFollows
<1>11. Cardinality(Cleared(world')) + Erases(orig, cur)
         = Cardinality(Cleared(world)) + Erases(orig, new)
  BY <1>1, <1>3, <1>4, ClearedStored
<1> HIDE DEF a, orig, cur, cost, delta, A, f, R
<1>12. Rsclear * Cardinality(Cleared(world')) <= R + delta
  <2> DEFINE K == Rsclear
             c == Cardinality(Cleared(world))
             d == Cardinality(Cleared(world'))
             x == Erases(orig, cur)
             y == Erases(orig, new)
  <2>1. K \in Nat /\ c \in Nat /\ d \in Nat /\ x \in Nat /\ y \in Nat
    BY ClearedType, FeeScheduleAssumption DEF FeeScheduleAssumption, Erases
  <2>2. K * c <= R /\ d + x = c + y /\ K * y <= K * x + delta
    BY <1>2, <1>10, <1>11 DEF Covered, R
  <2> HIDE DEF K, c, d, x, y
  <2>3. K * (d + x) = K * d + K * x /\ K * (c + y) = K * c + K * y
    BY <2>1
  <2>4. K * d \in Int /\ K * x \in Int /\ K * c \in Int /\ K * y \in Int
    BY <2>1
  <2>5. K * d + K * x = K * c + K * y
    BY <2>2, <2>3
  <2>6. K * d <= R + delta
    BY <1>2, <1>10, <2>2, <2>4, <2>5
  <2> QED BY <2>6 DEF K, d
<1>13. 0 <= R + delta
  <2>1. Rsclear * Cardinality(Cleared(world')) \in Nat
    BY ClearedType, FeeScheduleAssumption DEF FeeScheduleAssumption
  <2> QED BY <1>2, <1>10, <1>12, <2>1
<1>14. /\ Worth(cost) \in Nat /\ Worth(Top.gas - cost) \in Nat
       /\ Worth(cost) + Worth(Top.gas - cost) = Worth(Top.gas)
       /\ delta <= Worth(cost)
  <2>1. cost \in Nat /\ 1 \in Nat /\ 1 <= cost
    BY <1>6
  <2>2. cost + (Top.gas - cost) = Top.gas
    BY <1>2, <2>1
  <2>3. Worth(1) = MaxRefund /\ Worth(1) <= Worth(cost) /\ MaxRefund \in Nat
    <3>1. MaxRefund \in Nat /\ Worth(1) <= Worth(cost)
      BY <2>1, WorthAdds
    <3> QED BY <3>1 DEF Worth
  <2>4. Worth(cost) \in Nat
    BY <2>1, WorthAdds
  <2>5. delta <= Worth(cost)
    BY <1>10, <2>3, <2>4
  <2> QED BY <1>8, <2>1, <2>2, <2>4, <2>5, WorthAdds
<1>15. /\ R + delta < WordSize /\ R + delta \in Nat
       /\ (R + delta) + Worth(Top.gas - cost) <= R + Worth(Top.gas)
  BY <1>2, <1>10, <1>13, <1>14, WordSizeAssumption DEF WordSizeAssumption
<1>16. AddRefund(R, delta) = R + delta
  <2>1. \A x \in Nat : x < WordSize => x % WordSize = x
    BY WordSizeAssumption DEF WordSizeAssumption
  <2> QED BY <1>15, <2>1 DEF AddRefund
<1>17. sub'.refundBalance = R + delta
  BY <1>1, <1>4, <1>7, <1>16 DEF Substate
<1>18. Covered(world', sub')
  BY <1>12, <1>17 DEF Covered
<1>19. sub'.refundBalance + Worth(f.gas) <= sub.refundBalance + Worth(Top.gas)
  BY <1>8, <1>15, <1>17 DEF R
<1> QED BY <1>1, <1>8, <1>9, <1>15, <1>17, <1>18, <1>19, StayRefund

\* A call that is refused: some of the gas comes back.
LEMMA RefusedRefund ==
  ASSUME TypeOK, RefundInv, NEW op \in CallOp, NEW t \in Address, NEW asked \in AskedGas,
         NEW memory \in MemoryCost, NEW v \in CallValues(op),
         CallRefused(op, t, v, asked, memory)
  PROVE  RefundInv'
<1> DEFINE kept == Monus(CallCost(op, t, v, asked, memory),
                         CallGas(op, t, v, asked, memory))
           left == Monus(Top.gas - memory, kept)
           f    == [Top EXCEPT !.gas = left, !.fuel = Top.fuel - 1]
<1>1. asked \in Nat /\ memory \in Nat /\ v \in Uint
  BY MachineAssumption, WordSizeAssumption
  DEF MachineAssumption, WordSizeAssumption, CallValues, Uint
<1>2. /\ status = "running"
      /\ CallCost(op, t, v, asked, memory) \in Nat
      /\ CallGas(op, t, v, asked, memory) \in Nat
      /\ Top.gas - memory \in Nat /\ Top.fuel - 1 \in Nat
  BY <1>1, CallFrames DEF CallRefused
<1>3. /\ Top \in Frame /\ Top.gas \in Nat /\ sub \in Substate
      /\ Worth(Top.gas) \in Nat /\ sub.refundBalance \in Nat /\ Covered(world, sub)
  BY <1>2, TopRefund
<1>4. left \in Nat /\ left <= Top.gas - memory
  BY <1>2, MonusType
<1>5. /\ frames' = SetTop(f) /\ world' = world /\ sub' = AddAccessedAccount(sub, t)
      /\ UNCHANGED <<origin, status>>
  BY DEF CallRefused
<1> HIDE DEF left
<1>6. /\ f \in Frame /\ SameActivation(Top, f) /\ f.gas = left
      /\ f.given = Top.given /\ f.charge = Top.charge
  <2>1. f \in Frame
    BY <1>2, <1>3, <1>4, FrameFields
  <2> QED BY <1>3, <2>1 DEF Frame, SameActivation
<1> HIDE DEF f
<1>7. sub'.refundBalance = sub.refundBalance
  BY <1>3, <1>5, SameRefund
<1>8. left <= Top.gas
  BY <1>1, <1>2, <1>3, <1>4
<1>9. sub'.refundBalance + Worth(f.gas) <= sub.refundBalance + Worth(Top.gas)
  <2>1. Worth(left) \in Nat /\ Worth(left) <= Worth(Top.gas)
    BY <1>3, <1>4, <1>8, WorthAdds
  <2> QED BY <1>3, <1>6, <1>7, <2>1
<1>10. SameStorage(world, world')
  BY <1>5 DEF SameStorage
<1>11. Covered(world', sub')
  BY <1>3, <1>7, <1>10, SameCleared
<1> QED BY <1>2, <1>3, <1>5, <1>6, <1>7, <1>9, <1>11, StayRefund

\* The four calls.
LEMMA CallRefund ==
  ASSUME TypeOK, RefundInv, NEW op \in CallOp, NEW t \in Address,
         NEW asked \in AskedGas, NEW memory \in MemoryCost,
         NEW v \in CallValues(op), Call(op, t, v, asked, memory)
  PROVE  RefundInv'
<1> DEFINE A    == AddAccessedAccount(sub, t)
           r    == Recipient(op, t)
           s    == CallSource(op)
           give == CallGas(op, t, v, asked, memory)
           cost == CallCost(op, t, v, asked, memory)
           f    == Charged(memory)
           new  == ThetaFrame(world, A, s, r, CodeOf(world, t), give,
                              Top.depth + 1, CallPerm(op), cost)
<1>1. asked \in Nat /\ memory \in Nat /\ v \in Uint
  BY MachineAssumption, WordSizeAssumption
  DEF MachineAssumption, WordSizeAssumption, CallValues, Uint
<1>2. /\ status = "running" /\ r \in Address /\ s \in Address
      /\ give \in Nat /\ cost \in Nat /\ give < cost /\ cost <= Top.gas - memory
      /\ f \in Frame /\ f.gas = Top.gas - memory
  BY <1>1, CallFrames DEF Call
<1>3. /\ frames' = Append(SetTop(f), new) /\ sub' = A
      /\ world' = Transfer(world, s, r, v) /\ UNCHANGED <<origin, status>>
  BY DEF Call
<1>4. /\ Top \in Frame /\ Top.gas \in Nat /\ sub \in Substate /\ world \in AccountMap
  BY <1>2, TopRefund DEF TypeOK
<1>5. Top.depth + 1 \in Nat /\ Top.perm \in BOOLEAN
  BY <1>4 DEF Frame
<1>6. A \in Substate /\ CallPerm(op) \in BOOLEAN /\ A.refundBalance = sub.refundBalance
  BY <1>4, <1>5, SubstateTypes, SameRefund DEF CallPerm
<1>7. new \in Frame
  BY <1>2, <1>4, <1>5, <1>6, EnteredFrames
<1>8. /\ new.world = world /\ new.sub = A /\ new.given = give
      /\ new.gas = give /\ new.charge = cost
  BY DEF ThetaFrame
<1>9. SameActivation(Top, f) /\ f.given = Top.given /\ f.charge = Top.charge
  BY <1>4 DEF SameActivation, Charged, Frame
<1>10. SameStorage(world, world')
  BY <1>1, <1>2, <1>3, <1>4, TransferIsMoney DEF SameStorage, SameButMoney
<1>11. SameStorage(world, world)
  BY DEF SameStorage
<1> HIDE DEF f, new, give, cost, A
<1>12. f.gas <= Top.gas /\ new.given <= new.charge /\ new.charge <= f.gas
  BY <1>1, <1>2, <1>4, <1>8
<1> QED BY <1>2, <1>3, <1>6, <1>7, <1>8, <1>9, <1>10, <1>11, <1>12, EnterRefund

\* CREATE and CREATE2.
LEMMA CreateRefund ==
  ASSUME TypeOK, RefundInv, NEW op \in CreateOp, NEW a \in Address,
         NEW v \in Wei, NEW memory \in MemoryCost, Create(op, a, v, memory)
  PROVE  RefundInv'
<1> DEFINE s    == Top.owner
           give == L(Top.gas - (memory + Gcreate))
           m    == IncrementNonce(world, s)
           A    == AddAccessedAccount(sub, a)
           f    == Charged(memory + Gcreate)
           new  == LambdaFrame(m, A, s, a, give, Top.depth + 1, Top.perm, give)
<1>1. memory \in Nat /\ v \in Uint /\ Gcreate \in Nat
  BY MachineAssumption, FeeScheduleAssumption DEF MachineAssumption, FeeScheduleAssumption
<1>2. CreateExecutes(op, memory)
  BY DEF Create
<1>3. /\ status = "running" /\ f \in Frame /\ give \in Nat
      /\ f.gas = Top.gas - (memory + Gcreate) /\ give <= f.gas
  BY <1>1, <1>2, CreateFrames
<1>4. /\ frames' = Append(SetTop(f), new)
      /\ world' = LambdaWorld(m, s, a, v) /\ sub' = LambdaSubstate(m, A, a)
      /\ a # s /\ UNCHANGED <<origin, status>>
  BY DEF Create, NewAddress
<1>5. /\ Top \in Frame /\ Top.gas \in Nat /\ s \in Address
      /\ sub \in Substate /\ world \in AccountMap
  BY <1>3, TopRefund DEF Frame, TypeOK
<1>6. Top.depth + 1 \in Nat /\ Top.perm \in BOOLEAN
  BY <1>5 DEF Frame
<1>7. A \in Substate /\ m \in AccountMap /\ A.refundBalance = sub.refundBalance
  BY <1>5, SubstateTypes, IncrementNonceType, SameRefund
<1>8. new \in Frame
  BY <1>3, <1>5, <1>6, <1>7, EnteredFrames
<1>9. /\ new.world = m /\ new.sub = A /\ new.given = give
      /\ new.gas = give /\ new.charge = give
  BY DEF LambdaFrame
<1>10. SameActivation(Top, f) /\ f.given = Top.given /\ f.charge = Top.charge
  BY <1>5 DEF SameActivation, Charged, Frame
<1>11. SameStorage(world, m)
  <2> DEFINE acc == [Lookup(world, s) EXCEPT !.nonce = @ + 1]
  <2>1. Lookup(world, s) \in Account /\ Lookup(world, s).nonce + 1 \in Nat
    BY <1>5, LookupType, NonceType
  <2>2. acc \in Account /\ acc.storage = Lookup(world, s).storage
    BY <2>1 DEF Account
  <2>3. m = [world EXCEPT ![s] = acc]
    BY DEF IncrementNonce
  <2> HIDE DEF acc, m, s
  <2> QED BY <1>5, <2>2, <2>3, LookupUpdated DEF SameStorage
<1>12. SameStorage(world, world')
  <2>1. SameStorage(m, LambdaWorld(m, s, a, v))
    BY <1>1, <1>4, <1>5, <1>7, LambdaStorage
  <2> QED BY <1>4, <1>11, <2>1 DEF SameStorage
<1>13. sub'.refundBalance = sub.refundBalance
  BY <1>4, <1>7, SameRefund
<1> HIDE DEF f, new, give, m, A
<1>14. f.gas <= Top.gas /\ new.given <= new.charge /\ new.charge <= f.gas
  BY <1>1, <1>3, <1>5, <1>9
<1> QED BY <1>3, <1>4, <1>7, <1>8, <1>9, <1>10, <1>11, <1>12, <1>13, <1>14, EnterRefund

\* Θ and Λ give back one of their two states, with its counter.
LEMMA ResultRefund ==
  ASSUME TypeOK, AccountInv, status = "running", halt # Running
  PROVE  \/ /\ SameStorage(world, FrameResult.world)
            /\ FrameResult.sub.refundBalance = sub.refundBalance
         \/ /\ FrameResult.world = Top.world
            /\ FrameResult.sub.refundBalance = Top.sub.refundBalance
<1>1. /\ Top \in Frame /\ Top.owner \in Address
      /\ Top.world \in AccountMap /\ Top.sub \in Substate
      /\ world \in AccountMap /\ sub \in Substate /\ halt.size \in Nat
  BY TopType DEF Frame, Halt, TypeOK
<1>2. SameStorage(world, world)
  BY DEF SameStorage
<1>3. CASE Top.kind = "call"
  BY <1>2, <1>3 DEF FrameResult, ThetaResult
<1>4. CASE Top.kind # "call"
  <2>1. FrameResult = LambdaResult
    BY <1>4 DEF FrameResult
  <2>2. CASE halt.cause # "success"
    BY <2>1, <2>2 DEF LambdaResult
  <2>3. CASE halt.cause = "success" /\ DepositFails
    BY <1>1, <2>1, <2>3, SameRefund DEF LambdaResult, DepositFailure
  <2>4. CASE halt.cause = "success" /\ ~DepositFails
    <3> DEFINE acc == [Lookup(world, Top.owner) EXCEPT !.code = halt.size]
               c   == [world EXCEPT ![Top.owner] = acc]
    <3>1. FrameResult.world = c /\ FrameResult.sub = sub
      BY <2>1, <2>4 DEF LambdaResult
    <3>2. Lookup(world, Top.owner) \in Account
      BY <1>1, LookupType
    <3>3. acc \in Account /\ acc.storage = Lookup(world, Top.owner).storage
      BY <1>1, <3>2 DEF Account
    <3> HIDE DEF acc
    <3>4. SameStorage(world, c)
      BY <1>1, <3>3, LookupUpdated DEF SameStorage
    <3> QED BY <3>1, <3>4
  <2> QED BY <2>2, <2>3, <2>4
<1> QED BY <1>3, <1>4

\* What comes back is covered, and what gas comes back has room with it.
LEMMA ResultCovered ==
  ASSUME TypeOK, AccountInv, GasInv, RefundInv, status = "running", halt # Running
  PROVE  /\ Covered(FrameResult.world, FrameResult.sub)
         /\ FrameResult.gas \in Nat /\ FrameResult.gas <= halt.gas
         /\ FrameResult.gas <= Top.given
         /\ FrameResult.sub.refundBalance \in Nat
         /\ FrameResult.sub.refundBalance + Worth(FrameResult.gas) <= Room(Top)
<1> DEFINE back == FrameResult.gas
<1>1. back \in Nat /\ back <= halt.gas
  BY ResultTypes
<1>2. /\ Top \in Frame /\ Top.gas \in Nat /\ Top.given \in Nat
      /\ sub.refundBalance \in Nat /\ Top.sub.refundBalance \in Nat
      /\ Worth(Top.gas) \in Nat /\ Worth(Top.given) \in Nat
      /\ sub.refundBalance + Worth(Top.gas) <= Room(Top)
      /\ Covered(world, sub) /\ Covered(Top.world, Top.sub)
  BY TopRefund
<1>3. halt.gas \in Nat /\ halt.gas <= Top.gas /\ Top.gas <= Top.given
  <2>1. Len(frames) \in 1 .. Len(frames)
    BY TopType
  <2> QED BY <2>1 DEF GasInv, Solvent, Top, TypeOK, Halt
<1>4. back <= Top.gas /\ back <= Top.given
  BY <1>1, <1>2, <1>3
<1> HIDE DEF back
<1>5. /\ Worth(back) \in Nat
      /\ Worth(back) <= Worth(Top.gas) /\ Worth(back) <= Worth(Top.given)
  BY <1>1, <1>2, <1>4, WorthAdds
<1>6. Room(Top) = Top.sub.refundBalance + Worth(Top.given)
  BY DEF Room, Worth
<1>7. CASE /\ SameStorage(world, FrameResult.world)
           /\ FrameResult.sub.refundBalance = sub.refundBalance
  <2>1. Covered(FrameResult.world, FrameResult.sub)
    BY <1>2, <1>7, SameCleared
  <2>2. sub.refundBalance + Worth(back) <= Room(Top)
    BY <1>2, <1>5, <1>6
  <2> QED BY <1>1, <1>2, <1>4, <1>7, <2>1, <2>2 DEF back
<1>8. CASE /\ FrameResult.world = Top.world
           /\ FrameResult.sub.refundBalance = Top.sub.refundBalance
  <2>1. Covered(FrameResult.world, FrameResult.sub)
    BY <1>2, <1>8 DEF Covered
  <2>2. Top.sub.refundBalance + Worth(back) <= Room(Top)
    BY <1>2, <1>5, <1>6
  <2> QED BY <1>1, <1>2, <1>4, <1>8, <2>1, <2>2 DEF back
<1> QED BY <1>7, <1>8, ResultRefund

\* Θ or Λ returns to a caller: the gas it gives back was the caller's.
LEMMA ResumeRefund ==
  ASSUME TypeOK, AccountInv, GasInv, RefundInv, Resume
  PROVE  RefundInv'
<1> DEFINE back == FrameResult.gas
           left == Monus(Caller.gas, Monus(Top.charge, back))
<1>1. /\ status = "running" /\ Len(frames) > 1 /\ halt # Running
      /\ world' = FrameResult.world /\ sub' = FrameResult.sub
      /\ UNCHANGED <<origin, status>>
  BY DEF Resume
<1>2. PICK n \in Nat \ {0} : n = Len(frames) - 1
  BY <1>1, PopIndex
<1>3. /\ n \in Nat /\ Len(frames) = n + 1 /\ Len(frames') = n
      /\ frames[n] = Caller /\ frames[n + 1] = Top
      /\ \A k \in 1 .. n : frames[k] \in Frame
      /\ left \in Nat
      /\ \A k \in 1 .. n : frames'[k] = IF k = n THEN [frames[k] EXCEPT !.gas = left]
                                                 ELSE frames[k]
      /\ \A k \in 1 .. n : SameActivation(frames[k], frames'[k])
  BY <1>2, ResumePops
<1>4. /\ Covered(world', sub') /\ back \in Nat /\ back <= Top.given
      /\ sub'.refundBalance \in Nat
      /\ sub'.refundBalance + Worth(back) <= Room(Top)
  BY <1>1, ResultCovered
<1>5. \A k \in 1 .. n : k \in 1 .. Len(frames) /\ k \in 1 .. n + 1
  BY <1>3
<1>6. /\ Caller \in Frame /\ Top \in Frame
      /\ Caller.gas \in Nat /\ Top.charge \in Nat /\ Top.given \in Nat
      /\ Top.sub.refundBalance \in Nat
  <2>1. Caller \in Frame
    BY <1>2, <1>3
  <2>2. Top \in Frame
    BY <1>1, TopType
  <2> QED BY SMTT(40), <2>1, <2>2 DEF Frame, Substate, Uint
<1>7. Top.given <= Top.charge /\ Top.charge <= Caller.gas
  <2>1. n + 1 \in 1 .. Len(frames) /\ n + 1 > 1 /\ (n + 1) - 1 = n
    BY <1>2, <1>3
  <2> QED BY <1>3, <2>1 DEF GasInv, Solvent
<1>8. /\ Caller.gas - Top.charge \in Nat
      /\ left = (Caller.gas - Top.charge) + back
  BY <1>4, <1>6, <1>7 DEF Monus
<1>9. Room(Top) + Worth(Caller.gas - Top.charge) <= Room(Caller)
  <2>1. n + 1 \in 1 .. Len(frames) /\ n + 1 > 1 /\ (n + 1) - 1 = n
    BY <1>2, <1>3
  <2> QED BY <1>3, <2>1 DEF RefundInv, RefundBounded, Worth
<1> HIDE DEF left, back
<1>10. sub'.refundBalance + Worth(left) <= Room(Caller)
  <2>1. Worth(left) = Worth(Caller.gas - Top.charge) + Worth(back)
    BY <1>4, <1>8, WorthAdds
  <2>2. Worth(Caller.gas - Top.charge) \in Nat /\ Worth(back) \in Nat
    BY <1>4, <1>8, WorthAdds
  <2>3. Room(Top) \in Nat /\ Room(Caller) \in Nat
    <3>1. Room(Top) \in Nat
      BY <1>1, TopRefund
    <3>2. Caller.sub.refundBalance \in Nat /\ Caller.given \in Nat
      <4>1. Caller.sub \in Substate /\ Caller.given \in Nat
        BY <1>6 DEF Frame
      <4> QED BY <4>1 DEF Substate, Uint
    <3>3. Worth(Caller.given) \in Nat
      BY <3>2, WorthAdds
    <3>4. Room(Caller) = Caller.sub.refundBalance + Worth(Caller.given)
      BY DEF Room, Worth
    <3> QED BY <3>1, <3>2, <3>3, <3>4
  <2> QED BY <1>4, <1>9, <2>1, <2>2, <2>3
<1>11. \A k \in 1 .. n : Covered(frames'[k].world, frames'[k].sub)
  BY <1>3, <1>5 DEF RefundInv, SameActivation
<1>12. \A k \in 1 .. n : /\ Room(frames'[k]) = Room(frames[k])
                         /\ frames'[k].charge = frames[k].charge
                         /\ k # n => frames'[k].gas = frames[k].gas
  BY <1>3 DEF Room, Frame
<1>13. RefundBounded(frames')
  <2> SUFFICES ASSUME NEW k \in 1 .. n
               PROVE  /\ Room(frames'[k]) < WordSize
                      /\ k > 1 => Room(frames'[k])
                                    + MaxRefund * (frames'[k - 1].gas - frames'[k].charge)
                                    <= Room(frames'[k - 1])
    BY <1>3 DEF RefundBounded
  <2>1. ASSUME k > 1 PROVE k - 1 \in 1 .. n /\ k - 1 # n
    BY <2>1
  <2>2. /\ Room(frames[k]) < WordSize
        /\ k > 1 => Room(frames[k]) + MaxRefund * (frames[k - 1].gas - frames[k].charge)
                      <= Room(frames[k - 1])
    BY <1>5 DEF RefundInv, RefundBounded
  <2> QED BY <1>12, <2>1, <2>2
<1>14. Top' = frames'[n] /\ Top'.gas = left /\ Room(Top') = Room(Caller)
  <2>1. n \in 1 .. n /\ Top' = frames'[n]
    BY <1>2, <1>3 DEF Top
  <2>2. frames'[n] = [Caller EXCEPT !.gas = left]
    BY <1>3, <2>1
  <2> QED BY <1>3, <1>6, <1>12, <2>1, <2>2 DEF Frame
<1> QED BY <1>1, <1>3, <1>4, <1>10, <1>11, <1>13, <1>14, RefundOfParts

\* Θ or Λ returns to Υ.
LEMMA FinishRefund ==
  ASSUME TypeOK, AccountInv, GasInv, RefundInv, Finish
  PROVE  RefundInv'
<1>1. /\ status = "running" /\ halt # Running /\ frames' = <<>> /\ status' = "done"
      /\ world' = FrameResult.world /\ sub' = FrameResult.sub /\ origin' = origin
  BY DEF Finish
<1>2. Covered(world', sub') /\ Len(frames') = 0
  BY <1>1, ResultCovered, EmptySeq
<1> QED BY <1>1, <1>2, RefundOfParts DEF RefundBounded

\* A transaction starts with an empty counter and gas enough for few refunds.
LEMMA StartRefund ==
  ASSUME TypeOK, NEW s \in Sender(origin), NEW a \in Address,
         NEW v \in Wei, NEW g \in TxGas, StartCall(s, a, v, g) \/ StartCreate(s, a, v, g)
  PROVE  RefundInv'
<1> DEFINE A == InitialSubstate({s, a})
<1>1. /\ origin \in AccountMap /\ s \in Address /\ v \in Uint /\ g \in Nat
      /\ MaxRefund * g < WordSize
  BY MachineAssumption, RefundAssumption
  DEF Sender, TypeOK, MachineAssumption, RefundAssumption
<1>2. A.refundBalance = 0
  BY DEF InitialSubstate
<1>3. SameStorage(origin, world') /\ sub'.refundBalance = 0
  <2>1. CASE StartCall(s, a, v, g)
    BY <1>1, <2>1, TransferIsMoney
    DEF StartCall, SameStorage, SameButMoney, InitialSubstate
  <2>2. CASE StartCreate(s, a, v, g)
    BY <1>1, <2>2, LambdaStorage
    DEF StartCreate, NewAddress, LambdaSubstate, InitialSubstate
  <2> QED BY <2>1, <2>2
<1> HIDE DEF A
<1>4. PICK new : /\ frames' = <<new>> /\ new.world = origin /\ new.sub = A
                 /\ new.gas = g /\ new.given = g
  BY DEF StartCall, StartCreate, ThetaFrame, LambdaFrame, A
<1>5. origin' = origin
  BY DEF StartCall, StartCreate
<1>6. Cleared(origin) = {} /\ Cardinality(Cleared(origin)) = 0
  <2>1. Cleared(origin) = {}
    BY DEF Cleared
  <2> QED BY <2>1, FS_EmptySet
<1>7. Covered(origin, A)
  BY <1>2, <1>6, FeeScheduleAssumption DEF Covered, FeeScheduleAssumption
<1>8. Covered(world', sub')
  BY <1>2, <1>3, <1>7, SameCleared
<1>9. Room(new) = Worth(g) /\ Worth(g) \in Nat /\ Room(new) < WordSize
  <2>1. Worth(g) \in Nat /\ Room(new) = 0 + Worth(g)
    BY <1>1, <1>2, <1>4, WorthAdds DEF Room, Worth
  <2>2. Room(new) = Worth(g)
    BY <2>1
  <2> QED BY <1>1, <2>1, <2>2 DEF Worth
<1>10. Len(frames') = 1 /\ frames'[1] = new /\ Top' = new
  BY <1>4 DEF Top
<1>11. \A k \in 1 .. 1 : Covered(frames'[k].world, frames'[k].sub)
  BY <1>4, <1>7, <1>10
<1>12. RefundBounded(frames')
  BY <1>9, <1>10 DEF RefundBounded
<1>13. sub'.refundBalance + Worth(Top'.gas) <= Room(Top')
  BY <1>3, <1>4, <1>9, <1>10
<1> QED BY <1>5, <1>8, <1>10, <1>11, <1>12, <1>13, RefundOfParts

\* Every step of Next keeps the refunds covered.
LEMMA RefundStep ==
  TypeOK /\ TypeOK' /\ AccountInv /\ GasInv /\ RefundInv /\ [Next]_vars => RefundInv'
<1> SUFFICES ASSUME TypeOK, TypeOK', AccountInv, GasInv, RefundInv, [Next]_vars
             PROVE  RefundInv'
  OBVIOUS
<1>0. /\ Gwarmaccess \in Nat /\ Glog \in Nat /\ Gcreate \in Nat
      /\ sub \in Substate /\ SameStorage(world, world) /\ world \in AccountMap
      /\ \A memory \in MemoryCost : memory \in Nat
      /\ \A cost \in StepCost : cost \in Nat
  BY FeeScheduleAssumption, MachineAssumption
  DEF FeeScheduleAssumption, MachineAssumption, SameStorage, TypeOK
<1>1. CASE Start
  BY <1>1, StartRefund DEF Start
<1>2. ASSUME NEW op \in CallOp, NEW t \in Address, NEW asked \in AskedGas,
             NEW memory \in MemoryCost, NEW v \in CallValues(op),
             Call(op, t, v, asked, memory) \/ CallRefused(op, t, v, asked, memory)
      PROVE  RefundInv'
  BY <1>2, CallRefund, RefusedRefund
<1>3. ASSUME NEW op \in CreateOp, NEW a \in Address, NEW v \in Wei,
             NEW memory \in MemoryCost, Create(op, a, v, memory)
      PROVE  RefundInv'
  BY <1>3, CreateRefund
<1>4. ASSUME NEW op \in CreateOp, NEW v \in Wei, NEW memory \in MemoryCost,
             CreateRefused(op, v, memory)
      PROVE  RefundInv'
  BY <1>0, <1>4, ChargeRefund DEF CreateRefused, CreateExecutes
<1>5. ASSUME NEW slot \in Slot, Sload(slot)
      PROVE  RefundInv'
  <2> DEFINE cost == Csload(Top.owner, slot, sub)
  <2>1. cost \in Nat /\ 0 + cost = cost
    BY FeeScheduleAssumption DEF Csload, FeeScheduleAssumption
  <2>2. /\ Executes("SLOAD", 0, cost) /\ frames' = SetTop(Charged(cost))
        /\ world' = world /\ sub' = AddAccessedStorageKey(sub, Top.owner, slot)
        /\ UNCHANGED <<origin, status>>
    BY <1>5 DEF Sload
  <2> HIDE DEF cost
  <2>3. sub'.refundBalance = sub.refundBalance
    BY <1>0, <2>2, SameRefund
  <2> QED BY <1>0, <2>1, <2>2, <2>3, ChargeRefund
<1>6. ASSUME NEW slot \in Slot, NEW new \in Word, Sstore(slot, new)
      PROVE  RefundInv'
  BY <1>6, SstoreRefund
<1>7. ASSUME NEW slot \in Slot, NEW new \in Word, Tstore(slot, new)
      PROVE  RefundInv'
  <2>1. /\ Executes("TSTORE", 0, Gwarmaccess)
        /\ frames' = SetTop(Charged(0 + Gwarmaccess))
        /\ world' = StoreTransient(world, Top.owner, slot, new) /\ sub' = sub
        /\ UNCHANGED <<origin, status>>
    BY <1>0, <1>7 DEF Tstore
  <2>2. Top.owner \in Address
    BY <2>1, TopType DEF Executes, Frame
  <2>3. SameStorage(world, world')
    BY <1>0, <2>1, <2>2, TransientIsMoney DEF SameStorage, SameButMoney
  <2> QED BY <1>0, <2>1, <2>3, ChargeRefund
<1>8. ASSUME NEW memory \in MemoryCost, NEW cost \in StepCost,
             Compute(memory, cost)
      PROVE  RefundInv'
  BY <1>0, <1>8, ChargeRefund DEF Compute
<1>9. ASSUME NEW memory \in MemoryCost, NEW a \in Address, ReadAccount(a, memory)
      PROVE  RefundInv'
  <2>1. sub'.refundBalance = sub.refundBalance
    BY <1>0, <1>9, SameRefund DEF ReadAccount
  <2> QED BY <1>0, <1>9, <2>1, CaccessType, ChargeRefund DEF ReadAccount
<1>10. ASSUME NEW memory \in MemoryCost, Log(memory)
       PROVE  RefundInv'
  <2>1. sub'.refundBalance = sub.refundBalance
    BY <1>0, <1>10 DEF Log, Substate
  <2> QED BY <1>0, <1>10, <2>1, ChargeRefund DEF Log
<1>11. ASSUME NEW memory, NEW size, NEW ef, Return(memory, size, ef) \/ Revert(memory)
       PROVE  RefundInv'
  BY <1>0, <1>11, HaltRefund DEF Return, Revert, Halts
<1>12. ASSUME NEW r \in Address, Selfdestruct(r)
       PROVE  RefundInv'
  <2> DEFINE A    == AddAccessedAccount(sub, r)
             a    == Top.owner
             born == Born(a)
  <2>1. /\ status = "running" /\ UNCHANGED <<origin, frames, status>>
        /\ world' = SweepBalance(world, a, r, born)
        /\ sub' = IF born THEN [A EXCEPT !.selfDestructSet = @ \cup {a}] ELSE A
    BY <1>12 DEF Selfdestruct, Executes, Halts
  <2>2. a \in Address /\ born \in BOOLEAN
    BY <2>1, TopType DEF Frame, Born
  <2>3. A \in Substate /\ A.refundBalance = sub.refundBalance
    BY <1>0, SubstateTypes, SameRefund
  <2> HIDE DEF A, born, a
  <2>4. sub'.refundBalance = sub.refundBalance
    BY <2>1, <2>3 DEF Substate
  <2>5. SameStorage(world, world')
    BY <1>0, <2>1, <2>2, SweepIsMoney DEF SameStorage, SameButMoney
  <2> QED BY <2>1, <2>4, <2>5, HaltRefund
<1>13. CASE Stop \/ Fault \/ RunPrecompile
  BY <1>0, <1>13, HaltRefund DEF Stop, Fault, RunPrecompile, Halts
<1>14. CASE Resume
  BY <1>14, ResumeRefund
<1>15. CASE Finish
  BY <1>15, FinishRefund
<1>16. CASE UNCHANGED vars
  BY <1>0, <1>16, HaltRefund DEF vars
<1> QED
  BY <1>1, <1>2, <1>3, <1>4, <1>5, <1>6, <1>7, <1>8, <1>9, <1>10, <1>11, <1>12,
     <1>13, <1>14, <1>15, <1>16
  DEF Next, Instruction, CallInstruction, CreateInstruction,
      StorageInstruction, MemoryInstruction

\* Nothing is erased in the checkpoint state.
LEMMA RefundInit == Init => RefundInv
<1> SUFFICES ASSUME Init PROVE RefundInv
  OBVIOUS
<1>1. /\ world = origin /\ frames = <<>> /\ Len(frames) = 0 /\ status = "idle"
      /\ sub.refundBalance = 0
  BY EmptySeq DEF Init, InitialSubstate
<1>2. Cleared(world) = {} /\ Cardinality(Cleared(world)) = 0
  <2>1. Cleared(world) = {}
    BY <1>1 DEF Cleared
  <2> QED BY <2>1, FS_EmptySet
<1>3. Covered(world, sub)
  BY <1>1, <1>2, FeeScheduleAssumption DEF Covered, FeeScheduleAssumption
<1> QED BY <1>1, <1>3 DEF RefundInv, RefundBounded

(***************************************************************************)
(* Refunds: the counter always covers the clearing refunds that are still  *)
(* to be taken back, through reverts that undo some of the clearing, so    *)
(* that no SSTORE takes it below zero, where it would wrap to almost 2^256 *)
(*; and what a transaction's   *)
(* gas can buy never takes it past a word at the other end.                *)
(***************************************************************************)
THEOREM RefundIsCovered == Spec => []RefundCovered
<1>1. Init => TypeOK /\ AccountInv /\ GasInv /\ RefundInv
  BY InitType, AccountInit, GasInit, RefundInit
<1>2. TypeOK /\ AccountInv /\ GasInv /\ RefundInv /\ [Next]_vars
        => (TypeOK /\ AccountInv /\ GasInv /\ RefundInv)'
  BY TypeStep, AccountStep, GasStep, RefundStep
<1>3. RefundInv => RefundCovered
  BY DEF RefundInv, RefundCovered
<1> QED BY <1>1, <1>2, <1>3, PTL DEF Spec
=============================================================================
