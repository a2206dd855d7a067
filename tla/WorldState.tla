----------------------------- MODULE WorldState -----------------------------
(***************************************************************************)
(* The account map σ and the accrued substate A of the EVM, with the       *)
(* operators of Ethereum/State, Ethereum/Maps and Ethereum/StateOps.lean   *)
(* that change them.                                                       *)
(*                                                                         *)
(* A code is abstracted to its size (0: no code), an address and a storage *)
(* key to a member of a finite set, a stored word to a small natural.      *)
(* Balances and the refund counter are machine words: they wrap at         *)
(* WordSize (2^256 in the program).                                        *)
(***************************************************************************)
EXTENDS Naturals, Sequences, FiniteSets

CONSTANTS
    Address,      \* AccountAddress
    Slot,         \* storage keys
    Word,         \* words a contract stores in a slot; 0 is the erased one
    WordSize,     \* UInt256.size
    NoAccount     \* what `get?` of an absent account returns

AddressAssumption  == IsFiniteSet(Address) /\ IsFiniteSet(Slot)
WordSizeAssumption == WordSize \in Nat \ {0}
WordAssumption     == Word \subseteq Nat /\ 0 \in Word

ASSUME AddressAssumption
ASSUME WordSizeAssumption
ASSUME WordAssumption

Uint == 0 .. WordSize - 1

Storage == [Slot -> Word]

Account == [nonce    : Nat,
            balance  : Uint,
            code     : Nat,
            storage  : Storage,
            tstorage : Storage]

NoAccountAssumption == NoAccount \notin Account

ASSUME NoAccountAssumption

AccountMap == [Address -> Account \cup {NoAccount}]

Substate == [selfDestructSet     : SUBSET Address,
             refundBalance       : Uint,
             accessedAccounts    : SUBSET Address,
             accessedStorageKeys : SUBSET (Address \X Slot),
             logSeries           : Seq(Address),
             createdAccounts     : SUBSET Address]

-----------------------------------------------------------------------------
\* UInt256 addition and subtraction.
AddWord(x, y) == (x + y) % WordSize
SubWord(x, y) == (x + (WordSize - y)) % WordSize

ZeroStorage == [s \in Slot |-> 0]

\* `default : Account`
DefaultAccount == [nonce |-> 0, balance |-> 0, code |-> 0,
                   storage |-> ZeroStorage, tstorage |-> ZeroStorage]

\* `∅ : AccountMap`, which Θ takes for "the call failed".
EmptyMap == [a \in Address |-> NoAccount]

Exists(m, a) == m[a] # NoAccount

\* `getD a default`
Lookup(m, a) == IF Exists(m, a) THEN m[a] ELSE DefaultAccount

Balance(m, a) == Lookup(m, a).balance

\* EMPTY(σ, a) and DEAD(σ, a).
IsEmptyAccount(acc) == acc.code = 0 /\ acc.nonce = 0 /\ acc.balance = 0
Dead(m, a) == Exists(m, a) => IsEmptyAccount(m[a])

-----------------------------------------------------------------------------
(***************************************************************************)
(* Balances.  Θ credits the recipient before it debits the sender; a       *)
(* credit of nothing does not bring an absent account into being.          *)
(***************************************************************************)
Credit(m, r, v) ==
    IF Exists(m, r)
      THEN [m EXCEPT ![r].balance = AddWord(@, v)]
      ELSE IF v = 0
             THEN m
             ELSE [m EXCEPT ![r] = [DefaultAccount EXCEPT !.balance = v]]

Debit(m, s, v) ==
    IF Exists(m, s)
      THEN [m EXCEPT ![s].balance = SubWord(@, v)]
      ELSE m

Transfer(m, s, r, v) == Debit(Credit(m, r, v), s, v)

IncrementNonce(m, a) ==
    [m EXCEPT ![a] = [Lookup(m, a) EXCEPT !.nonce = @ + 1]]

(***************************************************************************)
(* SELFDESTRUCT moves the whole balance of `a` to `r`.  When r = a, a      *)
(* contract born in this transaction burns it, another one keeps it.       *)
(***************************************************************************)
SweepBalance(m, a, r, born) ==
    IF ~Exists(m, a) \/ (~Exists(m, r) /\ m[a].balance = 0) \/ (r = a /\ ~born)
      THEN m
      ELSE LET credited == IF r = a THEN m ELSE Credit(m, r, m[a].balance)
           IN  [credited EXCEPT ![a].balance = 0]

-----------------------------------------------------------------------------
\* Storage, and the substate's accessed sets.
StoredWord(m, a, slot) == Lookup(m, a).storage[slot]

StoreWord(m, a, slot, w) ==
    IF Exists(m, a)
      THEN [m EXCEPT ![a].storage[slot] = w]
      ELSE m

StoreTransient(m, a, slot, w) ==
    IF Exists(m, a)
      THEN [m EXCEPT ![a].tstorage[slot] = w]
      ELSE m

AddAccessedAccount(A, a) ==
    [A EXCEPT !.accessedAccounts = @ \cup {a}]

AddAccessedStorageKey(A, a, slot) ==
    [A EXCEPT !.accessedStorageKeys = @ \cup {<<a, slot>>}]
=============================================================================
