---------------------------- MODULE GasSchedule -----------------------------
(***************************************************************************)
(* The gas costs of the instructions that the message-call machine tells   *)
(* apart: Ethereum/Gas.lean over the fee schedule of GasConstants.lean.    *)
(* The fee schedule is a parameter; what is assumed of it is what the      *)
(* proofs need and what the program's numbers satisfy.                     *)
(***************************************************************************)
EXTENDS WorldState, Integers

CONSTANTS
    Gwarmaccess, Gcoldaccountaccess, Gcoldsload, Gsset, Gsreset, Rsclear,
    Gselfdestruct, Gcreate, Gcodedeposit, Gcallvalue, Gcallstipend,
    Gnewaccount, Glog,
    GasRetention  \* a caller keeps one part in GasRetention (64 in the program)

FeeScheduleAssumption ==
    /\ {Gwarmaccess, Gcoldaccountaccess, Gcoldsload, Gsset, Gsreset, Rsclear,
        Gselfdestruct, Gcreate, Gcodedeposit, Gcallvalue, Gcallstipend,
        Gnewaccount, Glog} \subseteq Nat
    /\ 0 \notin {Gwarmaccess, Gcoldaccountaccess, Gcoldsload, Gsset, Gsreset,
                 Gselfdestruct, Gcreate, Glog}
    /\ Gcallstipend <= Gcallvalue
    /\ Gwarmaccess <= Gsset
    /\ Gwarmaccess <= Gsreset
    /\ GasRetention \in Nat \ {0}

ASSUME FeeScheduleAssumption

MinOf(x, y) == IF x <= y THEN x ELSE y

\* Sat256.subNat: subtraction that stops at zero.
Monus(x, y) == IF y <= x THEN x - y ELSE 0

\* All but one part in GasRetention.
L(n) == n - (n \div GasRetention)

-----------------------------------------------------------------------------
Caccess(t, A) ==
    IF t \in A.accessedAccounts THEN Gwarmaccess ELSE Gcoldaccountaccess

\* Mutant: the stipend is given, the value is not charged for.
CxferFree(v) == 0

Cxfer(v) == IF v = 0 THEN 0 ELSE Gcallvalue

Cnew(r, v, m) == IF Dead(m, r) /\ v # 0 THEN Gnewaccount ELSE 0

Cextra(t, r, v, m, A) == Caccess(t, A) + Cxfer(v) + Cnew(r, v, m)

\* What the callee is offered: the gas asked for, at most L of what is left.
Cgascap(t, r, v, asked, gas, m, A) ==
    IF Cextra(t, r, v, m, A) <= gas
      THEN MinOf(L(gas - Cextra(t, r, v, m, A)), asked)
      ELSE asked

Ccallgas(t, r, v, asked, gas, m, A) ==
    Cgascap(t, r, v, asked, gas, m, A) + (IF v = 0 THEN 0 ELSE Gcallstipend)

Ccall(t, r, v, asked, gas, m, A) ==
    Cgascap(t, r, v, asked, gas, m, A) + Cextra(t, r, v, m, A)

-----------------------------------------------------------------------------
Csload(a, slot, A) ==
    IF <<a, slot>> \in A.accessedStorageKeys THEN Gwarmaccess ELSE Gcoldsload

(***************************************************************************)
(* SSTORE: orig is the word the slot held when the transaction began, cur  *)
(* the one it holds, new the one to be stored.                             *)
(***************************************************************************)
Csstore(a, slot, orig, cur, new, A) ==
    (IF <<a, slot>> \in A.accessedStorageKeys THEN 0 ELSE Gcoldsload)
    + (IF cur = new \/ orig # cur THEN Gwarmaccess
       ELSE IF orig = 0 THEN Gsset
       ELSE Gsreset)

\* The change SSTORE makes to the refund counter; it may be negative.
RefundDelta(orig, cur, new) ==
    LET dirtyClear == IF orig # 0 /\ cur = 0 THEN -Rsclear
                      ELSE IF orig # 0 /\ new = 0 THEN Rsclear
                      ELSE 0
        dirtyReset == IF orig # new THEN 0
                      ELSE (IF orig = 0 THEN Gsset ELSE Gsreset) - Gwarmaccess
    IN  IF cur = new THEN 0
        ELSE IF orig # cur THEN dirtyClear + dirtyReset
        ELSE IF new = 0 THEN Rsclear
        ELSE 0

\* The counter is a machine word: a negative sum wraps.
AddRefund(refund, delta) == (refund + delta) % WordSize

Cselfdestruct(a, r, m, A) ==
    Gselfdestruct
    + (IF r \in A.accessedAccounts THEN 0 ELSE Gcoldaccountaccess)
    + (IF Dead(m, r) /\ Balance(m, a) # 0 THEN Gnewaccount ELSE 0)
=============================================================================
