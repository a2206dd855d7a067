---------------------------- MODULE NestedCalls -----------------------------
(***************************************************************************)
(* What call and create promise a contract: nested calls work on a copy of *)
(* the state, and the x pushed for the caller tells the truth about it.    *)
(* stack is the state of every call in progress, the innermost last.       *)
(* A call that ends with flag TRUE leaves its state to its caller, one     *)
(* that ends with flag FALSE leaves its caller's state as the call found   *)
(* it; no call touches the state of any caller but in these ways.          *)
(***************************************************************************)
EXTENDS Naturals, Sequences

VARIABLES stack, flag

Depth == Len(stack)

\* All but the innermost n of s.
Below(s, n) == SubSeq(s, 1, Len(s) - n)

Init == Len(stack) = 1 /\ flag = FALSE

\* The innermost call changes its own state.
Work ==
    /\ Len(stack') = Depth
    /\ Below(stack', 1) = Below(stack, 1)
    /\ UNCHANGED flag

\* A call: the caller may change its state first, the callee starts with
\* whatever it is given.
Open ==
    /\ Len(stack') = Depth + 1
    /\ Below(stack', 2) = Below(stack, 1)
    /\ UNCHANGED flag

Commit ==
    /\ Depth > 1
    /\ stack' = Append(Below(stack, 2), stack[Depth])
    /\ flag' = TRUE

Abort ==
    /\ Depth > 1
    /\ stack' = Below(stack, 1)
    /\ flag' = FALSE

\* A call that is never made.
Refuse ==
    /\ UNCHANGED stack
    /\ flag' = FALSE

Next == Work \/ Open \/ Commit \/ Abort \/ Refuse

Spec == Init /\ [][Next]_<<stack, flag>>
=============================================================================
