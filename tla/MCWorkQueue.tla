---------------------------- MODULE MCWorkQueue -----------------------------
(***************************************************************************)
(* Instances of the conformance runner for TLC: a large file that is split *)
(* and a small one, with any selection of their tests.                     *)
(***************************************************************************)
EXTENDS WorkQueue, TLC

CONSTANTS big, small

Bytes     == big :> 6 @@ small :> 2
TestCount == big :> 3 @@ small :> 1
AnySelection == {s \in [{big, small} -> 0 .. 3] : s[small] <= 1}
=============================================================================
