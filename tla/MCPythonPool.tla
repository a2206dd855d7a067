---------------------------- MODULE MCPythonPool ----------------------------
(***************************************************************************)
(* Instances of the helper pool for TLC.                                   *)
(***************************************************************************)
EXTENDS PythonPool, TLC

\* Threads and helpers are interchangeable; only for runs without liveness.
Symmetry == Permutations(Thread) \cup Permutations(Helper)
=============================================================================
