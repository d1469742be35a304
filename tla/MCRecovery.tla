----------------------------- MODULE MCRecovery -----------------------------
(***************************************************************************)
(* Recovery for TLC.  Transaction ids and row contents are model values    *)
(* that no definition tells apart, so runs without liveness use symmetry.  *)
(***************************************************************************)
EXTENDS Recovery

Symmetric == Permutations(Txn) \cup Permutations(Value)
=============================================================================
