---------------------------- MODULE MCLockManager ----------------------------
(***************************************************************************)
(* LockManager for TLC: three transactions on one table (upgrades and the  *)
(* combined group modes need three), two transactions on two records (the  *)
(* unlock loop needs several locks).                                       *)
(***************************************************************************)
EXTENDS LockManager, SequencesExt

(* The recomputation loop of unlock, over a list of requests.              *)
FoldGroup(list) == FoldLeft(upgrade_group, "NON_LOCK", list)

(* The order-free value the model gives to unlock's recomputation is what  *)
(* folding upgrade_group over the request list yields, for every queue and *)
(* every order in which its requests were appended.                        *)
RegroupIsFold ==
  \A lid \in LockDataId :
    \A list \in SetToSeqs(request_queue[lid]) :
      FoldGroup([i \in DOMAIN list |-> list[i].mode]) = regroup(Modes(request_queue[lid]))

TxnSymmetry == Permutations(Txn)
=============================================================================
