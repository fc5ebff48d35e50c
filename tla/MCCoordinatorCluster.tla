------------------------ MODULE MCCoordinatorCluster ------------------------
(* Model-checking instance of CoordinatorCluster: the groups are model   *)
(* values (symmetric: every group runs the same code).                   *)
EXTENDS CoordinatorCluster, TLC

MCGroupSymmetry == Permutations(Groups)
=============================================================================
