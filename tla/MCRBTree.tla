------------------------------ MODULE MCRBTree ------------------------------
(* Instances of RBTree for TLC. *)
EXTENDS RBTree, TLC

NodeSymmetry == Permutations(Nodes)
============================================================================
