------------------------------- MODULE MCDb -------------------------------
(* Instances of Db for TLC. *)
EXTENDS Db, TLC

(* A paste no longer than a dbid_t's half, and one longer than a dbid_t. *)
ShortAndLong == {<<71>>, <<81, 82, 83>>}

WorkerSymmetry == Permutations(Workers)
============================================================================
