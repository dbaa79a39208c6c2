---------------------------- MODULE MCConnection ----------------------------
(* Instances of Connection for TLC. *)
EXTENDS Connection, TLC

ConnSymmetry == Permutations(Conns)

(* Bound of a run with three connections: two of them ask for something, the third one   *)
(* only takes up a timer.  And nothing more happens to a worker that was killed or whose  *)
(* tree of timers was torn.                                                               *)
OneIdle ==
  /\ \E c \in Conns : asks[c] = "none" /\ snd[c] = 0 /\ peer[c] \in {"none", "open"}
  /\ pc \notin {"dead", "torn"}
============================================================================
