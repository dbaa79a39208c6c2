------------------------------- MODULE MCCask -------------------------------
(* Instances of Cask for TLC. *)
EXTENDS Cask
============================================================================
