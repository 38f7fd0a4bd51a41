---------------------------- MODULE MCForwarding ----------------------------
(* Forwarding for TLC: the constants are given in the configurations.      *)
EXTENDS Forwarding, TLC

Symmetric == Permutations(Requests)
=============================================================================
