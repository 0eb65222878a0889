---------------------------- MODULE MCNodeAgent ----------------------------
(* Instances of NodeAgent for TLC. *)
EXTENDS NodeAgent, TLC

Symmetry == Permutations(Keys) \cup Permutations(Addrs)
=============================================================================
