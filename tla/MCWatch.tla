------------------------------ MODULE MCWatch ------------------------------
(* Watch on a small instance: a couple of objects. *)
EXTENDS Watch, TLC

Symmetry == Permutations(Uid)
=============================================================================
