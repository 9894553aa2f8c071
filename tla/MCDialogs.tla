----------------------------- MODULE MCDialogs -----------------------------
(* Dialogs on a small instance.                                             *)
EXTENDS Dialogs, TLC

Symmetry == Permutations(PodName)
=============================================================================
