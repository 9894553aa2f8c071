------------------------------ MODULE MCFiles ------------------------------
(***************************************************************************)
(* Files on small instances: two contexts, two kinds, two themes.          *)
(***************************************************************************)
EXTENDS Files, TLC

(* A file found is broken, which is loaded as a missing one is, or          *)
(* remembers a narrowed pane.                                               *)
MCFound ==
  {[broken |-> TRUE], [ns |-> "none", pins |-> {}, pane |-> [kind |-> "pods", owner |-> "nodes"]]}

(* A cluster serves every kind or, when discovery fails, none.              *)
MCServed == {{}, Kind}

Symmetry == Permutations(Context)
=============================================================================
