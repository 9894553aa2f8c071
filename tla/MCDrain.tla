------------------------------ MODULE MCDrain ------------------------------
(* Drain on a small instance: a managed pod, a standalone one, a            *)
(* DaemonSet's, under the options the shell drains with.                    *)
EXTENDS Drain, TLC

Managed    == [skip |-> FALSE, ctrl |-> "other", local |-> FALSE]
Standalone == [skip |-> FALSE, ctrl |-> "none", local |-> FALSE]
OfDaemon   == [skip |-> FALSE, ctrl |-> "DaemonSet", local |-> FALSE]

Managing == {Managed, Standalone}
Mixed    == {Managed, Standalone, OfDaemon}
Symmetry == Permutations(Node)
=============================================================================
