----------------------------- MODULE MCSession -----------------------------
(***************************************************************************)
(* Session on a small instance.  A generation is only ever compared with   *)
(* its counter, and a message that lost that comparison is dropped without *)
(* an effect: states that agree on the messages still accepted have the    *)
(* same future, so TLC may identify them (Future, a VIEW).                 *)
(***************************************************************************)
EXTENDS Session, TLC

Symmetry == Permutations(Context)

Ungated(m) == IF Gated(m) THEN [m EXCEPT !.gen = 0] ELSE m
Future ==
  <<link, { Ungated(m) : m \in {n \in inbox : Gated(n) => Live(n)} }, view,
    dialog, browse, did, opens>>
=============================================================================
