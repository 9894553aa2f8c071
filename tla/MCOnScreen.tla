----------------------------- MODULE MCOnScreen -----------------------------
(***************************************************************************)
(* OnScreen on small instances: a built-in kind and the seam, a kind of    *)
(* the context's file and two only discovery knows; two objects and an     *)
(* overlay that measures one of them; a log buffer of two lines, filled    *)
(* over twice; two interchangeable pods; the default keymap's two          *)
(* sequences, `g g` and `g r`, one key bound alone, and a user's binding   *)
(* of a prefix, `r` of `r d`; a dark and a light palette.                  *)
(***************************************************************************)
EXTENDS OnScreen, TLC

CONSTANTS p1, p2

MCSeed      == <<"seam", "pods">>
MCExtras    == <<"mine">>
MCCustoms   == <<"c1", "c2">>
MCSectionOf == [k \in {"seam", "pods", "mine", "c1", "c2"} |->
                  CASE k = "seam" -> "" [] k = "pods" -> "workloads" [] OTHER -> "custom"]
MCSamples   == {("a" :> -1) @@ ("b" :> 2)}
MCBound     == {<<"g", "g">>, <<"g", "r">>, <<"d">>, <<"r">>, <<"r", "d">>}
MCPainted   == {[polarity |-> "dark", name |-> "d"], [polarity |-> "light", name |-> "l"]}

Symmetry == Permutations({p1, p2})
=============================================================================
