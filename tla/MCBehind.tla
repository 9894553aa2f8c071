------------------------------ MODULE MCBehind ------------------------------
(***************************************************************************)
(* Behind on small instances: three kinds with up to two matching rows     *)
(* under a cap of three; a list of up to two kinds under a cap of two;     *)
(* three log lines, a tail of two and two faults, with lines that may be   *)
(* torn; two forwards; two clusters with three watches and four keys.      *)
(***************************************************************************)
EXTENDS Behind

MCAnswer == {<<>>, <<"exact">>, <<"scattered", "scattered">>, <<"scattered", "exact">>}
=============================================================================
