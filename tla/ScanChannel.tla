----------------------------- MODULE ScanChannel -----------------------------
(***************************************************************************)
(* What a sweep's channel promises whoever receives from it (the contract  *)
(* over kube/search.go Search and kube/scan.go Scan): any hits, no more of *)
(* them than the cap; one report of each kind, and none of a kind's hits   *)
(* once every kind has reported; then the end, which says whether the cap  *)
(* was used up.  How it comes about is module Fanout's business, and what  *)
(* the reader makes of it Unhealthy's and Search's.                        *)
(***************************************************************************)
EXTENDS Naturals

CONSTANTS
  Kind,     \* the resources swept
  Limit     \* limit; 0 is no cap

VARIABLES
  reported,  \* kinds reported done
  sent,      \* hits received
  end        \* the end received: "none", "all" or "capped"

vars == <<reported, sent, end>>

Init == reported = {} /\ sent = 0 /\ end = "none"

(* SearchMatch, ScanMatch                                                   *)
Hit ==
  /\ reported # Kind /\ (Limit > 0 => sent < Limit)
  /\ sent' = sent + 1 /\ UNCHANGED <<reported, end>>

(* SearchKindDone, ScanKindDone                                             *)
Report(k) == k \notin reported /\ reported' = reported \cup {k} /\ UNCHANGED <<sent, end>>

(* SearchDone, ScanDone                                                     *)
End(capped) ==
  /\ reported = Kind /\ end = "none" /\ (capped => Limit > 0 /\ sent = Limit)
  /\ end' = IF capped THEN "capped" ELSE "all"
  /\ UNCHANGED <<reported, sent>>

Next == Hit \/ (\E k \in Kind : Report(k)) \/ \E c \in BOOLEAN : End(c)
Spec == Init /\ [][Next]_vars
=============================================================================
