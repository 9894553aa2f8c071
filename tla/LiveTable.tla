----------------------------- MODULE LiveTable -----------------------------
(***************************************************************************)
(* What the browse pane promises about the collection it shows: at any     *)
(* time it is either blank or exactly the collection at one resource       *)
(* version the API server really had, and the version it shows only moves  *)
(* forward.  How the rows get there - lists, watches, reconnects, a        *)
(* bounded channel, a message pump - is the business of module Watch.      *)
(***************************************************************************)
EXTENDS Integers

CONSTANTS
  Uid,      \* the objects of the watched collection
  Row,      \* what one table row may show of an object
  Absent,   \* no row: the object does not exist
  MaxRV     \* bound: the last resource version the server reaches

Version  == 0..MaxRV
NoRV     == -1                                \* the pane is still blank
Snapshot == [Uid -> Row \cup {Absent}]        \* the collection at one version
Blank    == [u \in Uid |-> Absent]

VARIABLES
  now,      \* the server's latest resource version
  hist,     \* hist[v]: the collection at version v, for v <= now
  shown,    \* the version the pane shows, NoRV while it is blank
  rows      \* the pane's rows

vars == <<now, hist, shown, rows>>

Init ==
  /\ now = 0
  /\ hist \in [Version -> Snapshot]
  /\ \A v \in Version : hist[v] = hist[0]
  /\ shown = NoRV
  /\ rows = Blank

(* The server moves to its next version; older versions never change. *)
Commit ==
  /\ now < MaxRV
  /\ now' = now + 1
  /\ \E s \in Snapshot : hist' = [hist EXCEPT ![now + 1] = s]
  /\ UNCHANGED <<shown, rows>>

(* The pane moves to some version the server has reached, never backwards. *)
Refresh ==
  /\ \E v \in 0..now :
       /\ v >= shown
       /\ shown' = v
       /\ rows' = hist[v]
  /\ UNCHANGED <<now, hist>>

Next == Commit \/ Refresh

Spec == Init /\ [][Next]_vars
=============================================================================
