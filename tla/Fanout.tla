------------------------------- MODULE Fanout -------------------------------
(***************************************************************************)
(* The sweep behind the cluster search and the unhealthy list              *)
(* (kube/search.go searchRows, kube/scan.go scanRows): one goroutine per   *)
(* kind waits for one of a few slots, lists its kind and sends the rows    *)
(* that match over one channel, under a cap shared by all of them and a    *)
(* smaller allowance for scattered matches; then the end is announced and  *)
(* the channel closed.  scanRows is the same without scattered matches.    *)
(***************************************************************************)
EXTENDS Naturals, Sequences, FiniteSets

CONSTANTS
  Kind,     \* the resources swept
  Answer,   \* the lists a server may return: what matched, row by row
  Limit,    \* limit; 0 is no cap
  Slots,    \* searchConcurrency
  Buf       \* searchChanBuffer

Match == {"exact", "scattered"}
FanoutAssumption ==
  /\ IsFiniteSet(Kind) /\ Answer \subseteq Seq(Match)
  /\ Limit \in Nat /\ Slots \in Nat \ {0} /\ Buf \in Nat

VARIABLES
  pc,         \* each kind's goroutine
  rows,       \* the rows it has yet to go through
  sent,       \* hits let through so far
  scattered,  \* the scattered ones among them
  capped,     \* a hit was refused at the cap
  stopped,    \* the lists' context is cancelled
  left,       \* the caller's context is cancelled
  out,        \* the channel
  ended,      \* the closing goroutine: "waiting", "ending" or "closed"
  got,        \* what the reader has received
  listed      \* history: each kind's exact matches, or that it failed

vars == <<pc, rows, sent, scattered, capped, stopped, left, out, ended, got, listed>>
shared == <<sent, scattered, capped, stopped>>

Share == 4   \* searchScatteredShare
ScatteredLimit == IF Limit \div Share > 0 THEN Limit \div Share ELSE 1

Event == [type : {"hit"}, match : Match] \cup [type : {"kind"}, kind : Kind, failed : BOOLEAN]
         \cup [type : {"end"}, capped : BOOLEAN]
Cut == [exact |-> 0, failed |-> FALSE, cut |-> TRUE]   \* a kind whose list was cut short
Result == [exact : Nat, failed : BOOLEAN, cut : BOOLEAN]

TypeOK ==
  /\ pc \in [Kind -> {"queued", "listing", "rows", "exact", "scattered", "leaving", "done", "gone"}]
  /\ rows \in [Kind -> Seq(Match)] /\ sent \in Nat /\ scattered \in 0 .. sent
  /\ capped \in BOOLEAN /\ stopped \in BOOLEAN /\ left \in BOOLEAN
  /\ out \in Seq(Event) /\ Len(out) <= Buf /\ ended \in {"waiting", "ending", "closed"}
  /\ got \in [hits : [Match -> Nat], kinds : [Kind -> Nat], end : {"none", "all", "capped"}]
  /\ listed \in [Kind -> Result]

Init ==
  /\ pc = [k \in Kind |-> "queued"] /\ rows = [k \in Kind |-> <<>>]
  /\ sent = 0 /\ scattered = 0 /\ capped = FALSE /\ stopped = FALSE /\ left = FALSE
  /\ out = <<>> /\ ended = "waiting" /\ listed = [k \in Kind |-> Cut]
  /\ got = [hits |-> [m \in Match |-> 0], kinds |-> [k \in Kind |-> 0], end |-> "none"]

Held == {k \in Kind : pc[k] \in {"listing", "rows", "exact", "scattered"}}
Goto(k, at) == pc' = [pc EXCEPT ![k] = at]

--------------------------- (* a kind's goroutine *) -------------------------
(* A slot, or no turn at all once the lists are cancelled.                  *)
Admit(k) ==
  /\ pc[k] = "queued"
  /\ \/ Cardinality(Held) < Slots /\ Goto(k, "listing")
     \/ stopped /\ Goto(k, "leaving")
  /\ UNCHANGED <<rows, shared, left, out, ended, got, listed>>

Exact(a) == Cardinality({i \in DOMAIN a : a[i] = "exact"})
List(k) ==
  /\ pc[k] = "listing"
  /\ \/ \E a \in Answer :
          /\ rows' = [rows EXCEPT ![k] = a] /\ Goto(k, "rows")
          /\ listed' = [listed EXCEPT ![k] = [exact |-> Exact(a), failed |-> FALSE, cut |-> FALSE]]
     \/ /\ ~stopped /\ Goto(k, "leaving") /\ UNCHANGED rows
        /\ listed' = [listed EXCEPT ![k] = [exact |-> 0, failed |-> TRUE, cut |-> FALSE]]
     \/ stopped /\ Goto(k, "leaving") /\ UNCHANGED <<rows, listed>>
  /\ UNCHANGED <<shared, left, out, ended, got>>

(* One row, under the lock: the cap ends the sweep, a spent allowance only  *)
(* this row, and a hit let through is counted before it is sent.            *)
AtCap == Limit > 0 /\ sent >= Limit
Spent(m) == m = "scattered" /\ Limit > 0 /\ scattered >= ScatteredLimit
(* As if the allowance were never used up: not the code.                    *)
CountAlike(m) == sent' = sent + 1 /\ UNCHANGED <<scattered, capped, stopped>>
Count(m) ==
  /\ sent' = sent + 1 /\ scattered' = IF m = "scattered" THEN scattered + 1 ELSE scattered
  /\ UNCHANGED <<capped, stopped>>
Row(k) ==
  /\ pc[k] = "rows"
  /\ IF rows[k] = <<>> THEN Goto(k, "leaving") /\ UNCHANGED <<rows, shared>>
     ELSE LET m == Head(rows[k]) IN
       /\ rows' = [rows EXCEPT ![k] = Tail(rows[k])]
       /\ CASE AtCap -> capped' = TRUE /\ stopped' = TRUE /\ Goto(k, "leaving") /\ UNCHANGED <<sent, scattered>>
            [] ~AtCap /\ Spent(m) -> UNCHANGED <<pc, shared>>
            [] OTHER -> Count(m) /\ Goto(k, IF left THEN "leaving" ELSE m)
  /\ UNCHANGED <<left, out, ended, got, listed>>

(* sendEvent: checked for the caller before, then whichever comes first.    *)
Room == Len(out) < Buf
(* As if it were a bare send: not the code.                                 *)
SendBare(k) ==
  /\ pc[k] \in Match /\ Room /\ out' = Append(out, [type |-> "hit", match |-> pc[k]]) /\ Goto(k, "rows")
  /\ UNCHANGED <<rows, shared, left, ended, got, listed>>
Send(k) ==
  /\ pc[k] \in Match
  /\ \/ /\ Room /\ out' = Append(out, [type |-> "hit", match |-> pc[k]]) /\ Goto(k, "rows")
     \/ left /\ Goto(k, "leaving") /\ UNCHANGED out
  /\ UNCHANGED <<rows, shared, left, ended, got, listed>>

(* The deferred calls: the slot is free by now, the kind is reported done.  *)
Leave(k) ==
  /\ pc[k] = "leaving" /\ Goto(k, IF left THEN "gone" ELSE "done")
  /\ UNCHANGED <<rows, shared, left, out, ended, got, listed>>
ReportKind(k) ==
  /\ pc[k] = "done" /\ Goto(k, "gone")
  /\ \/ Room /\ out' = Append(out, [type |-> "kind", kind |-> k, failed |-> listed[k].failed])
     \/ left /\ UNCHANGED out
  /\ UNCHANGED <<rows, shared, left, ended, got, listed>>

--------------------- (* the last goroutine, the reader *) -------------------
Wait ==
  /\ ended = "waiting" /\ \A k \in Kind : pc[k] = "gone"
  /\ ended' = (IF left THEN "closed" ELSE "ending") /\ stopped' = (stopped \/ left)
  /\ UNCHANGED <<pc, rows, sent, scattered, capped, left, out, got, listed>>
End ==
  /\ ended = "ending" /\ ended' = "closed" /\ stopped' = TRUE
  /\ \/ Room /\ out' = Append(out, [type |-> "end", capped |-> capped])
     \/ left /\ UNCHANGED out
  /\ UNCHANGED <<pc, rows, sent, scattered, capped, left, got, listed>>

(* The pump: one receive per message handled (MarkKindDone, SetCapped).     *)
Fold(e) == CASE e.type = "hit"  -> [got EXCEPT !.hits[e.match] = @ + 1]
             [] e.type = "kind" -> [got EXCEPT !.kinds[e.kind] = @ + 1]
             [] e.type = "end"  -> [got EXCEPT !.end = IF e.capped THEN "capped" ELSE "all"]
Receive ==
  /\ ~left /\ out # <<>> /\ out' = Tail(out) /\ got' = Fold(Head(out))
  /\ UNCHANGED <<pc, rows, shared, left, ended, listed>>

(* stopSearch, stopScan: the reader cancels and receives no more.           *)
WalkAway ==
  /\ ~left /\ left' = TRUE /\ stopped' = TRUE
  /\ UNCHANGED <<pc, rows, sent, scattered, capped, out, ended, got, listed>>

Sweep(k) == Admit(k) \/ List(k) \/ Row(k) \/ Send(k) \/ Leave(k) \/ ReportKind(k)
Next == (\E k \in Kind : Sweep(k)) \/ Wait \/ End \/ Receive \/ WalkAway

(* The Go scheduler runs every goroutine that can run, a list is answered   *)
(* or cut short, and a reader that has not left goes on receiving.          *)
Fairness == (\A k \in Kind : WF_vars(Sweep(k))) /\ WF_vars(Wait) /\ WF_vars(End) /\ WF_vars(Receive)
Spec == Init /\ [][Next]_vars /\ Fairness

----------------------------- (* properties *) -----------------------------
Hits == got.hits["exact"] + got.hits["scattered"]

(* Search's contract: the end comes last, after exactly one report from     *)
(* every kind; nothing was refused unless it says so, and then the cap was  *)
(* used to the full, all but the allowance of it on exact matches.          *)
EndIsTrue ==
  /\ \A k \in Kind : got.kinds[k] <= 1
  /\ got.end # "none" => out = <<>> /\ \A k \in Kind : got.kinds[k] = 1
  /\ got.end = "all" => \A k \in Kind : ~listed[k].cut
  /\ got.end = "capped" => Hits = Limit /\ got.hits["scattered"] <= ScatteredLimit

(* And when nothing was refused, every exact match of every list came.      *)
NothingMissed ==
  got.end = "all" =>
    LET exact[S \in SUBSET Kind] ==
          IF S = {} THEN 0 ELSE LET k == CHOOSE k \in S : TRUE IN listed[k].exact + exact[S \ {k}]
    IN got.hits["exact"] = exact[Kind]

(* What the reader receives is what the channel promises, whatever the      *)
(* lists answer and whoever is cut short: see ScanChannel.                  *)
Channel == INSTANCE ScanChannel WITH
  reported <- {k \in Kind : got.kinds[k] > 0}, sent <- Hits, end <- got.end
Promised == [Channel!Next]_(Channel!vars)
Promise  == Channel!Spec

(* Why: every hit let through is received, in the channel or in a           *)
(* goroutine's hands; a kind's report follows its hits and comes once, and  *)
(* the end follows every report.  Once the reader left, nothing more comes. *)
Flying(m)  == {i \in DOMAIN out : out[i].type = "hit" /\ out[i].match = m}
Holding(m) == {k \in Kind : pc[k] = m}
Through(m) == IF m = "scattered" THEN scattered ELSE sent - scattered
Counted ==
  \A m \in Match : got.hits[m] + Cardinality(Flying(m)) + Cardinality(Holding(m)) = Through(m)
Reports(k) == {i \in DOMAIN out : out[i].type = "kind" /\ out[i].kind = k}
ReportedOnce ==
  \A k \in Kind :
    IF pc[k] = "gone"
    THEN \/ got.kinds[k] = 1 /\ Reports(k) = {}
         \/ got.kinds[k] = 0 /\ \E i \in DOMAIN out : Reports(k) = {i}
    ELSE got.kinds[k] = 0 /\ Reports(k) = {}
HitsFirst ==
  \A i \in DOMAIN out : out[i].type = "hit" =>
    \E k \in Kind : pc[k] # "gone" \/ \E j \in Reports(k) : i < j
AllGone == \A k \in Kind : pc[k] = "gone"
EndLast ==
  /\ \A i \in DOMAIN out : out[i].type = "end" =>
       /\ i = Len(out) /\ ended = "closed" /\ got.end = "none" /\ out[i].capped = capped
  /\ ended # "waiting" => AllGone
  /\ ended # "closed" => got.end = "none"
Whole == \A k \in Kind : pc[k] \notin {"queued", "listing"} => ~listed[k].cut
UnderCap ==
  /\ Limit > 0 => sent <= Limit /\ scattered <= ScatteredLimit
  /\ capped => Limit > 0 /\ sent = Limit
Attended ==
  /\ Counted /\ ReportedOnce /\ HitsFirst /\ EndLast
  /\ ~capped => Whole /\ (ended # "closed" => ~stopped)
Received ==
  /\ \A k \in Kind : got.kinds[k] <= 1
  /\ got.end # "none" => out = <<>> /\ AllGone /\ ended = "closed" /\ \A k \in Kind : got.kinds[k] = 1
  /\ got.end = "all" => \A k \in Kind : ~listed[k].cut
  /\ got.end = "capped" => Hits = Limit /\ got.hits["scattered"] <= ScatteredLimit
Inv == TypeOK /\ UnderCap /\ (~left => Attended) /\ Received

(* Every sweep ends and closes its channel, also one nobody receives from.  *)
Swept == ended = "closed" /\ \A k \in Kind : pc[k] = "gone"
SweepEnds == <>Swept
=============================================================================
