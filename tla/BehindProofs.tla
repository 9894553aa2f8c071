---------------------------- MODULE BehindProofs ----------------------------
(***************************************************************************)
(* Proofs about Behind, for any bounds and any answers: one part of the    *)
(* invariant for each part of Behind.                                      *)
(***************************************************************************)
EXTENDS Behind, Integers, FiniteSetTheorems, SequenceTheorems, TLAPS

----------------------------- (* Fanout *) ----------------------------------
USE BehindAssumption DEF Sweep!FanoutAssumption

(* Fanout's own instance of FiniteSets says what FiniteSets says.           *)
LEMMA SweepFinite == \A S : Sweep!IsFiniteSet(S) = IsFiniteSet(S) /\ Sweep!Cardinality(S) = Cardinality(S)
BY DEF Sweep!IsFiniteSet, IsFiniteSet, Sweep!Cardinality, Cardinality

LEMMA SweepEvents ==
  /\ \A m \in Sweep!Match : [type |-> "hit", match |-> m] \in Sweep!Event
  /\ \A k \in Kind, f \in BOOLEAN : [type |-> "kind", kind |-> k, failed |-> f] \in Sweep!Event
  /\ \A c \in BOOLEAN : [type |-> "end", capped |-> c] \in Sweep!Event
  /\ \A e \in Sweep!Event : /\ e.type = "hit" => e.match \in Sweep!Match
                            /\ e.type = "kind" => e.kind \in Kind
                            /\ e.type = "end" => e.capped \in BOOLEAN
                            /\ e.type \in {"hit", "kind", "end"}
BY DEF Sweep!Event

LEMMA SweepSets ==
  ASSUME Sweep!TypeOK
  PROVE  /\ Len(out) \in Nat /\ DOMAIN out = 1 .. Len(out)
         /\ \A m \in Sweep!Match : /\ IsFiniteSet(Sweep!Flying(m)) /\ IsFiniteSet(Sweep!Holding(m))
                                   /\ Cardinality(Sweep!Flying(m)) \in Nat /\ Cardinality(Sweep!Holding(m)) \in Nat
<1>1. Len(out) \in Nat /\ DOMAIN out = 1 .. Len(out)
  BY DEF Sweep!TypeOK
<1>2. IsFiniteSet(DOMAIN out)
  BY <1>1, FS_Interval
<1>3. ASSUME NEW m \in Sweep!Match
      PROVE  /\ IsFiniteSet(Sweep!Flying(m)) /\ IsFiniteSet(Sweep!Holding(m))
             /\ Cardinality(Sweep!Flying(m)) \in Nat /\ Cardinality(Sweep!Holding(m)) \in Nat
  <2>1. Sweep!Flying(m) \in SUBSET DOMAIN out /\ Sweep!Holding(m) \in SUBSET Kind
    BY DEF Sweep!Flying, Sweep!Holding
  <2>2. IsFiniteSet(Sweep!Flying(m)) /\ IsFiniteSet(Sweep!Holding(m))
    BY SweepFinite, <1>2, <2>1, FS_Subset
  <2> QED BY <2>2, FS_CardinalityType
<1> QED BY <1>1, <1>3

LEMMA SweepExact == ASSUME NEW a \in Answer PROVE Sweep!Exact(a) \in Nat
<1>1. a \in Seq(Sweep!Match) /\ Len(a) \in Nat /\ DOMAIN a = 1 .. Len(a)
  OBVIOUS
<1>2. IsFiniteSet(DOMAIN a)
  BY <1>1, FS_Interval
<1>3. {i \in DOMAIN a : a[i] = "exact"} \in SUBSET DOMAIN a
  OBVIOUS
<1>4. IsFiniteSet({i \in DOMAIN a : a[i] = "exact"})
  BY <1>2, <1>3, FS_Subset
<1> QED BY SweepFinite, <1>4, FS_CardinalityType DEF Sweep!Exact

LEMMA SweepLimit == Sweep!ScatteredLimit \in Nat \ {0} /\ Limit \in Nat
<1>1. Limit \in Nat /\ Sweep!Share \in Nat \ {0} /\ Limit \div Sweep!Share \in Nat
  BY DEF Sweep!Share
<1> QED BY <1>1 DEF Sweep!ScatteredLimit

(* One received: what is left moves up by one.                              *)
LEMMA SweepShift ==
  ASSUME NEW S, NEW T, IsFiniteSet(S), S \subseteq Nat, T = {i - 1 : i \in S}
  PROVE  IsFiniteSet(T) /\ Cardinality(T) = Cardinality(S)
<1> DEFINE f == [i \in S |-> i - 1]
<1>1. f \in Bijection(S, T)
  <2>1. f \in [S -> T] /\ \A t \in T : \E i \in S : f[i] = t
    OBVIOUS
  <2>2. \A i, j \in S : f[i] = f[j] => i = j
    OBVIOUS
  <2> QED BY <2>1, <2>2 DEF Bijection, Injection, Surjection, IsInjective
<1>2. ExistsBijection(S, T)
  BY <1>1 DEF ExistsBijection
<1> QED BY <1>2, FS_Bijection
(* One sent: it is the last.                                                *)
LEMMA SweepSent ==
  ASSUME Sweep!TypeOK, NEW e \in Sweep!Event, out' = Append(out, e)
  PROVE  /\ out' \in Seq(Sweep!Event) /\ Len(out') = Len(out) + 1 /\ DOMAIN out' = 1 .. Len(out) + 1
         /\ Len(out) \in Nat /\ DOMAIN out = 1 .. Len(out)
         /\ \A i \in DOMAIN out : out'[i] = out[i]
         /\ out'[Len(out) + 1] = e
<1>1. out \in Seq(Sweep!Event)
  BY DEF Sweep!TypeOK
<1> QED BY <1>1, AppendProperties

LEMMA SweepTaken ==
  ASSUME Sweep!TypeOK, out # <<>>, out' = Tail(out)
  PROVE  /\ out' \in Seq(Sweep!Event) /\ Len(out') = Len(out) - 1 /\ DOMAIN out' = 1 .. Len(out) - 1
         /\ Len(out) \in Nat \ {0} /\ DOMAIN out = 1 .. Len(out) /\ Head(out) = out[1] /\ out[1] \in Sweep!Event
         /\ \A i \in DOMAIN out' : out'[i] = out[i + 1]
<1>1. out \in Seq(Sweep!Event)
  BY DEF Sweep!TypeOK
<1> QED BY <1>1, HeadTailProperties

LEMMA SweepInit == Sweep!Init => Sweep!Inv
<1> SUFFICES ASSUME Sweep!Init PROVE Sweep!Inv
  OBVIOUS
<1>1. Sweep!TypeOK
  <2>1. Sweep!Cut \in Sweep!Result /\ \A k \in Kind : <<>> \in Seq(Sweep!Match)
    BY DEF Sweep!Cut, Sweep!Result
  <2>2. pc \in [Kind -> {"queued", "listing", "rows", "exact", "scattered", "leaving", "done", "gone"}]
        /\ rows \in [Kind -> Seq(Sweep!Match)] /\ listed \in [Kind -> Sweep!Result]
    BY <2>1 DEF Sweep!Init
  <2>3. out \in Seq(Sweep!Event) /\ Len(out) <= Buf
    BY DEF Sweep!Init
  <2>4. got \in [hits : [Sweep!Match -> Nat], kinds : [Kind -> Nat], end : {"none", "all", "capped"}]
    BY DEF Sweep!Init
  <2>5. sent \in Nat /\ scattered \in 0 .. sent /\ capped \in BOOLEAN /\ stopped \in BOOLEAN
        /\ left \in BOOLEAN /\ ended \in {"waiting", "ending", "closed"}
    <3>1. sent = 0 /\ scattered = 0 /\ ~capped /\ capped \in BOOLEAN /\ stopped \in BOOLEAN
          /\ left \in BOOLEAN /\ ended = "waiting"
      BY Zenon DEF Sweep!Init
    <3> QED BY <3>1
  <2> QED BY <2>2, <2>3, <2>4, <2>5 DEF Sweep!TypeOK
<1>2. Sweep!UnderCap /\ Sweep!Received
  <2>1. sent = 0 /\ scattered = 0 /\ capped = FALSE
        /\ got = [hits |-> [m \in Sweep!Match |-> 0], kinds |-> [k \in Kind |-> 0], end |-> "none"]
    BY DEF Sweep!Init
  <2> QED BY <2>1, SweepLimit DEF Sweep!UnderCap, Sweep!Received
<1>3. Sweep!Counted
  <2>1. ASSUME NEW m \in Sweep!Match PROVE Sweep!Flying(m) = {} /\ Sweep!Holding(m) = {} /\ Sweep!Through(m) = 0 /\ got.hits[m] = 0
    BY <2>1 DEF Sweep!Init, Sweep!Flying, Sweep!Holding, Sweep!Through, Sweep!Match
  <2>2. Cardinality({}) = 0
    BY FS_EmptySet
  <2>3. ASSUME NEW m \in Sweep!Match
        PROVE  got.hits[m] + Cardinality(Sweep!Flying(m)) + Cardinality(Sweep!Holding(m)) = Sweep!Through(m)
    <3>1. Cardinality(Sweep!Flying(m)) = 0 /\ Cardinality(Sweep!Holding(m)) = 0 /\ Sweep!Through(m) = 0 /\ got.hits[m] = 0
      BY <2>1, <2>2
    <3> QED BY <3>1
  <2> QED BY SweepFinite, <2>3 DEF Sweep!Counted
<1>4. Sweep!ReportedOnce /\ Sweep!HitsFirst /\ Sweep!EndLast /\ Sweep!Whole
  <2>1. DOMAIN out = {} /\ ended = "waiting" /\ got.end = "none"
        /\ \A k \in Kind : got.kinds[k] = 0 /\ pc[k] = "queued"
    BY DEF Sweep!Init
  <2> QED BY <2>1 DEF Sweep!ReportedOnce, Sweep!HitsFirst, Sweep!EndLast, Sweep!Whole, Sweep!Reports
<1>5. ~stopped
  BY DEF Sweep!Init
<1> QED BY <1>1, <1>2, <1>3, <1>4, <1>5 DEF Sweep!Inv, Sweep!Attended

LEMMA SweepTyped == Sweep!TypeOK /\ [Sweep!Next]_sweepVars => Sweep!TypeOK'
<1> SUFFICES ASSUME Sweep!TypeOK, [Sweep!Next]_sweepVars PROVE Sweep!TypeOK'
  OBVIOUS
<1>1. ASSUME NEW k \in Kind, Sweep!Admit(k) \/ Sweep!Leave(k) PROVE Sweep!TypeOK'
  BY <1>1 DEF Sweep!TypeOK, Sweep!Admit, Sweep!Leave, Sweep!Goto, Sweep!shared
<1>2. ASSUME NEW k \in Kind, Sweep!List(k) PROVE Sweep!TypeOK'
  <2>1. CASE \E a \in Answer :
          /\ rows' = [rows EXCEPT ![k] = a] /\ Sweep!Goto(k, "rows")
          /\ listed' = [listed EXCEPT ![k] = [exact |-> Sweep!Exact(a), failed |-> FALSE, cut |-> FALSE]]
    <3>1. PICK a \in Answer :
            /\ rows' = [rows EXCEPT ![k] = a] /\ Sweep!Goto(k, "rows")
            /\ listed' = [listed EXCEPT ![k] = [exact |-> Sweep!Exact(a), failed |-> FALSE, cut |-> FALSE]]
      BY <2>1
    <3>2. [exact |-> Sweep!Exact(a), failed |-> FALSE, cut |-> FALSE] \in Sweep!Result /\ a \in Seq(Sweep!Match)
      BY SweepExact DEF Sweep!Result
    <3> QED BY <1>2, <3>1, <3>2 DEF Sweep!TypeOK, Sweep!List, Sweep!Goto, Sweep!shared
  <2>2. CASE ~\E a \in Answer :
          /\ rows' = [rows EXCEPT ![k] = a] /\ Sweep!Goto(k, "rows")
          /\ listed' = [listed EXCEPT ![k] = [exact |-> Sweep!Exact(a), failed |-> FALSE, cut |-> FALSE]]
    <3>1. [exact |-> 0, failed |-> TRUE, cut |-> FALSE] \in Sweep!Result
      BY DEF Sweep!Result
    <3>2. /\ Sweep!Goto(k, "leaving") /\ UNCHANGED <<rows, sent, scattered, capped, stopped, left, out, ended, got>>
          /\ listed' = listed \/ listed' = [listed EXCEPT ![k] = [exact |-> 0, failed |-> TRUE, cut |-> FALSE]]
      BY <1>2, <2>2 DEF Sweep!List, Sweep!shared
    <3>3. pc' \in [Kind -> {"queued", "listing", "rows", "exact", "scattered", "leaving", "done", "gone"}]
      BY <3>2 DEF Sweep!TypeOK, Sweep!Goto
    <3>4. listed' \in [Kind -> Sweep!Result]
      BY <3>1, <3>2 DEF Sweep!TypeOK
    <3> QED BY <3>2, <3>3, <3>4 DEF Sweep!TypeOK
  <2> QED BY <2>1, <2>2
<1>3. ASSUME NEW k \in Kind, Sweep!Row(k) PROVE Sweep!TypeOK'
  <2>1. CASE rows[k] = <<>>
    BY <1>3, <2>1 DEF Sweep!TypeOK, Sweep!Row, Sweep!Goto, Sweep!shared
  <2>2. CASE rows[k] # <<>>
    <3> DEFINE m == Head(rows[k])
    <3>1. m \in Sweep!Match /\ Tail(rows[k]) \in Seq(Sweep!Match)
      BY <2>2, HeadTailProperties DEF Sweep!TypeOK
    <3>2. rows' = [rows EXCEPT ![k] = Tail(rows[k])] /\ UNCHANGED <<left, out, ended, got, listed>>
      BY <1>3, <2>2 DEF Sweep!Row
    <3>3. rows' \in [Kind -> Seq(Sweep!Match)]
      BY <3>1, <3>2 DEF Sweep!TypeOK
    <3>4. \/ capped' = TRUE /\ stopped' = TRUE /\ Sweep!Goto(k, "leaving") /\ UNCHANGED <<sent, scattered>>
          \/ UNCHANGED <<pc, Sweep!shared>>
          \/ Sweep!Count(m) /\ Sweep!Goto(k, IF left THEN "leaving" ELSE m)
      BY <1>3, <2>2 DEF Sweep!Row
    <3> HIDE DEF m
    <3>5. sent' \in Nat /\ scattered' \in 0 .. sent' /\ capped' \in BOOLEAN /\ stopped' \in BOOLEAN
      <4>1. sent \in Nat /\ scattered \in 0 .. sent
        BY DEF Sweep!TypeOK
      <4>2. CASE Sweep!Count(m)
        <5>1. sent' = sent + 1 /\ capped' = capped /\ stopped' = stopped
              /\ (scattered' = scattered + 1 \/ scattered' = scattered)
          BY <4>2 DEF Sweep!Count
        <5> QED BY <4>1, <5>1 DEF Sweep!TypeOK
      <4>3. CASE ~Sweep!Count(m)
        <5>1. sent' = sent /\ scattered' = scattered /\ capped' \in {capped, TRUE} /\ stopped' \in {stopped, TRUE}
          BY <3>4, <4>3 DEF Sweep!shared
        <5> QED BY <4>1, <5>1 DEF Sweep!TypeOK
      <4> QED BY <4>2, <4>3
    <3>6. pc' \in [Kind -> {"queued", "listing", "rows", "exact", "scattered", "leaving", "done", "gone"}]
      BY <3>1, <3>4 DEF Sweep!TypeOK, Sweep!Goto, Sweep!Match, Sweep!shared
    <3> QED BY <3>2, <3>3, <3>5, <3>6 DEF Sweep!TypeOK
  <2> QED BY <2>1, <2>2
<1>4. ASSUME NEW k \in Kind, NEW e \in Sweep!Event, Sweep!Room, out' = Append(out, e)
      PROVE  out' \in Seq(Sweep!Event) /\ Len(out') <= Buf
  BY <1>4, SweepSent DEF Sweep!Room
<1>5. ASSUME NEW k \in Kind, Sweep!Send(k) \/ Sweep!ReportKind(k) PROVE Sweep!TypeOK'
  <2>1. out' \in Seq(Sweep!Event) /\ Len(out') <= Buf
    <3>1. [type |-> "hit", match |-> pc[k]] \in Sweep!Event \/ ~Sweep!Send(k)
      BY SweepEvents DEF Sweep!Send
    <3>2. [type |-> "kind", kind |-> k, failed |-> listed[k].failed] \in Sweep!Event
      <4>1. listed[k] \in Sweep!Result
        BY DEF Sweep!TypeOK
      <4> QED BY <4>1, SweepEvents DEF Sweep!Result
    <3>3. \/ UNCHANGED out
          \/ Sweep!Send(k) /\ Sweep!Room /\ out' = Append(out, [type |-> "hit", match |-> pc[k]])
          \/ Sweep!Room /\ out' = Append(out, [type |-> "kind", kind |-> k, failed |-> listed[k].failed])
      BY <1>5 DEF Sweep!Send, Sweep!ReportKind
    <3> QED BY <1>4, <3>1, <3>2, <3>3 DEF Sweep!TypeOK
  <2>2. pc' \in [Kind -> {"queued", "listing", "rows", "exact", "scattered", "leaving", "done", "gone"}]
        /\ UNCHANGED <<rows, sent, scattered, capped, stopped, left, ended, got, listed>>
    BY <1>5 DEF Sweep!TypeOK, Sweep!Send, Sweep!ReportKind, Sweep!Goto, Sweep!shared
  <2> QED BY <2>1, <2>2 DEF Sweep!TypeOK
<1>6. ASSUME Sweep!Wait \/ Sweep!WalkAway PROVE Sweep!TypeOK'
  BY <1>6 DEF Sweep!TypeOK, Sweep!Wait, Sweep!WalkAway
<1>7. ASSUME Sweep!End PROVE Sweep!TypeOK'
  <2>1. out' \in Seq(Sweep!Event) /\ Len(out') <= Buf
    <3>1. [type |-> "end", capped |-> capped] \in Sweep!Event
      BY SweepEvents DEF Sweep!TypeOK
    <3> QED BY <1>7, <3>1, SweepSent DEF Sweep!TypeOK, Sweep!End, Sweep!Room
  <2> QED BY <1>7, <2>1 DEF Sweep!TypeOK, Sweep!End
<1>8. ASSUME Sweep!Receive PROVE Sweep!TypeOK'
  <2>1. out' \in Seq(Sweep!Event) /\ Len(out') <= Buf /\ Head(out) \in Sweep!Event
    BY <1>8, SweepTaken DEF Sweep!TypeOK, Sweep!Receive
  <2>2. got' \in [hits : [Sweep!Match -> Nat], kinds : [Kind -> Nat], end : {"none", "all", "capped"}]
    <3> DEFINE e == Head(out)
    <3>1. e \in Sweep!Event /\ got' = Sweep!Fold(e)
      BY <1>8, <2>1 DEF Sweep!Receive
    <3> HIDE DEF e
    <3>2. CASE e.type = "hit"
      <4>1. got' = [got EXCEPT !.hits[e.match] = @ + 1] /\ e.match \in Sweep!Match
        BY <3>1, <3>2, SweepEvents DEF Sweep!Fold
      <4>2. /\ got'.hits = [got.hits EXCEPT ![e.match] = @ + 1] /\ got'.kinds = got.kinds /\ got'.end = got.end
            /\ got' = [hits |-> got'.hits, kinds |-> got'.kinds, end |-> got'.end]
        BY <4>1 DEF Sweep!TypeOK
      <4>3. got'.hits \in [Sweep!Match -> Nat]
        BY <4>1, <4>2 DEF Sweep!TypeOK
      <4> QED BY <4>2, <4>3 DEF Sweep!TypeOK
    <3>3. CASE e.type = "kind"
      <4>1. got' = [got EXCEPT !.kinds[e.kind] = @ + 1] /\ e.kind \in Kind
        BY <3>1, <3>3, SweepEvents DEF Sweep!Fold
      <4>2. /\ got'.kinds = [got.kinds EXCEPT ![e.kind] = @ + 1] /\ got'.hits = got.hits /\ got'.end = got.end
            /\ got' = [hits |-> got'.hits, kinds |-> got'.kinds, end |-> got'.end]
        BY <4>1 DEF Sweep!TypeOK
      <4>3. got'.kinds \in [Kind -> Nat]
        BY <4>1, <4>2 DEF Sweep!TypeOK
      <4> QED BY <4>2, <4>3 DEF Sweep!TypeOK
    <3>4. CASE e.type = "end"
      <4>1. got' = [got EXCEPT !.end = IF e.capped THEN "capped" ELSE "all"]
        BY <3>1, <3>4 DEF Sweep!Fold
      <4> QED BY <4>1 DEF Sweep!TypeOK
    <3> QED BY <3>1, <3>2, <3>3, <3>4, SweepEvents
  <2> QED BY <1>8, <2>1, <2>2 DEF Sweep!TypeOK, Sweep!Receive, Sweep!shared
<1>9. CASE UNCHANGED sweepVars
  BY <1>9 DEF Sweep!TypeOK, sweepVars
<1> QED BY <1>1, <1>2, <1>3, <1>5, <1>6, <1>7, <1>8, <1>9 DEF Sweep!Next, Sweep!Sweep

LEMMA SweepUnderCap ==
  ASSUME Sweep!TypeOK, Sweep!UnderCap, [Sweep!Next]_sweepVars
  PROVE  Sweep!UnderCap'
<1>1. CASE UNCHANGED <<sent, scattered, capped>>
  BY <1>1 DEF Sweep!UnderCap
<1>2. CASE ~UNCHANGED <<sent, scattered, capped>>
  <2>1. PICK k \in Kind : Sweep!Row(k)
    BY <1>2 DEF Sweep!Next, Sweep!Sweep, sweepVars, Sweep!shared, Sweep!Admit, Sweep!List, Sweep!Send, Sweep!Leave, Sweep!ReportKind, Sweep!Wait, Sweep!End, Sweep!Receive, Sweep!WalkAway
  <2> DEFINE m == Head(rows[k])
  <2>2. sent \in Nat /\ scattered \in 0 .. sent
    BY DEF Sweep!TypeOK
  <2>3. \/ Sweep!AtCap /\ capped' = TRUE /\ sent' = sent /\ scattered' = scattered
        \/ ~Sweep!AtCap /\ ~Sweep!Spent(m) /\ Sweep!Count(m)
    BY <1>2, <2>1 DEF Sweep!Row, Sweep!shared
  <2> HIDE DEF m
  <2>4. CASE Sweep!AtCap /\ capped' = TRUE /\ sent' = sent /\ scattered' = scattered
    BY <2>2, <2>4 DEF Sweep!UnderCap, Sweep!AtCap
  <2>5. CASE ~Sweep!AtCap /\ ~Sweep!Spent(m) /\ Sweep!Count(m)
    <3>1. sent' = sent + 1 /\ capped' = capped
          /\ scattered' = IF m = "scattered" THEN scattered + 1 ELSE scattered
      BY <2>5 DEF Sweep!Count
    <3>2. Limit > 0 => sent < Limit /\ (m = "scattered" => scattered < Sweep!ScatteredLimit)
      BY <2>2, <2>5, SweepLimit DEF Sweep!AtCap, Sweep!Spent
    <3>3. ~capped
      BY <2>2, <3>2 DEF Sweep!UnderCap
    <3>4. Limit > 0 => sent' <= Limit
      BY <2>2, <3>1, <3>2, SweepLimit
    <3>5. Limit > 0 => scattered' <= Sweep!ScatteredLimit
      BY <2>2, <3>1, <3>2, SweepLimit DEF Sweep!UnderCap
    <3> QED BY <3>1, <3>3, <3>4, <3>5 DEF Sweep!UnderCap
  <2> QED BY <2>3, <2>4, <2>5
<1> QED BY <1>1, <1>2

(* A step that sends nothing, takes nothing and lets nothing through.       *)
Quiet ==
  /\ UNCHANGED <<sent, scattered, out, got>>
  /\ \A k \in Kind : pc'[k] = pc[k] \/ (pc[k] \notin Sweep!Match /\ pc'[k] \notin Sweep!Match /\ pc[k] # "gone" /\ pc'[k] # "gone")

(* What a step does to the channel while the reader is there.               *)
LEMMA SweepSteps ==
  ASSUME Sweep!TypeOK, ~left, [Sweep!Next]_sweepVars, ~left'
  PROVE  \/ Quiet
         \/ \E k \in Kind, m \in Sweep!Match :
              /\ pc[k] = "rows" /\ Sweep!Goto(k, m) /\ Sweep!Count(m) /\ UNCHANGED <<out, ended, got, listed>>
         \/ \E k \in Kind : Sweep!Send(k) \/ Sweep!ReportKind(k)
         \/ Sweep!End \/ Sweep!Receive
<1>1. ASSUME NEW k \in Kind, Sweep!Admit(k) \/ Sweep!List(k) \/ Sweep!Leave(k) PROVE Quiet
  <2>1. UNCHANGED <<sent, scattered, out, got>> /\ pc[k] \in {"queued", "listing", "leaving"}
    BY <1>1 DEF Sweep!Admit, Sweep!List, Sweep!Leave, Sweep!shared
  <2>2. \E x \in {"listing", "rows", "leaving", "done"} : Sweep!Goto(k, x)
    BY <1>1 DEF Sweep!Admit, Sweep!List, Sweep!Leave
  <2> QED BY <2>1, <2>2 DEF Quiet, Sweep!Goto, Sweep!Match, Sweep!TypeOK
<1>2. ASSUME NEW k \in Kind, Sweep!Row(k)
      PROVE  \/ Quiet
             \/ \E m \in Sweep!Match : /\ pc[k] = "rows" /\ Sweep!Goto(k, m) /\ Sweep!Count(m)
                                       /\ UNCHANGED <<out, ended, got, listed>>
  <2>1. pc[k] = "rows" /\ UNCHANGED <<out, ended, got, listed>>
    BY <1>2 DEF Sweep!Row
  <2>2. CASE Sweep!Goto(k, "leaving") /\ UNCHANGED <<sent, scattered>>
    BY <2>1, <2>2 DEF Quiet, Sweep!Goto, Sweep!Match, Sweep!TypeOK
  <2>3. CASE UNCHANGED <<pc, sent, scattered>>
    BY <2>1, <2>3 DEF Quiet
  <2>4. CASE rows[k] # <<>> /\ Sweep!Count(Head(rows[k])) /\ Sweep!Goto(k, Head(rows[k]))
    <3>1. Head(rows[k]) \in Sweep!Match
      BY <2>4, HeadTailProperties DEF Sweep!TypeOK
    <3> QED BY <2>1, <2>4, <3>1
  <2> QED BY <1>2, <2>2, <2>3, <2>4 DEF Sweep!Row, Sweep!shared
<1>3. CASE Sweep!Wait \/ UNCHANGED sweepVars
  BY <1>3 DEF Quiet, Sweep!Wait, sweepVars
<1>4. CASE Sweep!WalkAway
  BY <1>4 DEF Sweep!WalkAway
<1> QED BY <1>1, <1>2, <1>3, <1>4 DEF Sweep!Next, Sweep!Sweep

LEMMA SweepCounts ==
  ASSUME Sweep!TypeOK, Sweep!Counted, ~left, [Sweep!Next]_sweepVars, ~left'
  PROVE  Sweep!Counted'
<1> SUFFICES ASSUME NEW m \in Sweep!Match
             PROVE  got'.hits[m] + Cardinality(Sweep!Flying(m)') + Cardinality(Sweep!Holding(m)') = Sweep!Through(m)'
  BY SweepFinite DEF Sweep!Counted
<1>1. /\ got.hits[m] + Cardinality(Sweep!Flying(m)) + Cardinality(Sweep!Holding(m)) = Sweep!Through(m)
      /\ got.hits[m] \in Nat /\ IsFiniteSet(Sweep!Flying(m)) /\ IsFiniteSet(Sweep!Holding(m))
      /\ Cardinality(Sweep!Flying(m)) \in Nat /\ Cardinality(Sweep!Holding(m)) \in Nat
      /\ sent \in Nat /\ scattered \in Nat
  BY SweepFinite, SweepSets DEF Sweep!Counted, Sweep!TypeOK
<1>2. UNCHANGED pc => Sweep!Holding(m)' = Sweep!Holding(m)
  BY DEF Sweep!Holding
<1>3. ASSUME Quiet PROVE got'.hits[m] + Cardinality(Sweep!Flying(m)') + Cardinality(Sweep!Holding(m)') = Sweep!Through(m)'
  <2>1. Sweep!Holding(m)' = Sweep!Holding(m)
    BY <1>3 DEF Sweep!Holding, Quiet
  <2>2. Sweep!Flying(m)' = Sweep!Flying(m) /\ Sweep!Through(m)' = Sweep!Through(m) /\ got' = got
    BY <1>3 DEF Sweep!Flying, Sweep!Through, Quiet
  <2> QED BY <1>1, <2>1, <2>2
<1>4. ASSUME NEW k \in Kind, NEW n \in Sweep!Match, pc[k] = "rows", Sweep!Goto(k, n), Sweep!Count(n), UNCHANGED <<out, got>>
      PROVE got'.hits[m] + Cardinality(Sweep!Flying(m)') + Cardinality(Sweep!Holding(m)') = Sweep!Through(m)'
  <2>1. Sweep!Flying(m)' = Sweep!Flying(m) /\ got' = got
    BY <1>4 DEF Sweep!Flying
  <2>2. CASE m = n
    <3>1. Sweep!Holding(m)' = Sweep!Holding(m) \cup {k} /\ k \notin Sweep!Holding(m)
      BY <1>4, <2>2 DEF Sweep!Holding, Sweep!Goto, Sweep!TypeOK, Sweep!Match
    <3>2. Cardinality(Sweep!Holding(m)') = Cardinality(Sweep!Holding(m)) + 1
      BY <1>1, <3>1, FS_AddElement
    <3>3. Sweep!Through(m)' = Sweep!Through(m) + 1
      BY <1>1, <1>4, <2>2 DEF Sweep!Through, Sweep!Count, Sweep!Match
    <3> HIDE DEF Sweep!Through
    <3> QED BY <1>1, <2>1, <3>2, <3>3
  <2>3. CASE m # n
    <3>1. Sweep!Holding(m)' = Sweep!Holding(m)
      BY <1>4, <2>3 DEF Sweep!Holding, Sweep!Goto, Sweep!TypeOK, Sweep!Match
    <3>2. Sweep!Through(m)' = Sweep!Through(m)
      BY <1>1, <1>4, <2>3 DEF Sweep!Through, Sweep!Count, Sweep!Match
    <3> QED BY <1>1, <2>1, <3>1, <3>2
  <2> QED BY <2>2, <2>3
<1>5. ASSUME NEW e \in Sweep!Event, out' = Append(out, e)
      PROVE  IF e.type = "hit" /\ e.match = m
             THEN Cardinality(Sweep!Flying(m)') = Cardinality(Sweep!Flying(m)) + 1
             ELSE Sweep!Flying(m)' = Sweep!Flying(m)
  <2>1. CASE e.type = "hit" /\ e.match = m
    <3>1. Sweep!Flying(m)' = Sweep!Flying(m) \cup {Len(out) + 1} /\ Len(out) + 1 \notin Sweep!Flying(m)
      BY <1>5, <2>1, SweepSent DEF Sweep!Flying
    <3> DEFINE n == Len(out) + 1
    <3>2. Sweep!Flying(m)' = Sweep!Flying(m) \cup {n} /\ n \notin Sweep!Flying(m)
      BY <3>1
    <3> HIDE DEF n
    <3>3. Cardinality(Sweep!Flying(m)') = Cardinality(Sweep!Flying(m)) + 1
      BY <1>1, <3>2, FS_AddElement
    <3> QED BY <2>1, <3>3
  <2>2. CASE ~(e.type = "hit" /\ e.match = m)
    BY <1>5, <2>2, SweepSent DEF Sweep!Flying
  <2> QED BY <2>1, <2>2
<1>6. ASSUME NEW k \in Kind, Sweep!Send(k)
      PROVE got'.hits[m] + Cardinality(Sweep!Flying(m)') + Cardinality(Sweep!Holding(m)') = Sweep!Through(m)'
  <2> DEFINE e == [type |-> "hit", match |-> pc[k]]
  <2>1. pc[k] \in Sweep!Match /\ e \in Sweep!Event /\ out' = Append(out, e) /\ Sweep!Goto(k, "rows")
        /\ Sweep!Through(m)' = Sweep!Through(m) /\ got'.hits[m] = got.hits[m]
    BY <1>6, SweepEvents DEF Sweep!Send, Sweep!Through, Sweep!shared
  <2> HIDE DEF e
  <2>2. CASE pc[k] = m
    <3>1. Sweep!Holding(m)' = Sweep!Holding(m) \ {k} /\ k \in Sweep!Holding(m)
      BY <2>1, <2>2 DEF Sweep!Holding, Sweep!Goto, Sweep!TypeOK, Sweep!Match
    <3>2. Cardinality(Sweep!Holding(m)') = Cardinality(Sweep!Holding(m)) - 1
      <4>1. Cardinality(Sweep!Holding(m) \ {k}) = IF k \in Sweep!Holding(m) THEN Cardinality(Sweep!Holding(m)) - 1 ELSE Cardinality(Sweep!Holding(m))
        BY <1>1, FS_RemoveElement
      <4> QED BY <3>1, <4>1
    <3>3. Cardinality(Sweep!Flying(m)') = Cardinality(Sweep!Flying(m)) + 1
      BY <1>5, <2>1, <2>2 DEF e
    <3>4. got.hits[m] + (Cardinality(Sweep!Flying(m)) + 1) + (Cardinality(Sweep!Holding(m)) - 1) = Sweep!Through(m)
      BY <1>1
    <3> QED BY <2>1, <3>2, <3>3, <3>4
  <2>3. CASE pc[k] # m
    <3>1. Sweep!Holding(m)' = Sweep!Holding(m)
      BY <2>1, <2>3 DEF Sweep!Holding, Sweep!Goto, Sweep!TypeOK, Sweep!Match
    <3>2. Sweep!Flying(m)' = Sweep!Flying(m)
      BY <1>5, <2>1, <2>3 DEF e
    <3> QED BY <1>1, <2>1, <3>1, <3>2
  <2> QED BY <2>2, <2>3
<1>7. ASSUME NEW k \in Kind, Sweep!ReportKind(k)
      PROVE got'.hits[m] + Cardinality(Sweep!Flying(m)') + Cardinality(Sweep!Holding(m)') = Sweep!Through(m)'
  <2> DEFINE e == [type |-> "kind", kind |-> k, failed |-> listed[k].failed]
  <2>1. out' = Append(out, e) /\ e.type = "kind" /\ pc[k] = "done" /\ Sweep!Goto(k, "gone")
        /\ Sweep!Through(m)' = Sweep!Through(m) /\ got' = got
    BY <1>7 DEF Sweep!ReportKind, Sweep!Through, Sweep!shared
  <2>2. e \in Sweep!Event
    <3>1. listed[k] \in Sweep!Result
      BY DEF Sweep!TypeOK
    <3> QED BY <3>1, SweepEvents DEF Sweep!Result
  <2>3. Sweep!Flying(m)' = Sweep!Flying(m)
    BY <1>5, <2>1, <2>2
  <2>4. Sweep!Holding(m)' = Sweep!Holding(m)
    BY <2>1 DEF Sweep!Holding, Sweep!Goto, Sweep!TypeOK, Sweep!Match
  <2> QED BY <1>1, <2>1, <2>3, <2>4
<1>8. ASSUME Sweep!End PROVE got'.hits[m] + Cardinality(Sweep!Flying(m)') + Cardinality(Sweep!Holding(m)') = Sweep!Through(m)'
  <2> DEFINE e == [type |-> "end", capped |-> capped]
  <2>1. out' = Append(out, e) /\ e.type = "end" /\ e \in Sweep!Event
        /\ Sweep!Through(m)' = Sweep!Through(m) /\ got' = got /\ pc' = pc
    BY <1>8, SweepEvents DEF Sweep!End, Sweep!Through, Sweep!TypeOK
  <2>2. Sweep!Flying(m)' = Sweep!Flying(m)
    BY <1>5, <2>1
  <2> QED BY <1>1, <1>2, <2>1, <2>2
<1>9. ASSUME Sweep!Receive PROVE got'.hits[m] + Cardinality(Sweep!Flying(m)') + Cardinality(Sweep!Holding(m)') = Sweep!Through(m)'
  <2> DEFINE e == out[1]
  <2>1. e \in Sweep!Event /\ got' = Sweep!Fold(e) /\ pc' = pc /\ Sweep!Through(m)' = Sweep!Through(m)
    BY <1>9, SweepTaken DEF Sweep!Receive, Sweep!Through, Sweep!shared
  <2>2. Sweep!Flying(m)' = {i - 1 : i \in Sweep!Flying(m) \ {1}}
    <3>1. DOMAIN out' = 1 .. Len(out) - 1 /\ DOMAIN out = 1 .. Len(out) /\ Len(out) \in Nat \ {0}
          /\ \A i \in DOMAIN out' : out'[i] = out[i + 1]
      BY <1>9, SweepTaken DEF Sweep!Receive
    <3>2. ASSUME NEW i, i \in Sweep!Flying(m)' PROVE i \in {j - 1 : j \in Sweep!Flying(m) \ {1}}
      <4>1. i \in 1 .. Len(out) - 1 /\ out[i + 1].type = "hit" /\ out[i + 1].match = m
        BY <3>1, <3>2 DEF Sweep!Flying
      <4>2. i + 1 \in Sweep!Flying(m) \ {1} /\ i = (i + 1) - 1
        BY <3>1, <4>1 DEF Sweep!Flying
      <4> QED BY <4>2
    <3>3. ASSUME NEW j \in Sweep!Flying(m) \ {1} PROVE j - 1 \in Sweep!Flying(m)'
      <4>1. j \in 2 .. Len(out) /\ out[j].type = "hit" /\ out[j].match = m
        BY <3>1, <3>3 DEF Sweep!Flying
      <4>2. j - 1 \in DOMAIN out' /\ out'[j - 1] = out[j]
        BY <3>1, <4>1
      <4> QED BY <4>1, <4>2 DEF Sweep!Flying
    <3> QED BY <3>2, <3>3
  <2>3. 1 \in Sweep!Flying(m) <=> e.type = "hit" /\ e.match = m
    BY <1>9, SweepTaken DEF Sweep!Flying, Sweep!Receive
  <2>4. Cardinality(Sweep!Flying(m)') = Cardinality(Sweep!Flying(m) \ {1}) /\ IsFiniteSet(Sweep!Flying(m) \ {1})
    <3>1. IsFiniteSet(Sweep!Flying(m) \ {1}) /\ Sweep!Flying(m) \ {1} \subseteq Nat
      <4>1. Sweep!Flying(m) \subseteq Nat
        BY SweepSets DEF Sweep!Flying
      <4> QED BY <1>1, <4>1, FS_RemoveElement
    <3> QED BY <2>2, <3>1, SweepShift
  <2>5. Cardinality(Sweep!Flying(m) \ {1}) = IF 1 \in Sweep!Flying(m) THEN Cardinality(Sweep!Flying(m)) - 1 ELSE Cardinality(Sweep!Flying(m))
    BY <1>1, FS_RemoveElement
  <2> HIDE DEF e
  <2>6. got'.hits[m] = IF e.type = "hit" /\ e.match = m THEN got.hits[m] + 1 ELSE got.hits[m]
    <3>1. CASE e.type = "hit"
      <4>1. got' = [got EXCEPT !.hits[e.match] = @ + 1] /\ e.match \in Sweep!Match
        BY <2>1, <3>1, SweepEvents DEF Sweep!Fold
      <4>2. got'.hits = [got.hits EXCEPT ![e.match] = @ + 1] /\ got.hits \in [Sweep!Match -> Nat]
        BY <4>1 DEF Sweep!TypeOK
      <4> QED BY <3>1, <4>1, <4>2
    <3>2. CASE e.type = "kind"
      <4>1. got' = [got EXCEPT !.kinds[e.kind] = @ + 1]
        BY <2>1, <3>2 DEF Sweep!Fold
      <4> QED BY <3>2, <4>1 DEF Sweep!TypeOK
    <3>3. CASE e.type = "end"
      <4>1. got' = [got EXCEPT !.end = IF e.capped THEN "capped" ELSE "all"]
        BY <2>1, <3>3 DEF Sweep!Fold
      <4> QED BY <3>3, <4>1 DEF Sweep!TypeOK
    <3> QED BY <2>1, <3>1, <3>2, <3>3, SweepEvents
  <2>7. Sweep!Holding(m)' = Sweep!Holding(m)
    BY <1>2, <2>1
  <2> QED BY <1>1, <2>1, <2>3, <2>4, <2>5, <2>6, <2>7
<1> QED BY <1>3, <1>4, <1>6, <1>7, <1>8, <1>9, SweepSteps

(* A step that leaves the channel, the reader and who is gone as they are.  *)
Still == UNCHANGED <<out, got>> /\ \A k \in Kind : pc'[k] = "gone" <=> pc[k] = "gone"

LEMMA SweepKinds ==
  ASSUME Sweep!TypeOK, ~left, [Sweep!Next]_sweepVars, ~left'
  PROVE  \/ Still
         \/ \E k \in Kind : Sweep!Send(k) \/ Sweep!ReportKind(k)
         \/ Sweep!End \/ Sweep!Receive
<1>1. Quiet => Still
  BY DEF Quiet, Still
<1>2. ASSUME NEW k \in Kind, NEW m \in Sweep!Match, pc[k] = "rows", Sweep!Goto(k, m), UNCHANGED <<out, got>>
      PROVE  Still
  BY <1>2 DEF Still, Sweep!Goto, Sweep!Match, Sweep!TypeOK
<1> QED BY <1>1, <1>2, SweepSteps

(* The events themselves.                                                   *)
LEMMA SweepSend ==
  ASSUME Sweep!TypeOK, ~left, NEW k \in Kind, Sweep!Send(k)
  PROVE  \E e \in Sweep!Event : /\ e.type = "hit" /\ out' = Append(out, e) /\ got' = got
                                /\ pc[k] # "gone" /\ \A j \in Kind : pc'[j] = "gone" <=> pc[j] = "gone"
<1> DEFINE e == [type |-> "hit", match |-> pc[k]]
<1>1. pc[k] \in Sweep!Match /\ out' = Append(out, e) /\ Sweep!Goto(k, "rows") /\ got' = got
  BY DEF Sweep!Send
<1>2. e \in Sweep!Event /\ e.type = "hit"
  BY <1>1, SweepEvents
<1> HIDE DEF e
<1>3. pc[k] # "gone" /\ \A j \in Kind : pc'[j] = "gone" <=> pc[j] = "gone"
  BY <1>1 DEF Sweep!Goto, Sweep!TypeOK, Sweep!Match
<1> QED BY <1>1, <1>2, <1>3

LEMMA SweepReport ==
  ASSUME Sweep!TypeOK, ~left, NEW k \in Kind, Sweep!ReportKind(k)
  PROVE  \E e \in Sweep!Event : /\ e.type = "kind" /\ e.kind = k /\ out' = Append(out, e) /\ got' = got
                                /\ pc[k] = "done" /\ pc'[k] = "gone" /\ \A j \in Kind \ {k} : pc'[j] = pc[j]
<1> DEFINE e == [type |-> "kind", kind |-> k, failed |-> listed[k].failed]
<1>1. pc[k] = "done" /\ out' = Append(out, e) /\ Sweep!Goto(k, "gone") /\ got' = got
  BY DEF Sweep!ReportKind
<1>2. e \in Sweep!Event /\ e.type = "kind" /\ e.kind = k
  <2>1. listed[k] \in Sweep!Result
    BY DEF Sweep!TypeOK
  <2> QED BY <2>1, SweepEvents DEF Sweep!Result
<1> HIDE DEF e
<1>3. pc'[k] = "gone" /\ \A j \in Kind \ {k} : pc'[j] = pc[j]
  BY <1>1 DEF Sweep!Goto, Sweep!TypeOK
<1> QED BY <1>1, <1>2, <1>3

LEMMA SweepEnding ==
  ASSUME Sweep!TypeOK, ~left, Sweep!End
  PROVE  \E e \in Sweep!Event : /\ e.type = "end" /\ e.capped = capped /\ out' = Append(out, e)
                                /\ ended = "ending" /\ ended' = "closed" /\ UNCHANGED <<pc, got, capped>>
<1> DEFINE e == [type |-> "end", capped |-> capped]
<1>1. out' = Append(out, e) /\ ended = "ending" /\ ended' = "closed" /\ UNCHANGED <<pc, got, capped>>
  BY DEF Sweep!End
<1>2. e \in Sweep!Event /\ e.type = "end" /\ e.capped = capped
  BY SweepEvents DEF Sweep!TypeOK
<1> HIDE DEF e
<1> QED BY <1>1, <1>2

LEMMA SweepFold ==
  ASSUME Sweep!TypeOK, Sweep!Receive
  PROVE  LET e == out[1] IN
         /\ e \in Sweep!Event /\ UNCHANGED <<pc, ended, capped, listed, sent, scattered, left, stopped>>
         /\ e.type = "hit" => /\ got'.hits = [got.hits EXCEPT ![e.match] = @ + 1]
                              /\ got'.kinds = got.kinds /\ got'.end = got.end
         /\ e.type = "kind" => /\ got'.kinds = [got.kinds EXCEPT ![e.kind] = @ + 1]
                               /\ got'.hits = got.hits /\ got'.end = got.end
         /\ e.type = "end" => /\ got'.end = IF e.capped THEN "capped" ELSE "all"
                              /\ got'.hits = got.hits /\ got'.kinds = got.kinds
<1> DEFINE e == out[1]
<1>1. e \in Sweep!Event /\ got' = Sweep!Fold(e) /\ UNCHANGED <<pc, ended, capped, listed, sent, scattered, left, stopped>>
  BY SweepTaken DEF Sweep!Receive, Sweep!shared
<1> HIDE DEF e
<1>2. CASE e.type = "hit"
  <2>1. got' = [got EXCEPT !.hits[e.match] = @ + 1]
    BY <1>1, <1>2 DEF Sweep!Fold
  <2> QED BY <1>1, <1>2, <2>1 DEF Sweep!TypeOK, e
<1>3. CASE e.type = "kind"
  <2>1. got' = [got EXCEPT !.kinds[e.kind] = @ + 1]
    BY <1>1, <1>3 DEF Sweep!Fold
  <2> QED BY <1>1, <1>3, <2>1 DEF Sweep!TypeOK, e
<1>4. CASE e.type = "end"
  <2>1. got' = [got EXCEPT !.end = IF e.capped THEN "capped" ELSE "all"]
    BY <1>1, <1>4 DEF Sweep!Fold
  <2> QED BY <1>1, <1>4, <2>1 DEF Sweep!TypeOK, e
<1> QED BY <1>1, <1>2, <1>3, <1>4, SweepEvents DEF e

(* Where a kind's reports stand after a step of the channel.                *)
LEMMA SweepReportsSent ==
  ASSUME Sweep!TypeOK, NEW e \in Sweep!Event, out' = Append(out, e), NEW k \in Kind
  PROVE  /\ Sweep!Reports(k) \subseteq 1 .. Len(out)
         /\ Sweep!Reports(k)' = IF e.type = "kind" /\ e.kind = k THEN Sweep!Reports(k) \cup {Len(out) + 1} ELSE Sweep!Reports(k)
<1>1. CASE e.type = "kind" /\ e.kind = k
  BY <1>1, SweepSent DEF Sweep!Reports
<1>2. CASE ~(e.type = "kind" /\ e.kind = k)
  BY <1>2, SweepSent DEF Sweep!Reports
<1>3. Sweep!Reports(k) \subseteq 1 .. Len(out)
  BY SweepSent DEF Sweep!Reports
<1> QED BY <1>1, <1>2, <1>3

LEMMA SweepReportsTaken ==
  ASSUME Sweep!TypeOK, out # <<>>, out' = Tail(out), NEW k \in Kind
  PROVE  /\ \A i \in Sweep!Reports(k) \ {1} : i - 1 \in Sweep!Reports(k)'
         /\ \A i \in Sweep!Reports(k)' : i \in Nat \ {0} /\ i + 1 \in Sweep!Reports(k)
         /\ 1 \in Sweep!Reports(k) <=> out[1].type = "kind" /\ out[1].kind = k
         /\ Sweep!Reports(k) \subseteq Nat \ {0}
<1>1. DOMAIN out' = 1 .. Len(out) - 1 /\ DOMAIN out = 1 .. Len(out) /\ Len(out) \in Nat \ {0}
      /\ \A i \in DOMAIN out' : out'[i] = out[i + 1]
  BY SweepTaken
<1>2. ASSUME NEW i \in Sweep!Reports(k) \ {1} PROVE i - 1 \in Sweep!Reports(k)'
  <2>1. i \in 2 .. Len(out) /\ out[i].type = "kind" /\ out[i].kind = k
    BY <1>1, <1>2 DEF Sweep!Reports
  <2>2. i - 1 \in DOMAIN out' /\ out'[i - 1] = out[i]
    BY <1>1, <2>1
  <2> QED BY <2>1, <2>2 DEF Sweep!Reports
<1>3. ASSUME NEW i \in Sweep!Reports(k)' PROVE i \in Nat \ {0} /\ i + 1 \in Sweep!Reports(k)
  <2>1. i \in 1 .. Len(out) - 1 /\ out[i + 1].type = "kind" /\ out[i + 1].kind = k
    BY <1>1, <1>3 DEF Sweep!Reports
  <2>2. i + 1 \in DOMAIN out
    BY <1>1, <2>1
  <2> QED BY <1>1, <2>1, <2>2 DEF Sweep!Reports
<1>4. 1 \in Sweep!Reports(k) <=> out[1].type = "kind" /\ out[1].kind = k
  BY <1>1 DEF Sweep!Reports
<1>5. Sweep!Reports(k) \subseteq Nat \ {0}
  BY <1>1 DEF Sweep!Reports
<1> QED BY <1>2, <1>3, <1>4, <1>5

LEMMA SweepReported ==
  ASSUME Sweep!TypeOK, Sweep!ReportedOnce, ~left, [Sweep!Next]_sweepVars, ~left'
  PROVE  Sweep!ReportedOnce'
<1> DEFINE Once(k) == IF pc[k] = "gone"
                      THEN \/ got.kinds[k] = 1 /\ Sweep!Reports(k) = {}
                           \/ got.kinds[k] = 0 /\ \E i \in DOMAIN out : Sweep!Reports(k) = {i}
                      ELSE got.kinds[k] = 0 /\ Sweep!Reports(k) = {}
           OnceNext(k) == IF pc'[k] = "gone"
                          THEN \/ got'.kinds[k] = 1 /\ Sweep!Reports(k)' = {}
                               \/ got'.kinds[k] = 0 /\ \E i \in DOMAIN out' : Sweep!Reports(k)' = {i}
                          ELSE got'.kinds[k] = 0 /\ Sweep!Reports(k)' = {}
<1> SUFFICES ASSUME NEW k \in Kind PROVE OnceNext(k)
  BY DEF Sweep!ReportedOnce
<1>1. Once(k)
  BY DEF Sweep!ReportedOnce
<1>2. CASE Still
  <2>1. Sweep!Reports(k)' = Sweep!Reports(k) /\ got' = got /\ out' = out /\ (pc'[k] = "gone" <=> pc[k] = "gone")
    BY <1>2 DEF Still, Sweep!Reports
  <2> QED BY <1>1, <2>1
<1>3. ASSUME NEW e \in Sweep!Event, out' = Append(out, e), got' = got, e.type # "kind" \/ e.kind # k,
             pc'[k] = "gone" <=> pc[k] = "gone"
      PROVE  OnceNext(k)
  <2>1. Sweep!Reports(k)' = Sweep!Reports(k)
    BY <1>3, SweepReportsSent
  <2>2. \A i \in DOMAIN out : i \in DOMAIN out'
    BY <1>3, SweepSent
  <2> QED BY <1>1, <1>3, <2>1, <2>2
<1>4. ASSUME NEW j \in Kind, Sweep!Send(j) PROVE OnceNext(k)
  <2>1. PICK e \in Sweep!Event : /\ e.type = "hit" /\ out' = Append(out, e) /\ got' = got
                                 /\ \A i \in Kind : pc'[i] = "gone" <=> pc[i] = "gone"
    BY <1>4, SweepSend
  <2> HIDE DEF OnceNext
  <2> QED BY <1>3, <2>1
<1>5. ASSUME NEW j \in Kind, Sweep!ReportKind(j) PROVE OnceNext(k)
  <2>1. PICK e \in Sweep!Event : /\ e.type = "kind" /\ e.kind = j /\ out' = Append(out, e) /\ got' = got
                                 /\ pc[j] = "done" /\ pc'[j] = "gone" /\ \A i \in Kind \ {j} : pc'[i] = pc[i]
    BY <1>5, SweepReport
  <2>2. CASE j # k
    <3> HIDE DEF OnceNext
    <3> QED BY <1>3, <2>1, <2>2
  <2>3. CASE j = k
    <3>1. Sweep!Reports(k) = {} /\ got.kinds[k] = 0
      BY <1>1, <2>1, <2>3
    <3>2. Sweep!Reports(k)' = {Len(out) + 1} /\ Len(out) + 1 \in DOMAIN out'
      BY <2>1, <2>3, <3>1, SweepReportsSent, SweepSent
    <3> QED BY <2>1, <2>3, <3>1, <3>2
  <2> QED BY <2>2, <2>3
<1>6. CASE Sweep!End
  <2>1. PICK e \in Sweep!Event : e.type = "end" /\ out' = Append(out, e) /\ UNCHANGED <<pc, got>>
    BY <1>6, SweepEnding
  <2> HIDE DEF OnceNext
  <2> QED BY <1>3, <2>1
<1>7. CASE Sweep!Receive
  <2> DEFINE e == out[1]
  <2>0. out # <<>> /\ out' = Tail(out)
    BY <1>7 DEF Sweep!Receive
  <2>1. /\ e \in Sweep!Event /\ pc' = pc
        /\ e.type = "kind" => got'.kinds = [got.kinds EXCEPT ![e.kind] = @ + 1]
        /\ e.type # "kind" => got'.kinds = got.kinds
    BY <1>7, SweepFold, SweepEvents
  <2>2. /\ \A i \in Sweep!Reports(k) \ {1} : i - 1 \in Sweep!Reports(k)'
        /\ \A i \in Sweep!Reports(k)' : i \in Nat \ {0} /\ i + 1 \in Sweep!Reports(k)
        /\ 1 \in Sweep!Reports(k) <=> e.type = "kind" /\ e.kind = k
        /\ Sweep!Reports(k) \subseteq Nat \ {0}
    BY <2>0, SweepReportsTaken
  <2> HIDE DEF e
  <2>3. got.kinds \in [Kind -> Nat]
    BY DEF Sweep!TypeOK
  <2>4. CASE 1 \in Sweep!Reports(k)
    <3>1. pc[k] = "gone" /\ got.kinds[k] = 0 /\ Sweep!Reports(k) = {1}
      BY <1>1, <2>4
    <3>2. Sweep!Reports(k)' = {}
      BY <2>2, <3>1
    <3>3. got'.kinds[k] = 1
      BY <2>1, <2>2, <2>3, <2>4, <3>1
    <3> QED BY <2>1, <3>1, <3>2, <3>3
  <2>5. CASE 1 \notin Sweep!Reports(k)
    <3>1. got'.kinds[k] = got.kinds[k]
      BY <2>1, <2>2, <2>3, <2>5, SweepEvents
    <3>2. Sweep!Reports(k) = {} => Sweep!Reports(k)' = {}
      BY <2>2
    <3>3. ASSUME NEW i \in DOMAIN out, Sweep!Reports(k) = {i} PROVE \E x \in DOMAIN out' : Sweep!Reports(k)' = {x}
      <4>1. i \in Nat \ {0, 1}
        BY <2>2, <2>5, <3>3
      <4>2. Sweep!Reports(k)' = {i - 1}
        BY <2>2, <2>5, <3>3, <4>1
      <4>3. i - 1 \in DOMAIN out'
        BY <2>0, <3>3, <4>1, SweepTaken
      <4> QED BY <4>2, <4>3
    <3> QED BY <1>1, <2>1, <3>1, <3>2, <3>3
  <2> QED BY <2>4, <2>5
<1> HIDE DEF OnceNext
<1> QED BY <1>2, <1>4, <1>5, <1>6, <1>7, SweepKinds

LEMMA SweepHits ==
  ASSUME Sweep!TypeOK, Sweep!HitsFirst, ~left, [Sweep!Next]_sweepVars, ~left'
  PROVE  Sweep!HitsFirst'
<1> DEFINE First(i) == \E k \in Kind : pc'[k] # "gone" \/ \E j \in Sweep!Reports(k)' : i < j
<1> SUFFICES ASSUME NEW i \in DOMAIN out', out'[i].type = "hit" PROVE First(i)
  BY DEF Sweep!HitsFirst
<1>1. CASE Still
  <2>1. i \in DOMAIN out /\ out[i].type = "hit" /\ \A k \in Kind : Sweep!Reports(k)' = Sweep!Reports(k)
    BY <1>1 DEF Still, Sweep!Reports
  <2>2. PICK k \in Kind : pc[k] # "gone" \/ \E j \in Sweep!Reports(k) : i < j
    BY <2>1 DEF Sweep!HitsFirst
  <2> QED BY <1>1, <2>1, <2>2 DEF Still
<1>2. ASSUME NEW e \in Sweep!Event, out' = Append(out, e)
      PROVE  /\ \A k \in Kind : Sweep!Reports(k) \subseteq Sweep!Reports(k)'
             /\ i \in DOMAIN out => out[i].type = "hit"
             /\ i \notin DOMAIN out => i = Len(out) + 1 /\ e.type = "hit"
  <2>1. \A k \in Kind : Sweep!Reports(k) \subseteq Sweep!Reports(k)'
    BY <1>2, SweepReportsSent
  <2> QED BY <1>2, <2>1, SweepSent
<1>3. ASSUME NEW k \in Kind, Sweep!Send(k) PROVE First(i)
  <2>1. PICK e \in Sweep!Event : /\ e.type = "hit" /\ out' = Append(out, e) /\ pc[k] # "gone"
                                 /\ \A j \in Kind : pc'[j] = "gone" <=> pc[j] = "gone"
    BY <1>3, SweepSend
  <2> QED BY <2>1
<1>4. ASSUME NEW k \in Kind, Sweep!ReportKind(k) PROVE First(i)
  <2>1. PICK e \in Sweep!Event : /\ e.type = "kind" /\ e.kind = k /\ out' = Append(out, e)
                                 /\ pc[k] = "done" /\ pc'[k] = "gone" /\ \A j \in Kind \ {k} : pc'[j] = pc[j]
    BY <1>4, SweepReport
  <2>2. i \in DOMAIN out
    BY <1>2, <2>1
  <2>3. Len(out) + 1 \in Sweep!Reports(k)' /\ i < Len(out) + 1
    BY <2>1, <2>2, SweepReportsSent, SweepSent
  <2> QED BY <2>3
<1>5. CASE Sweep!End
  <2>1. PICK e \in Sweep!Event : e.type = "end" /\ out' = Append(out, e) /\ UNCHANGED <<pc, got>>
    BY <1>5, SweepEnding
  <2>2. i \in DOMAIN out /\ out[i].type = "hit" /\ \A k \in Kind : Sweep!Reports(k) \subseteq Sweep!Reports(k)'
    BY <1>2, <2>1
  <2>3. PICK k \in Kind : pc[k] # "gone" \/ \E j \in Sweep!Reports(k) : i < j
    BY <2>2 DEF Sweep!HitsFirst
  <2> QED BY <2>1, <2>2, <2>3
<1>6. CASE Sweep!Receive
  <2>1. out # <<>> /\ out' = Tail(out) /\ pc' = pc
    BY <1>6 DEF Sweep!Receive
  <2>2. i \in Nat \ {0} /\ i + 1 \in DOMAIN out /\ out[i + 1].type = "hit"
    BY <2>1, SweepTaken
  <2>3. PICK k \in Kind : pc[k] # "gone" \/ \E j \in Sweep!Reports(k) : i + 1 < j
    BY <2>2 DEF Sweep!HitsFirst
  <2>4. CASE pc[k] # "gone"
    BY <2>1, <2>4
  <2>5. ASSUME NEW j \in Sweep!Reports(k), i + 1 < j PROVE First(i)
    <3>1. j \in Nat \ {0}
      BY <2>1, SweepReportsTaken
    <3>2. j # 1 /\ i < j - 1
      BY <2>2, <2>5, <3>1
    <3>3. j - 1 \in Sweep!Reports(k)'
      BY <2>1, <3>2, SweepReportsTaken
    <3> QED BY <3>2, <3>3
  <2> QED BY <2>3, <2>4, <2>5
<1> HIDE DEF First
<1> QED BY <1>1, <1>3, <1>4, <1>5, <1>6, SweepKinds

(* The closing goroutine's state, and who may say that a hit was refused.   *)
LEMMA SweepCloses ==
  ASSUME Sweep!TypeOK, ~left, [Sweep!Next]_sweepVars, ~left'
  PROVE  /\ \/ ended' = ended
            \/ ended = "waiting" /\ Sweep!AllGone /\ ended' = "ending" /\ UNCHANGED <<pc, out, got>>
            \/ Sweep!End
         /\ capped' = capped \/ (capped' /\ \E k \in Kind : pc[k] = "rows")
         /\ stopped' = stopped \/ capped' \/ ended' = "closed"
         /\ Sweep!AllGone => Sweep!AllGone'
<1>1. ASSUME NEW k \in Kind, Sweep!Row(k)
      PROVE  /\ capped' = capped \/ capped'
             /\ stopped' = stopped \/ capped'
             /\ UNCHANGED ended /\ pc[k] = "rows"
  BY <1>1 DEF Sweep!Row, Sweep!Count, Sweep!shared
<1>2. ASSUME NEW k \in Kind, Sweep!Admit(k) \/ Sweep!List(k) \/ Sweep!Send(k) \/ Sweep!Leave(k) \/ Sweep!ReportKind(k)
      PROVE  UNCHANGED <<ended, capped, stopped>>
  BY <1>2 DEF Sweep!Admit, Sweep!List, Sweep!Send, Sweep!Leave, Sweep!ReportKind, Sweep!shared
<1>3. Sweep!Wait => /\ ended = "waiting" /\ Sweep!AllGone /\ ended' = "ending" /\ UNCHANGED <<pc, out, got, capped>>
                    /\ stopped' = stopped
  BY DEF Sweep!Wait, Sweep!AllGone, Sweep!TypeOK
<1>4. Sweep!End => UNCHANGED capped /\ ended' = "closed"
  BY DEF Sweep!End
<1>5. Sweep!Receive \/ UNCHANGED sweepVars => UNCHANGED <<ended, capped, stopped>>
  BY DEF Sweep!Receive, sweepVars, Sweep!shared
<1>6. Sweep!WalkAway => left'
  BY DEF Sweep!WalkAway
<1>7. ASSUME Sweep!AllGone PROVE Sweep!AllGone'
  <2>1. ASSUME NEW k \in Kind, Sweep!Sweep(k) PROVE FALSE
    <3>1. pc[k] = "gone"
      BY <1>7 DEF Sweep!AllGone
    <3> QED BY <2>1, <3>1 DEF Sweep!Sweep, Sweep!Admit, Sweep!List, Sweep!Row, Sweep!Send, Sweep!Leave, Sweep!ReportKind, Sweep!Match
  <2>2. UNCHANGED pc
    BY <2>1 DEF Sweep!Next, Sweep!Wait, Sweep!End, Sweep!Receive, Sweep!WalkAway, sweepVars
  <2> QED BY <1>7, <2>2 DEF Sweep!AllGone
<1>8. CASE \E k \in Kind : Sweep!Row(k)
  BY <1>1, <1>7, <1>8
<1>9. CASE \E k \in Kind : Sweep!Admit(k) \/ Sweep!List(k) \/ Sweep!Send(k) \/ Sweep!Leave(k) \/ Sweep!ReportKind(k)
  BY <1>2, <1>7, <1>9
<1> QED BY <1>3, <1>4, <1>5, <1>6, <1>7, <1>8, <1>9 DEF Sweep!Next, Sweep!Sweep

LEMMA SweepEndLast ==
  ASSUME Sweep!TypeOK, Sweep!EndLast, Sweep!Received, ~left, [Sweep!Next]_sweepVars, ~left'
  PROVE  Sweep!EndLast'
<1> DEFINE Last == \A i \in DOMAIN out' : out'[i].type = "end" =>
                     /\ i = Len(out') /\ ended' = "closed" /\ got'.end = "none" /\ out'[i].capped = capped'
<1>1. (\E k \in Kind : pc[k] # "gone") => ended = "waiting"
  BY DEF Sweep!EndLast, Sweep!AllGone, Sweep!TypeOK
<1>2. ended # "closed" => \A i \in DOMAIN out : out[i].type # "end"
  BY DEF Sweep!EndLast
<1>3. /\ \/ ended' = ended
         \/ ended = "waiting" /\ Sweep!AllGone /\ ended' = "ending" /\ UNCHANGED <<pc, out, got>>
         \/ Sweep!End
      /\ capped' = capped \/ ended = "waiting"
      /\ Sweep!AllGone => Sweep!AllGone'
  BY <1>1, SweepCloses
<1>4. ended # "waiting" => ended' # "waiting"
  <2>1. Sweep!End => ended' = "closed"
    BY DEF Sweep!End
  <2> QED BY <1>3, <2>1
<1>5. CASE Still
  <2>1. ended = "closed" => ended' = "closed" /\ capped' = capped
    <3>1. Sweep!End => ended = "ending"
      BY DEF Sweep!End
    <3> QED BY <1>3, <3>1
  <2>2. Last
    BY <1>2, <1>5, <2>1 DEF Sweep!EndLast, Still
  <2>3. ended' # "waiting" => Sweep!AllGone'
    <3>1. Sweep!End => ended = "ending"
      BY DEF Sweep!End
    <3> QED BY <1>3, <3>1 DEF Sweep!EndLast
  <2>4. ended' # "closed" => got'.end = "none"
    BY <1>3, <1>5, <2>1 DEF Sweep!EndLast, Still
  <2> QED BY <2>2, <2>3, <2>4 DEF Sweep!EndLast
<1>6. ASSUME NEW e \in Sweep!Event, e.type # "end", out' = Append(out, e), got' = got, ended = "waiting", ended' = ended
      PROVE  Sweep!EndLast'
  <2>1. Last
    BY <1>2, <1>6, SweepSent
  <2> QED BY <1>6, <2>1 DEF Sweep!EndLast
<1>7. ASSUME NEW k \in Kind, Sweep!Send(k) \/ Sweep!ReportKind(k) PROVE Sweep!EndLast'
  <2>1. pc[k] # "gone" /\ ended' = ended
    BY <1>7 DEF Sweep!Send, Sweep!ReportKind, Sweep!Match, Sweep!shared
  <2>2. ended = "waiting"
    BY <1>1, <2>1
  <2>3. \E e \in Sweep!Event : e.type # "end" /\ out' = Append(out, e) /\ got' = got
    <3>1. CASE Sweep!Send(k)
      <4>1. PICK e \in Sweep!Event : e.type = "hit" /\ out' = Append(out, e) /\ got' = got
        BY <3>1, SweepSend
      <4> QED BY <4>1
    <3>2. CASE Sweep!ReportKind(k)
      <4>1. PICK e \in Sweep!Event : e.type = "kind" /\ out' = Append(out, e) /\ got' = got
        BY <3>2, SweepReport
      <4> QED BY <4>1
    <3> QED BY <1>7, <3>1, <3>2
  <2> QED BY <1>6, <2>1, <2>2, <2>3
<1>8. CASE Sweep!End
  <2>1. PICK e \in Sweep!Event : /\ e.type = "end" /\ e.capped = capped /\ out' = Append(out, e)
                                 /\ ended = "ending" /\ ended' = "closed" /\ UNCHANGED <<pc, got, capped>>
    BY <1>8, SweepEnding
  <2>2. got.end = "none" /\ Sweep!AllGone
    BY <2>1 DEF Sweep!EndLast
  <2>3. Last
    BY <1>2, <2>1, <2>2, SweepSent
  <2> QED BY <1>3, <2>1, <2>2, <2>3 DEF Sweep!EndLast
<1>9. CASE Sweep!Receive
  <2> DEFINE e == out[1]
  <2>1. /\ e \in Sweep!Event /\ UNCHANGED <<pc, ended, capped>> /\ out # <<>> /\ out' = Tail(out)
        /\ e.type # "end" => got'.end = got.end
    BY <1>9, SweepFold, SweepEvents DEF Sweep!Receive
  <2>2. /\ Len(out') = Len(out) - 1 /\ DOMAIN out' = 1 .. Len(out) - 1 /\ Len(out) \in Nat \ {0}
        /\ DOMAIN out = 1 .. Len(out) /\ \A i \in DOMAIN out' : out'[i] = out[i + 1]
    BY <2>1, SweepTaken
  <2>3. e.type = "end" => DOMAIN out' = {} /\ ended = "closed"
    BY <2>2 DEF Sweep!EndLast
  <2> HIDE DEF e
  <2>4. Last
    <3> SUFFICES ASSUME NEW i \in DOMAIN out', out'[i].type = "end"
                 PROVE  /\ i = Len(out') /\ ended' = "closed" /\ got'.end = "none" /\ out'[i].capped = capped'
      OBVIOUS
    <3>1. i + 1 \in DOMAIN out /\ out[i + 1].type = "end" /\ out'[i] = out[i + 1] /\ i \in Nat
      BY <2>2
    <3>2. i + 1 = Len(out) /\ ended = "closed" /\ got.end = "none" /\ out[i + 1].capped = capped
      BY <3>1 DEF Sweep!EndLast
    <3>3. e.type # "end"
      BY <2>3
    <3> QED BY <2>1, <2>2, <3>1, <3>2, <3>3
  <2>5. ended' # "waiting" => Sweep!AllGone'
    BY <2>1 DEF Sweep!EndLast, Sweep!AllGone
  <2>6. ended' # "closed" => got'.end = "none"
    BY <2>1, <2>3 DEF Sweep!EndLast
  <2> QED BY <2>4, <2>5, <2>6 DEF Sweep!EndLast
<1> QED BY <1>5, <1>7, <1>8, <1>9, SweepKinds

LEMMA SweepWhole ==
  ASSUME Sweep!TypeOK, Sweep!EndLast, ~capped => Sweep!Whole /\ (ended # "closed" => ~stopped), ~left, [Sweep!Next]_sweepVars, ~left'
  PROVE  ~capped' => Sweep!Whole' /\ (ended' # "closed" => ~stopped')
<1> SUFFICES ASSUME ~capped' PROVE Sweep!Whole' /\ (ended' # "closed" => ~stopped')
  OBVIOUS
<1>1. ~capped /\ Sweep!Whole /\ (ended # "closed" => ~stopped)
  BY SweepCloses
<1>2. ended' # "closed" => ~stopped'
  <2>1. ended = "closed" => ended' = "closed"
    BY SweepCloses DEF Sweep!End
  <2>2. ended' # "closed" => stopped' = stopped
    BY SweepCloses
  <2> QED BY <1>1, <2>1, <2>2
<1>3. Sweep!Whole'
  <2>1. (\E k \in Kind : pc[k] # "gone") => ~stopped
    BY <1>1 DEF Sweep!EndLast, Sweep!AllGone, Sweep!TypeOK
  <2>2. ASSUME NEW k \in Kind, Sweep!Sweep(k)
        PROVE  /\ \A j \in Kind \ {k} : pc'[j] = pc[j] /\ listed'[j] = listed[j]
               /\ pc'[k] \notin {"queued", "listing"} => ~listed'[k].cut
    <3>1. pc[k] # "gone"
      BY <2>2 DEF Sweep!Sweep, Sweep!Admit, Sweep!List, Sweep!Row, Sweep!Send, Sweep!Leave, Sweep!ReportKind, Sweep!Match
    <3>2. ~stopped
      BY <2>1, <3>1
    <3>3. CASE Sweep!Admit(k)
      <4>1. Sweep!Goto(k, "listing") /\ listed' = listed
        BY <3>2, <3>3 DEF Sweep!Admit
      <4> QED BY <4>1 DEF Sweep!Goto, Sweep!TypeOK
    <3>4. CASE Sweep!List(k)
      <4>1. \E x, r : /\ ~r.cut /\ listed' = [listed EXCEPT ![k] = r] /\ Sweep!Goto(k, x)
        <5>1. CASE \E a \in Answer :
                 /\ rows' = [rows EXCEPT ![k] = a] /\ Sweep!Goto(k, "rows")
                 /\ listed' = [listed EXCEPT ![k] = [exact |-> Sweep!Exact(a), failed |-> FALSE, cut |-> FALSE]]
          <6>1. PICK a \in Answer : /\ Sweep!Goto(k, "rows")
                  /\ listed' = [listed EXCEPT ![k] = [exact |-> Sweep!Exact(a), failed |-> FALSE, cut |-> FALSE]]
            BY <5>1
          <6> DEFINE r == [exact |-> Sweep!Exact(a), failed |-> FALSE, cut |-> FALSE]
          <6>2. ~r.cut
            OBVIOUS
          <6> HIDE DEF r
          <6> QED BY <6>1, <6>2 DEF r
        <5>2. CASE Sweep!Goto(k, "leaving")
                   /\ listed' = [listed EXCEPT ![k] = [exact |-> 0, failed |-> TRUE, cut |-> FALSE]]
          <6> DEFINE r == [exact |-> 0, failed |-> TRUE, cut |-> FALSE]
          <6>1. ~r.cut
            OBVIOUS
          <6> HIDE DEF r
          <6> QED BY <5>2, <6>1 DEF r
        <5> QED BY <3>2, <3>4, <5>1, <5>2 DEF Sweep!List
      <4> QED BY <4>1 DEF Sweep!Goto, Sweep!TypeOK
    <3>5. CASE Sweep!Row(k) \/ Sweep!Send(k) \/ Sweep!Leave(k) \/ Sweep!ReportKind(k)
      <4>1. listed' = listed /\ pc[k] \notin {"queued", "listing"} /\ \A j \in Kind \ {k} : pc'[j] = pc[j]
        BY <3>5 DEF Sweep!Row, Sweep!Send, Sweep!Leave, Sweep!ReportKind, Sweep!Match, Sweep!Goto, Sweep!TypeOK, Sweep!shared
      <4> QED BY <1>1, <4>1 DEF Sweep!Whole
    <3> QED BY <2>2, <3>3, <3>4, <3>5 DEF Sweep!Sweep
  <2>3. CASE Sweep!Wait \/ Sweep!End \/ Sweep!Receive \/ Sweep!WalkAway \/ UNCHANGED sweepVars
    BY <1>1, <2>3 DEF Sweep!Whole, Sweep!Wait, Sweep!End, Sweep!Receive, Sweep!WalkAway, sweepVars
  <2>4. CASE \E k \in Kind : Sweep!Sweep(k)
    BY <1>1, <2>2, <2>4 DEF Sweep!Whole
  <2> QED BY <2>3, <2>4 DEF Sweep!Next
<1> QED BY <1>2, <1>3

(* The end received: every kind was reported, and the verdict is the count. *)
LEMMA SweepVerdict ==
  ASSUME Sweep!TypeOK, Sweep!UnderCap, Sweep!Attended, Sweep!Receive, out[1].type = "end"
  PROVE  /\ out' = <<>> /\ Sweep!AllGone /\ ended = "closed" /\ \A k \in Kind : got.kinds[k] = 1
         /\ out[1].capped = capped
         /\ capped => Limit > 0 /\ Sweep!Hits = Limit /\ got.hits["scattered"] <= Sweep!ScatteredLimit
<1>1. /\ out # <<>> /\ Len(out) \in Nat \ {0} /\ DOMAIN out = 1 .. Len(out) /\ Len(out') = Len(out) - 1
      /\ out' \in Seq(Sweep!Event)
  BY SweepTaken DEF Sweep!Receive
<1>2. Len(out) = 1 /\ ended = "closed" /\ out[1].capped = capped /\ Sweep!AllGone
  BY <1>1 DEF Sweep!Attended, Sweep!EndLast
<1>3. out' = <<>>
  BY <1>1, <1>2
<1>4. ASSUME NEW k \in Kind PROVE got.kinds[k] = 1
  <2>1. pc[k] = "gone" /\ DOMAIN out = {1}
    BY <1>1, <1>2 DEF Sweep!AllGone
  <2>2. ASSUME NEW i \in DOMAIN out, Sweep!Reports(k) = {i} PROVE FALSE
    BY <2>1, <2>2 DEF Sweep!Reports
  <2> QED BY <2>1, <2>2 DEF Sweep!Attended, Sweep!ReportedOnce
<1>5. ASSUME capped PROVE Limit > 0 /\ Sweep!Hits = Limit /\ got.hits["scattered"] <= Sweep!ScatteredLimit
  <2>1. ASSUME NEW m \in Sweep!Match PROVE got.hits[m] = Sweep!Through(m) /\ got.hits[m] \in Nat
    <3>1. Sweep!Flying(m) = {} /\ Sweep!Holding(m) = {}
      BY <1>1, <1>2 DEF Sweep!Flying, Sweep!Holding, Sweep!AllGone, Sweep!Match
    <3>2. Cardinality(Sweep!Flying(m)) = 0 /\ Cardinality(Sweep!Holding(m)) = 0
      BY <3>1, FS_EmptySet
    <3>3. got.hits[m] \in Nat
      BY DEF Sweep!TypeOK
    <3>4. got.hits[m] + Cardinality(Sweep!Flying(m)) + Cardinality(Sweep!Holding(m)) = Sweep!Through(m)
      BY SweepFinite DEF Sweep!Attended, Sweep!Counted
    <3> QED BY <3>2, <3>3, <3>4
  <2>2. got.hits["exact"] = sent - scattered /\ got.hits["scattered"] = scattered
    BY <2>1 DEF Sweep!Through, Sweep!Match
  <2>3. sent \in Nat /\ scattered \in 0 .. sent /\ Limit > 0 /\ sent = Limit /\ scattered <= Sweep!ScatteredLimit
    BY <1>5 DEF Sweep!TypeOK, Sweep!UnderCap
  <2> QED BY <2>2, <2>3 DEF Sweep!Hits
<1> QED BY <1>2, <1>3, <1>4, <1>5

LEMMA SweepReceived ==
  ASSUME Sweep!Inv, [Sweep!Next]_sweepVars, ~left' => Sweep!ReportedOnce'
  PROVE  Sweep!Received'
<1>1. Sweep!TypeOK /\ Sweep!UnderCap /\ Sweep!Received /\ (~left => Sweep!Attended)
  BY DEF Sweep!Inv
<1>2. CASE got.end # "none"
  <2>1. out = <<>> /\ Sweep!AllGone /\ ended = "closed"
    BY <1>1, <1>2 DEF Sweep!Received
  <2>2. ASSUME NEW k \in Kind, Sweep!Sweep(k) PROVE FALSE
    <3>1. pc[k] = "gone"
      BY <2>1 DEF Sweep!AllGone
    <3> QED BY <2>2, <3>1 DEF Sweep!Sweep, Sweep!Admit, Sweep!List, Sweep!Row, Sweep!Send, Sweep!Leave, Sweep!ReportKind, Sweep!Match
  <2>3. UNCHANGED <<pc, out, got, ended, listed>>
    BY <2>1, <2>2 DEF Sweep!Next, Sweep!Wait, Sweep!End, Sweep!Receive, Sweep!WalkAway, sweepVars
  <2>4. Sweep!AllGone'
    BY <2>1, <2>3 DEF Sweep!AllGone
  <2> QED BY <1>1, <2>1, <2>3, <2>4 DEF Sweep!Received, Sweep!Hits
<1>3. CASE got.end = "none" /\ ~Sweep!Receive
  <2>1. got' = got
    BY <1>3 DEF Sweep!Next, Sweep!Sweep, Sweep!Admit, Sweep!List, Sweep!Row, Sweep!Send, Sweep!Leave, Sweep!ReportKind, Sweep!Wait, Sweep!End, Sweep!WalkAway, sweepVars
  <2> QED BY <1>1, <1>3, <2>1 DEF Sweep!Received
<1>4. CASE got.end = "none" /\ Sweep!Receive
  <2>0. ~left /\ ~left' /\ Sweep!TypeOK'
    BY <1>1, <1>4, SweepTyped DEF Sweep!Receive
  <2>1. \A k \in Kind : got'.kinds[k] <= 1
    BY <2>0 DEF Sweep!ReportedOnce
  <2>2. CASE out[1].type # "end"
    <3>1. got'.end = "none"
      BY <1>1, <1>4, <2>2, SweepFold, SweepEvents
    <3> QED BY <2>1, <3>1 DEF Sweep!Received
  <2>3. CASE out[1].type = "end"
    <3>1. /\ out' = <<>> /\ Sweep!AllGone /\ ended = "closed" /\ \A k \in Kind : got.kinds[k] = 1
          /\ out[1].capped = capped
          /\ capped => Limit > 0 /\ Sweep!Hits = Limit /\ got.hits["scattered"] <= Sweep!ScatteredLimit
      BY <1>1, <1>4, <2>0, <2>3, SweepVerdict
    <3>2. /\ got'.end = (IF out[1].capped THEN "capped" ELSE "all")
          /\ got'.hits = got.hits /\ got'.kinds = got.kinds /\ UNCHANGED <<pc, ended, capped, listed>>
      BY <1>1, <1>4, <2>3, SweepFold
    <3>3. Sweep!AllGone'
      BY <3>1, <3>2 DEF Sweep!AllGone
    <3>4. ~capped => \A k \in Kind : ~listed'[k].cut
      BY <1>1, <2>0, <3>1, <3>2 DEF Sweep!Attended, Sweep!Whole, Sweep!AllGone
    <3>5. capped \in BOOLEAN
      BY <1>1 DEF Sweep!TypeOK
    <3>6. CASE capped
      <4>1. got'.end = "capped"
        BY <3>1, <3>2, <3>6
      <4> QED BY <2>1, <3>1, <3>2, <3>3, <3>6, <4>1 DEF Sweep!Received, Sweep!Hits
    <3>7. CASE ~capped
      <4>1. got'.end = "all"
        BY <3>1, <3>2, <3>7
      <4> QED BY <2>1, <3>1, <3>2, <3>3, <3>4, <3>7, <4>1 DEF Sweep!Received
    <3> QED BY <3>6, <3>7
  <2> QED BY <2>2, <2>3
<1> QED BY <1>2, <1>3, <1>4

LEMMA SweepStep == Sweep!Inv /\ [Sweep!Next]_sweepVars => Sweep!Inv'
<1> SUFFICES ASSUME Sweep!Inv, [Sweep!Next]_sweepVars PROVE Sweep!Inv'
  OBVIOUS
<1>1. Sweep!TypeOK' /\ Sweep!UnderCap'
  BY SweepTyped, SweepUnderCap DEF Sweep!Inv
<1>2. left => left'
  BY DEF Sweep!Next, Sweep!Sweep, Sweep!Admit, Sweep!List, Sweep!Row, Sweep!Send, Sweep!Leave, Sweep!ReportKind, Sweep!Wait, Sweep!End, Sweep!Receive, Sweep!WalkAway, sweepVars
<1>3. ASSUME ~left' PROVE Sweep!Attended'
  <2>1. Sweep!TypeOK /\ Sweep!Attended /\ ~left /\ Sweep!Received
    BY <1>2, <1>3 DEF Sweep!Inv
  <2>2. Sweep!Counted' /\ Sweep!ReportedOnce' /\ Sweep!HitsFirst' /\ Sweep!EndLast'
    BY <1>3, <2>1, SweepCounts, SweepReported, SweepHits, SweepEndLast DEF Sweep!Attended
  <2>3. ~capped' => Sweep!Whole' /\ (ended' # "closed" => ~stopped')
    BY <1>3, <2>1, SweepWhole DEF Sweep!Attended
  <2> QED BY <2>2, <2>3 DEF Sweep!Attended
<1>4. Sweep!Received'
  BY <1>3, SweepReceived DEF Sweep!Attended
<1> QED BY <1>1, <1>3, <1>4 DEF Sweep!Inv

(* Every step is one the channel promises, or none it speaks of.            *)
LEMMA SweepPromised == Sweep!Inv /\ [Sweep!Next]_sweepVars => Sweep!Promised
<1> DEFINE done == {k \in Kind : got.kinds[k] > 0}
<1> SUFFICES ASSUME Sweep!Inv, [Sweep!Next]_sweepVars PROVE Sweep!Promised
  OBVIOUS
<1>1. Sweep!TypeOK /\ Sweep!UnderCap /\ Sweep!Received /\ (~left => Sweep!Attended)
  BY DEF Sweep!Inv
<1>2. CASE ~Sweep!Receive
  <2>1. got' = got
    BY <1>2 DEF Sweep!Next, Sweep!Sweep, Sweep!Admit, Sweep!List, Sweep!Row, Sweep!Send, Sweep!Leave, Sweep!ReportKind, Sweep!Wait, Sweep!End, Sweep!WalkAway, sweepVars
  <2> QED BY <2>1 DEF Sweep!Promised, Sweep!Channel!vars, Sweep!Hits
<1>3. CASE Sweep!Receive
  <2> DEFINE e == out[1]
  <2>0. Sweep!Attended /\ out # <<>> /\ out' = Tail(out) /\ 1 \in DOMAIN out
    BY <1>1, <1>3, SweepTaken DEF Sweep!Receive
  <2>1. /\ e \in Sweep!Event
        /\ e.type = "hit" => /\ got'.hits = [got.hits EXCEPT ![e.match] = @ + 1]
                             /\ got'.kinds = got.kinds /\ got'.end = got.end
        /\ e.type = "kind" => /\ got'.kinds = [got.kinds EXCEPT ![e.kind] = @ + 1]
                              /\ got'.hits = got.hits /\ got'.end = got.end
        /\ e.type = "end" => /\ got'.end = IF e.capped THEN "capped" ELSE "all"
                             /\ got'.hits = got.hits /\ got'.kinds = got.kinds
    BY <1>1, <1>3, SweepFold
  <2>2. /\ got.hits \in [Sweep!Match -> Nat] /\ got.kinds \in [Kind -> Nat]
        /\ got.hits["exact"] \in Nat /\ got.hits["scattered"] \in Nat
    BY <1>1 DEF Sweep!TypeOK, Sweep!Match
  <2>3. CASE e.type = "hit"
    <3>1. e.match \in Sweep!Match
      BY <2>1, <2>3, SweepEvents
    <3>2. Sweep!Hits' = Sweep!Hits + 1
      BY <2>1, <2>2, <2>3, <3>1 DEF Sweep!Hits, Sweep!Match
    <3>3. done # Kind
      <4>1. PICK k \in Kind : pc[k] # "gone" \/ \E j \in Sweep!Reports(k) : 1 < j
        BY <2>0, <2>3 DEF Sweep!Attended, Sweep!HitsFirst
      <4>2. got.kinds[k] = 0
        BY <2>0, <4>1 DEF Sweep!Attended, Sweep!ReportedOnce
      <4> QED BY <4>2
    <3>4. Limit > 0 => Sweep!Hits < Limit
      <4>1. ASSUME NEW m \in Sweep!Match PROVE got.hits[m] <= Sweep!Through(m) /\ (e.match = m => got.hits[m] < Sweep!Through(m))
        <5>1. /\ IsFiniteSet(Sweep!Flying(m)) /\ Cardinality(Sweep!Flying(m)) \in Nat /\ Cardinality(Sweep!Holding(m)) \in Nat
              /\ got.hits[m] \in Nat /\ got.hits[m] + Cardinality(Sweep!Flying(m)) + Cardinality(Sweep!Holding(m)) = Sweep!Through(m)
          BY SweepFinite, <1>1, <2>0, <2>2, SweepSets DEF Sweep!Attended, Sweep!Counted
        <5>2. e.match = m => Cardinality(Sweep!Flying(m)) # 0
          <6>1. e.match = m => 1 \in Sweep!Flying(m)
            BY <2>0, <2>3 DEF Sweep!Flying
          <6> QED BY <5>1, <6>1, FS_EmptySet
        <5> HIDE DEF e
        <5> QED BY <5>1, <5>2
      <4>2. got.hits["exact"] <= sent - scattered /\ got.hits["scattered"] <= scattered
            /\ (got.hits["exact"] < sent - scattered \/ got.hits["scattered"] < scattered)
        BY <3>1, <4>1 DEF Sweep!Through, Sweep!Match
      <4>3. sent \in Nat /\ scattered \in 0 .. sent /\ (Limit > 0 => sent <= Limit)
        BY <1>1 DEF Sweep!TypeOK, Sweep!UnderCap
      <4> QED BY <2>2, <4>2, <4>3, SweepLimit DEF Sweep!Hits
    <3>5. done' = done /\ got'.end = got.end
      BY <2>1, <2>3
    <3>6. Sweep!Channel!Hit
      BY <3>2, <3>3, <3>4, <3>5 DEF Sweep!Channel!Hit
    <3> QED BY <3>6 DEF Sweep!Promised, Sweep!Channel!Next
  <2>4. CASE e.type = "kind"
    <3>1. e.kind \in Kind /\ 1 \in Sweep!Reports(e.kind)
      BY <2>0, <2>1, <2>4, SweepEvents DEF Sweep!Reports
    <3>2. got.kinds[e.kind] = 0
      BY <2>0, <3>1 DEF Sweep!Attended, Sweep!ReportedOnce
    <3>3. done' = done \cup {e.kind} /\ e.kind \notin done
      BY <2>1, <2>2, <2>4, <3>1, <3>2
    <3>4. Sweep!Hits' = Sweep!Hits /\ got'.end = got.end
      BY <2>1, <2>4 DEF Sweep!Hits
    <3> DEFINE k == e.kind
    <3>5. k \in Kind /\ k \notin done /\ done' = done \cup {k} /\ UNCHANGED <<Sweep!Hits, got.end>>
      BY <3>1, <3>3, <3>4
    <3> HIDE DEF k, done
    <3>6. \E j \in Kind : j \notin done /\ done' = done \cup {j} /\ UNCHANGED <<Sweep!Hits, got.end>>
      BY <3>5
    <3>7. \E j \in Kind : Sweep!Channel!Report(j)
      BY <3>6 DEF Sweep!Channel!Report, done
    <3> QED BY <3>7 DEF Sweep!Promised, Sweep!Channel!Next
  <2>5. CASE e.type = "end"
    <3>1. /\ \A k \in Kind : got.kinds[k] = 1
          /\ e.capped = capped /\ (capped => Limit > 0 /\ Sweep!Hits = Limit)
      BY <1>1, <1>3, <2>0, <2>5, SweepVerdict
    <3>2. got.end = "none"
      BY <2>0, <2>5 DEF Sweep!Attended, Sweep!EndLast
    <3>3. done = Kind /\ done' = done /\ Sweep!Hits' = Sweep!Hits /\ capped \in BOOLEAN
      BY <1>1, <2>1, <2>5, <3>1 DEF Sweep!Hits, Sweep!TypeOK
    <3>4. got'.end = IF capped THEN "capped" ELSE "all"
      BY <2>1, <2>5, <3>1
    <3>5. Sweep!Channel!End(capped)
      BY <3>1, <3>2, <3>3, <3>4 DEF Sweep!Channel!End
    <3> QED BY <3>3, <3>5 DEF Sweep!Promised, Sweep!Channel!Next
  <2> QED BY <2>1, <2>3, <2>4, <2>5, SweepEvents
<1> QED BY <1>2, <1>3

LEMMA SweepPromises == Sweep!Init => Sweep!Channel!Init
<1> SUFFICES ASSUME Sweep!Init PROVE Sweep!Channel!Init
  OBVIOUS
<1>1. got = [hits |-> [m \in Sweep!Match |-> 0], kinds |-> [k \in Kind |-> 0], end |-> "none"]
  BY DEF Sweep!Init
<1>2. Sweep!Hits = 0 /\ {k \in Kind : got.kinds[k] > 0} = {} /\ got.end = "none"
  BY <1>1 DEF Sweep!Hits, Sweep!Match
<1> QED BY <1>2 DEF Sweep!Channel!Init

LEMMA SweepInv == Sweep!Inv => Sweep!TypeOK /\ Sweep!EndIsTrue
BY DEF Sweep!Inv, Sweep!Received, Sweep!EndIsTrue, Sweep!AllGone


---------------------------- (* Unhealthy *) --------------------------------
HIDE BehindAssumption DEF Sweep!FanoutAssumption
USE BehindAssumption DEF Broken!UnhealthyAssumption

LEMMA BrokenNats ==
  ASSUME Broken!TypeOK
  PROVE  /\ MaxListKeys \in Nat /\ MaxKinds \in Nat /\ ListLimit \in Nat /\ Broken!Gen = 1 .. MaxListKeys
         /\ scanGen \in 0 .. MaxListKeys /\ stream \in 0 .. MaxListKeys /\ launched \in 0 .. MaxListKeys /\ listKeys \in 0 .. MaxListKeys
         /\ launched # 0 => launched \in Broken!Gen
BY DEF Broken!TypeOK, Broken!Gen

(* A sweep cancelled sends what it would have sent.                         *)
LEMMA BrokenStopped ==
  ASSUME Broken!Inv
  PROVE  /\ Broken!Stopped(sweep) \in [Broken!Gen -> Broken!Scan]
         /\ \A g \in Broken!Gen : /\ Broken!Stopped(sweep)[g].kinds = sweep[g].kinds
                                  /\ Broken!Stopped(sweep)[g].reported = sweep[g].reported
                                  /\ Broken!Stopped(sweep)[g].sent = sweep[g].sent
                                  /\ Broken!Stopped(sweep)[g].end = sweep[g].end
                                  /\ g > launched => Broken!Stopped(sweep)[g] = sweep[g]
<1>1. sweep \in [Broken!Gen -> Broken!Scan]
  BY DEF Broken!Inv, Broken!TypeOK
<1>2. ASSUME NEW g \in Broken!Gen
      PROVE  /\ Broken!Stopped(sweep)[g] \in Broken!Scan
             /\ Broken!Stopped(sweep)[g].kinds = sweep[g].kinds
             /\ Broken!Stopped(sweep)[g].reported = sweep[g].reported
             /\ Broken!Stopped(sweep)[g].sent = sweep[g].sent
             /\ Broken!Stopped(sweep)[g].end = sweep[g].end
  <2>1. sweep[g] \in Broken!Scan
    BY <1>1
  <2>2. Broken!Stopped(sweep)[g] = IF g = stream THEN [sweep[g] EXCEPT !.cancelled = TRUE] ELSE sweep[g]
    BY DEF Broken!Stopped
  <2> QED BY <2>1, <2>2 DEF Broken!Scan
<1>3. ASSUME NEW g \in Broken!Gen, g > launched PROVE Broken!Stopped(sweep)[g] = sweep[g]
  <2>1. g # stream
    BY <1>3, BrokenNats DEF Broken!Inv, Broken!Dated
  <2> QED BY <2>1 DEF Broken!Stopped
<1>4. Broken!Stopped(sweep) \in [Broken!Gen -> Broken!Scan]
  <2>1. Broken!Stopped(sweep) = [g \in Broken!Gen |-> Broken!Stopped(sweep)[g]]
    BY <1>1 DEF Broken!Stopped
  <2> QED BY <1>2, <2>1
<1> QED BY <1>2, <1>3, <1>4

LEMMA BrokenClean == Broken!Clean \in Broken!View /\ Broken!Unswept \in Broken!Scan
<1>1. <<>> \in Seq(Broken!Gen) /\ 0 \in 0 .. MaxKinds /\ 0 \in 0 .. ListLimit
  BY DEF Broken!Gen
<1> QED BY <1>1 DEF Broken!Clean, Broken!View, Broken!Unswept, Broken!Scan

LEMMA BrokenInit == Broken!Init => Broken!Inv
<1> SUFFICES ASSUME Broken!Init PROVE Broken!Inv
  OBVIOUS
<1>2. Broken!TypeOK
  <2>1. view \in Broken!View /\ sweep \in [Broken!Gen -> Broken!Scan]
    BY BrokenClean DEF Broken!Init
  <2>2. {scanGen, stream, launched, listKeys} \subseteq 0 .. MaxListKeys
    BY DEF Broken!Init
  <2>3. pump \subseteq Broken!Gen /\ scanned \subseteq Broken!Message /\ switched \in BOOLEAN
    BY DEF Broken!Init
  <2> QED BY <2>1, <2>2, <2>3 DEF Broken!TypeOK
<1>3. view.active = FALSE /\ view.searching = FALSE
  BY DEF Broken!Init, Broken!Clean
<1>4. Broken!ToClose = 0
  BY DEF Broken!ToClose, Broken!Init
<1>5. Broken!Dated
  BY <1>3, <1>4 DEF Broken!Dated, Broken!Init
<1>6. Broken!InOrder
  BY DEF Broken!InOrder, Broken!Init, Broken!Unswept, Broken!Events
<1> QED BY <1>2, <1>3, <1>5, <1>6 DEF Broken!Inv, Broken!Following, Broken!Settled, Broken!DoneIsOneSweep

(* The list closed, by a key or by its own message.                         *)
LEMMA BrokenClose ==
  ASSUME Broken!Inv, Broken!Close, scanned' \subseteq scanned, listKeys' \in 0 .. MaxListKeys, scanGen' + Broken!ToClose' <= listKeys'
  PROVE  Broken!Inv'
<1>1. /\ scanGen' = scanGen + 1 /\ view' = [view EXCEPT !.active = FALSE] /\ stream' = 0
      /\ sweep' = Broken!Stopped(sweep) /\ UNCHANGED <<pump, launched, switched>>
  BY DEF Broken!Close
<1>2. Broken!TypeOK /\ Broken!Dated /\ Broken!InOrder
  BY DEF Broken!Inv
<1>3. view' \in Broken!View /\ ~view'.active /\ view'.total = view.total /\ view'.searching = view.searching
  BY <1>1, <1>2 DEF Broken!TypeOK, Broken!View
<1>4. Broken!ToClose' \in Nat /\ scanGen' \in 0 .. MaxListKeys
  <2>1. Broken!ToClose' \in Nat
    BY DEF Broken!ToClose
  <2> QED BY <1>1, <1>2, <2>1, BrokenNats
<1>5. Broken!TypeOK'
  BY <1>1, <1>2, <1>3, <1>4, BrokenStopped DEF Broken!TypeOK
<1>6. Broken!Dated'
  BY <1>1, <1>2, <1>3, BrokenStopped, BrokenNats DEF Broken!Dated
<1>7. Broken!InOrder'
  <2>1. \A g \in Broken!Gen : Broken!Events(g)' \subseteq Broken!Events(g)
    BY DEF Broken!Events
  <2> QED BY <1>1, <1>2, <2>1, BrokenStopped DEF Broken!InOrder
<1> QED BY <1>3, <1>5, <1>6, <1>7 DEF Broken!Inv, Broken!Following, Broken!Settled, Broken!DoneIsOneSweep

LEMMA BrokenQuit == ASSUME Broken!Inv, Broken!Quit PROVE Broken!Inv'
<1>1. Broken!Close /\ scanned' = scanned /\ listKeys' = listKeys + 1 /\ listKeys < MaxListKeys /\ scanGen' = scanGen + 1
  BY DEF Broken!Quit, Broken!Press, Broken!Close
<1>2. Broken!ToClose' = Broken!ToClose /\ Broken!ToClose \in Nat
  BY <1>1 DEF Broken!ToClose
<1>3. scanGen + Broken!ToClose <= listKeys /\ listKeys \in 0 .. MaxListKeys /\ scanGen \in 0 .. MaxListKeys /\ MaxListKeys \in Nat
  BY BrokenNats DEF Broken!Inv, Broken!Dated
<1>4. scanGen' + Broken!ToClose' <= listKeys' /\ listKeys' \in 0 .. MaxListKeys
  BY <1>1, <1>2, <1>3
<1> QED BY <1>1, <1>4, BrokenClose

LEMMA BrokenOwn == ASSUME Broken!Inv, NEW m \in scanned, Broken!HandleOwn(m) PROVE Broken!Inv'
<1>1. m \in Broken!Own /\ Broken!Close /\ scanned' = scanned \ {m} /\ listKeys' = listKeys /\ scanGen' = scanGen + 1
  BY DEF Broken!HandleOwn, Broken!Close
<1>2. m = [type |-> "closed"] \/ m = [type |-> "selected"]
  BY <1>1 DEF Broken!Own, Broken!Inv, Broken!TypeOK, Broken!Message
<1>3. Broken!ToClose' + 1 = Broken!ToClose /\ Broken!ToClose' \in Nat
  <2>1. [type |-> "closed"] # [type |-> "selected"]
    <3>1. [type |-> "closed"].type # [type |-> "selected"].type
      OBVIOUS
    <3> QED BY <3>1
  <2> QED BY <1>1, <1>2, <2>1 DEF Broken!ToClose
<1>4. scanGen + Broken!ToClose <= listKeys /\ listKeys \in 0 .. MaxListKeys /\ scanGen \in 0 .. MaxListKeys
  BY BrokenNats DEF Broken!Inv, Broken!Dated
<1>5. scanGen' + Broken!ToClose' <= listKeys'
  <2>1. Broken!ToClose = Broken!ToClose' + 1
    BY <1>3 DEF Broken!ToClose
  <2>2. scanGen' = scanGen + 1 /\ listKeys' = listKeys
    BY <1>1
  <2>3. scanGen \in Int /\ listKeys \in Int /\ Broken!ToClose' \in Int /\ scanGen + Broken!ToClose <= listKeys
    BY <1>3, <1>4
  <2>4. ASSUME NEW a \in Int, NEW b \in Int, NEW c \in Int, a + (b + 1) <= c PROVE (a + 1) + b <= c
    BY <2>4
  <2>5. scanGen + (Broken!ToClose' + 1) <= listKeys
    BY <2>1, <2>3
  <2>6. (scanGen + 1) + Broken!ToClose' <= listKeys
    BY <2>3, <2>4, <2>5
  <2> QED BY <2>2, <2>6
<1>6. listKeys' \in 0 .. MaxListKeys
  BY <1>1, <1>4
<1> QED BY <1>1, <1>5, <1>6, BrokenClose

(* An event of a sweep is none of the list's own messages.                  *)
LEMMA BrokenOwnStays ==
  ASSUME NEW A, NEW B, \A x \in (A \ B) \cup (B \ A) : x.type = "event"
  PROVE  /\ [type |-> "closed"] \in A <=> [type |-> "closed"] \in B
         /\ [type |-> "selected"] \in A <=> [type |-> "selected"] \in B
<1>1. [type |-> "closed"].type # "event" /\ [type |-> "selected"].type # "event"
  OBVIOUS
<1> QED BY <1>1

LEMMA BrokenKey == ASSUME Broken!Inv, Broken!Key \/ Broken!SwitchCluster PROVE Broken!Inv'
<1>1. /\ listKeys' = listKeys + 1 /\ listKeys' \in 0 .. MaxListKeys /\ view' = view /\ UNCHANGED <<pump, launched>>
  BY BrokenNats DEF Broken!Key, Broken!SwitchCluster, Broken!Press, Broken!Inv
<1>2. Broken!TypeOK /\ Broken!Dated /\ Broken!InOrder /\ Broken!Following /\ Broken!Settled /\ Broken!DoneIsOneSweep
  BY DEF Broken!Inv
<1>3. CASE Broken!Key
  <2>1. UNCHANGED <<view, scanGen, stream, sweep, pump, launched, switched>>
    BY <1>3 DEF Broken!Key
  <2>2. PICK t \in {"closed", "selected"} : scanned' = scanned \cup {[type |-> t]}
    BY <1>3 DEF Broken!Key
  <2>3. [type |-> t].type # "event" /\ [type |-> t] \in Broken!Message
    BY DEF Broken!Message
  <2>4. \A g : Broken!Events(g)' = Broken!Events(g)
    BY <2>2, <2>3 DEF Broken!Events
  <2>5. Broken!ToClose' <= Broken!ToClose + 1
    <3>1. [type |-> "closed"].type # [type |-> "selected"].type
      OBVIOUS
    <3>2. [type |-> "closed"] # [type |-> "selected"]
      BY <3>1
    <3> QED BY <2>2, <3>2 DEF Broken!ToClose
  <2>6. Broken!Dated'
    <3>1. Broken!ToClose \in Nat /\ Broken!ToClose' \in Nat
      BY DEF Broken!ToClose
    <3>2. scanGen' + Broken!ToClose' <= listKeys'
      BY <1>1, <1>2, <2>1, <2>5, <3>1, BrokenNats DEF Broken!Dated
    <3> QED BY <1>2, <2>1, <3>2 DEF Broken!Dated
  <2>7. Broken!TypeOK'
    BY <1>1, <1>2, <2>1, <2>2, <2>3 DEF Broken!TypeOK
  <2>8. Broken!InOrder'
    BY <1>2, <2>1, <2>4 DEF Broken!InOrder
  <2>9. Broken!Coming("hit")' = Broken!Coming("hit") /\ Broken!Coming("kind")' = Broken!Coming("kind") /\ Broken!Coming("end")' = Broken!Coming("end")
    BY <2>1, <2>4 DEF Broken!Coming
  <2>10. Broken!Following' /\ Broken!Settled'
    BY <1>2, <2>1, <2>4, <2>9 DEF Broken!Following, Broken!Settled
  <2>11. Broken!DoneIsOneSweep'
    BY <1>2, <2>1 DEF Broken!DoneIsOneSweep
  <2> QED BY <2>6, <2>7, <2>8, <2>10, <2>11 DEF Broken!Inv
<1>4. CASE Broken!SwitchCluster
  <2>1. /\ scanGen' = scanGen + 1 /\ stream' = 0 /\ sweep' = Broken!Stopped(sweep) /\ switched' = TRUE
        /\ UNCHANGED <<view, pump, scanned, launched>>
    BY <1>4 DEF Broken!SwitchCluster
  <2>2. \A g : Broken!Events(g)' = Broken!Events(g)
    BY <2>1 DEF Broken!Events
  <2>3. Broken!Dated'
    <3>1. Broken!ToClose' = Broken!ToClose /\ Broken!ToClose \in Nat
      BY <2>1 DEF Broken!ToClose
    <3>2. scanGen' + Broken!ToClose' <= listKeys' /\ launched < scanGen'
      BY <1>1, <1>2, <2>1, <3>1, BrokenNats DEF Broken!Dated
    <3> QED BY <1>2, <2>1, <3>2, BrokenStopped, BrokenNats DEF Broken!Dated
  <2>4. Broken!TypeOK'
    <3>1. scanGen' \in 0 .. MaxListKeys
      <4>1. Broken!ToClose \in Nat /\ scanGen + Broken!ToClose <= listKeys
        BY <1>2 DEF Broken!ToClose, Broken!Dated
      <4> QED BY <1>1, <1>2, <2>1, <4>1, BrokenNats
    <3> QED BY <1>1, <1>2, <2>1, <3>1, BrokenStopped DEF Broken!TypeOK
  <2>5. Broken!InOrder'
    BY <1>2, <2>1, <2>2, BrokenStopped DEF Broken!InOrder
  <2>6. Broken!Following' /\ Broken!Settled' /\ Broken!DoneIsOneSweep'
    <3>1. view.active => launched \in Broken!Gen
      BY <1>2, BrokenNats DEF Broken!Dated
    <3> QED BY <1>2, <2>1, <3>1, BrokenStopped DEF Broken!Following, Broken!Settled, Broken!DoneIsOneSweep
  <2> QED BY <2>3, <2>4, <2>5, <2>6 DEF Broken!Inv
<1> QED BY <1>3, <1>4

LEMMA BrokenOpen == ASSUME Broken!Inv, NEW n \in 0 .. MaxKinds, Broken!OpenUnhealthy(n) PROVE Broken!Inv'
<1>0. PICK g : g = scanGen + 1
  OBVIOUS
<1>1. /\ ~view.active /\ listKeys < MaxListKeys /\ listKeys' = listKeys + 1 /\ scanGen' = g
      /\ view' = [Broken!Clean EXCEPT !.active = TRUE, !.searching = n > 0, !.total = n]
      /\ launched' = g /\ switched' = FALSE /\ scanned' = scanned
  BY <1>0 DEF Broken!OpenUnhealthy, Broken!Press
<1>2. /\ n = 0 => stream' = 0 /\ sweep' = Broken!Stopped(sweep) /\ pump' = pump
      /\ n # 0 => stream' = g /\ sweep' = [Broken!Stopped(sweep) EXCEPT ![g].kinds = n] /\ pump' = pump \cup {g}
  BY <1>0 DEF Broken!OpenUnhealthy
<1>3. Broken!TypeOK /\ Broken!Dated /\ Broken!InOrder
  BY DEF Broken!Inv
<1>4. Broken!ToClose' = Broken!ToClose /\ Broken!ToClose \in Nat /\ \A x : Broken!Events(x)' = Broken!Events(x)
  BY <1>1 DEF Broken!ToClose, Broken!Events
<1>5. g \in Broken!Gen /\ g > launched /\ g # 0 /\ listKeys' \in 0 .. MaxListKeys /\ scanGen' + Broken!ToClose' <= listKeys'
  <2>1. /\ listKeys \in Int /\ scanGen \in Int /\ launched \in Int /\ scanGen + Broken!ToClose <= listKeys /\ launched <= scanGen
        /\ scanGen >= 0 /\ listKeys >= 0
    BY <1>3, BrokenNats DEF Broken!Dated
  <2>2. (scanGen + 1) + Broken!ToClose <= listKeys + 1
    BY <1>4, <2>1
  <2>3. scanGen' + Broken!ToClose' <= listKeys'
    BY <1>0, <1>1, <1>4, <2>2
  <2>4. g <= listKeys + 1 /\ listKeys + 1 <= MaxListKeys /\ g >= 1
    BY <1>0, <1>1, <1>3, <1>4, <2>1, BrokenNats
  <2>5. g \in Broken!Gen /\ listKeys' \in 0 .. MaxListKeys
    BY <1>0, <1>1, <1>3, <2>1, <2>4, BrokenNats
  <2> QED BY <1>0, <2>1, <2>3, <2>5
<1>6. view' = [active |-> TRUE, hits |-> <<>>, searching |-> n > 0, done |-> 0, total |-> n, capped |-> FALSE]
  BY <1>1 DEF Broken!Clean
<1>16. view'.searching <=> n # 0
  <2>1. view'.searching = (n > 0)
    BY Zenon, <1>6
  <2>2. (n > 0 => view'.searching) /\ (view'.searching => n > 0)
    BY Zenon, <2>1
  <2>3. n > 0 <=> n # 0
    BY BrokenNats, <1>3
  <2> QED BY <2>2, <2>3
<1>7. view' \in Broken!View
  <2>1. <<>> \in Seq(Broken!Gen) /\ 0 \in 0 .. MaxKinds /\ (n > 0) \in BOOLEAN
    BY BrokenNats, <1>3
  <2> QED BY <1>6, <2>1 DEF Broken!View
<1>8. Broken!Stopped(sweep)[g] = Broken!Unswept /\ Broken!Events(g) = {} /\ g \notin pump
  <2>1. sweep[g] = Broken!Unswept
    BY <1>3, <1>5 DEF Broken!InOrder
  <2>2. Broken!Unswept.kinds = 0
    BY DEF Broken!Unswept
  <2> QED BY <1>3, <1>5, <2>1, <2>2, BrokenStopped DEF Broken!InOrder
<1>9. sweep' \in [Broken!Gen -> Broken!Scan] /\ sweep'[g] = [Broken!Unswept EXCEPT !.kinds = n]
      /\ \A x \in Broken!Gen \ {g} : sweep'[x] = Broken!Stopped(sweep)[x]
  <2>1. [Broken!Unswept EXCEPT !.kinds = n] \in Broken!Scan
    <3>1. Broken!Unswept \in Broken!Scan
      BY BrokenClean
    <3> QED BY <3>1 DEF Broken!Scan
  <2>2. CASE n = 0
    <3>1. Broken!Unswept = [Broken!Unswept EXCEPT !.kinds = n]
      BY <2>2 DEF Broken!Unswept
    <3> QED BY <1>2, <1>8, <2>2, <3>1, BrokenStopped
  <2>3. CASE n # 0
    <3>1. sweep' = [Broken!Stopped(sweep) EXCEPT ![g] = [Broken!Unswept EXCEPT !.kinds = n]]
      BY <1>2, <1>8, <2>3
    <3> QED BY <1>5, <2>1, <3>1, BrokenStopped
  <2> QED BY <2>2, <2>3
<1>10. /\ sweep'[g].kinds = n /\ sweep'[g].reported = 0 /\ sweep'[g].sent = 0 /\ sweep'[g].end = "none"
       /\ sweep'[g].cancelled = FALSE
  BY <1>9 DEF Broken!Unswept
<1>11. Broken!TypeOK'
  <2>1. g \in 0 .. MaxListKeys /\ 0 \in 0 .. MaxListKeys
    BY <1>3, <1>5, BrokenNats
  <2>2. {scanGen', stream', launched', listKeys'} \subseteq 0 .. MaxListKeys
    BY <1>1, <1>2, <1>5, <2>1
  <2>3. pump' \subseteq Broken!Gen /\ scanned' \subseteq Broken!Message /\ switched' \in BOOLEAN
    BY <1>1, <1>2, <1>3, <1>5 DEF Broken!TypeOK
  <2> QED BY <1>7, <1>9, <2>2, <2>3 DEF Broken!TypeOK
<1>12. Broken!Dated'
  <2>1. launched' <= scanGen' /\ (view'.active => launched' # 0 /\ (scanGen' = launched' <=> ~switched'))
    BY <1>1, <1>3, <1>5, BrokenNats
  <2>2. stream' # 0 => stream' = launched' /\ view'.active /\ ~switched' /\ ~sweep'[stream'].cancelled
    BY <1>1, <1>2, <1>6, <1>10
  <2>3. launched' # 0 => view'.total = sweep'[launched'].kinds
    BY <1>1, <1>6, <1>10
  <2>4. view'.searching => view'.total > 0
    BY <1>6, <1>16
  <2> QED BY <1>5, <2>1, <2>2, <2>3, <2>4 DEF Broken!Dated
<1>13. Broken!InOrder'
  <2> SUFFICES ASSUME NEW x \in Broken!Gen
               PROVE  /\ x > launched' => sweep'[x] = Broken!Unswept
                      /\ sweep'[x].reported <= sweep'[x].kinds
                      /\ sweep'[x].end # "none" => sweep'[x].reported = sweep'[x].kinds
                      /\ x \in pump' => Broken!Events(x)' = {} /\ sweep'[x].kinds > 0
                      /\ \A a, b \in Broken!Events(x)' : a = b /\ sweep'[x].kinds > 0
    BY DEF Broken!InOrder
  <2>1. CASE x = g
    <3>1. Broken!Events(x)' = {} /\ (x \in pump' => n > 0)
      BY <1>2, <1>4, <1>8, <2>1
    <3>2. ~(x > launched')
      BY <1>1, <1>3, <2>1, BrokenNats
    <3> QED BY <1>10, <2>1, <3>1, <3>2
  <2>2. CASE x # g
    <3>1. sweep'[x] = Broken!Stopped(sweep)[x] /\ (x \in pump' => x \in pump) /\ (x > launched' => x > launched)
      BY <1>1, <1>2, <1>3, <1>5, <1>9, <2>2, BrokenNats
    <3> QED BY <1>3, <1>4, <3>1, BrokenStopped DEF Broken!InOrder
  <2> QED BY <2>1, <2>2
<1>14. Broken!Following'
  <2>1. Broken!Coming("hit")' = 0 /\ Broken!Coming("kind")' = 0
    BY <1>1, <1>4, <1>8 DEF Broken!Coming
  <2> SUFFICES ASSUME view'.searching
               PROVE  LET s == sweep'[g] IN
                      /\ stream' = g /\ (g \in pump' \/ Broken!Events(g)' # {})
                      /\ \A i \in DOMAIN view'.hits : view'.hits[i] = g
                      /\ s.sent = Len(view'.hits) + Broken!Coming("hit")' /\ s.reported = view'.done + Broken!Coming("kind")'
                      /\ s.end # "none" => Broken!Coming("end")' = 1
                      /\ \A m \in Broken!Events(g)' :
                           /\ m.event.type = "end" => s.end = IF m.event.capped THEN "capped" ELSE "all"
                           /\ m.event.type # "closed"
    <3>1. Broken!Events(launched)' = Broken!Events(g)'
      BY <1>1 DEF Broken!Events
    <3> QED BY <1>1, <3>1 DEF Broken!Following
  <2>2. n # 0
    BY <1>16
  <2>3. Len(view'.hits) = 0 /\ DOMAIN view'.hits = {} /\ view'.done = 0
    BY <1>6
  <2>4. Broken!Events(g)' = {} /\ stream' = g /\ g \in pump'
    BY <1>2, <1>4, <1>8, <2>2
  <2> QED BY <1>10, <2>1, <2>3, <2>4
<1>15. Broken!Settled' /\ Broken!DoneIsOneSweep'
  BY <1>6 DEF Broken!Settled, Broken!DoneIsOneSweep
<1> QED BY <1>11, <1>12, <1>13, <1>14, <1>15 DEF Broken!Inv

(* One receive by the pump: the event is all there is on the way.           *)
LEMMA BrokenGives ==
  ASSUME Broken!Inv, NEW g \in pump, NEW e \in Broken!Event, NEW t \in Broken!Scan,
         sweep' = [sweep EXCEPT ![g] = t], pump' = pump \ {g},
         scanned' = scanned \cup {[type |-> "event", gen |-> g, event |-> e]},
         UNCHANGED <<view, scanGen, stream, listKeys, launched, switched>>,
         t.kinds = sweep[g].kinds, t.cancelled = sweep[g].cancelled,
         t.reported <= t.kinds, t.end # "none" => t.reported = t.kinds,
         IF e.type = "closed" THEN t = sweep[g] /\ (sweep[g].end # "none" \/ sweep[g].cancelled)
         ELSE /\ sweep[g].end = "none"
              /\ t.sent = sweep[g].sent + (IF e.type = "hit" THEN 1 ELSE 0)
              /\ t.reported = sweep[g].reported + (IF e.type = "kind" THEN 1 ELSE 0)
              /\ t.end = IF e.type = "end" THEN (IF e.capped THEN "capped" ELSE "all") ELSE "none"
  PROVE  Broken!Inv'
<1>0. PICK m : m = [type |-> "event", gen |-> g, event |-> e]
  OBVIOUS
<1>1. Broken!TypeOK /\ Broken!Dated /\ Broken!InOrder /\ Broken!Following /\ Broken!Settled /\ Broken!DoneIsOneSweep
  BY DEF Broken!Inv
<1>2. g \in Broken!Gen /\ m \in Broken!Message /\ m.type = "event" /\ m.gen = g /\ m.event = e /\ scanned' = scanned \cup {m}
  BY <1>0, <1>1 DEF Broken!TypeOK, Broken!Message
<1>3. sweep' \in [Broken!Gen -> Broken!Scan] /\ sweep'[g] = t /\ \A x \in Broken!Gen \ {g} : sweep'[x] = sweep[x]
  BY <1>1, <1>2 DEF Broken!TypeOK
<1>4. Broken!TypeOK'
  BY <1>1, <1>2, <1>3 DEF Broken!TypeOK
<1>5. Broken!ToClose' = Broken!ToClose
  <2>1. [type |-> "closed"].type # m.type /\ [type |-> "selected"].type # m.type
    BY <1>2
  <2>2. [type |-> "closed"] # m /\ [type |-> "selected"] # m
    BY <2>1
  <2> QED BY <1>2, <2>2 DEF Broken!ToClose
<1>6. Broken!Events(g) = {} /\ sweep[g].kinds > 0
  BY <1>1, <1>2 DEF Broken!InOrder
<1>7. Broken!Events(g)' = {m} /\ \A x \in Broken!Gen \ {g} : Broken!Events(x)' = Broken!Events(x)
  BY <1>2, <1>6 DEF Broken!Events
<1>8. Broken!Dated'
  BY <1>1, <1>2, <1>3, <1>5, BrokenNats DEF Broken!Dated
<1>9. Broken!InOrder'
  <2> SUFFICES ASSUME NEW x \in Broken!Gen
               PROVE  /\ x > launched' => sweep'[x] = Broken!Unswept
                      /\ sweep'[x].reported <= sweep'[x].kinds
                      /\ sweep'[x].end # "none" => sweep'[x].reported = sweep'[x].kinds
                      /\ x \in pump' => Broken!Events(x)' = {} /\ sweep'[x].kinds > 0
                      /\ \A a, b \in Broken!Events(x)' : a = b /\ sweep'[x].kinds > 0
    BY DEF Broken!InOrder
  <2>1. CASE x = g
    <3>1. ~(x > launched')
      <4>1. Broken!Unswept.kinds = 0
        BY DEF Broken!Unswept
      <4> QED BY <1>1, <1>6, <2>1, <4>1 DEF Broken!InOrder
    <3> QED BY <1>3, <1>6, <1>7, <2>1, <3>1
  <2>2. CASE x # g
    BY <1>1, <1>3, <1>7, <2>2 DEF Broken!InOrder
  <2> QED BY <2>1, <2>2
<1>10. CASE launched # g
  <2>1. view.active => launched \in Broken!Gen
    BY <1>1, BrokenNats DEF Broken!Dated
  <2>2. view.active => Broken!Events(launched)' = Broken!Events(launched)
    BY <1>2, <1>10 DEF Broken!Events
  <2>3. view.active => sweep'[launched] = sweep[launched] /\ (launched \in pump' <=> launched \in pump)
    BY <1>3, <1>10, <2>1
  <2>4. view.active => Broken!Coming("hit")' = Broken!Coming("hit") /\ Broken!Coming("kind")' = Broken!Coming("kind") /\ Broken!Coming("end")' = Broken!Coming("end")
    BY <2>2 DEF Broken!Coming
  <2>5. Broken!Following'
    BY <1>1, <2>2, <2>3, <2>4 DEF Broken!Following
  <2>6. Broken!Settled' /\ Broken!DoneIsOneSweep'
    BY <1>1, <2>2, <2>3 DEF Broken!Settled, Broken!DoneIsOneSweep
  <2> QED BY <1>4, <1>8, <1>9, <2>5, <2>6 DEF Broken!Inv
<1>11. CASE launched = g
  <2>1. Broken!Events(launched)' = {m} /\ sweep'[launched] = t /\ Broken!Events(launched) = {}
    <3>1. Broken!Events(launched)' = Broken!Events(g)' /\ Broken!Events(launched) = Broken!Events(g)
      BY <1>11 DEF Broken!Events
    <3> QED BY <1>3, <1>6, <1>7, <1>11, <3>1
  <2>2. Broken!Following'
    <3> SUFFICES ASSUME view.active, ~switched, view.searching
                 PROVE  /\ stream = launched
                        /\ \A i \in DOMAIN view.hits : view.hits[i] = launched
                        /\ t.sent = Len(view.hits) + Broken!Coming("hit")' /\ t.reported = view.done + Broken!Coming("kind")'
                        /\ t.end # "none" => Broken!Coming("end")' = 1
                        /\ e.type = "end" => t.end = IF e.capped THEN "capped" ELSE "all"
                        /\ e.type # "closed"
      BY <1>2, <2>1 DEF Broken!Following
    <3>1. /\ stream = launched /\ \A i \in DOMAIN view.hits : view.hits[i] = launched
          /\ sweep[g].sent = Len(view.hits) + Broken!Coming("hit") /\ sweep[g].reported = view.done + Broken!Coming("kind")
          /\ sweep[g].end # "none" => Broken!Coming("end") = 1
      BY <1>1, <1>11 DEF Broken!Following
    <3>2. Broken!Coming("hit") = 0 /\ Broken!Coming("kind") = 0 /\ Broken!Coming("end") = 0
      BY <2>1 DEF Broken!Coming
    <3>3. ~sweep[g].cancelled /\ sweep[g].end = "none"
      BY <1>1, <1>2, <1>11, <3>1, <3>2, BrokenNats DEF Broken!Dated
    <3>4. e.type # "closed"
      BY <3>3
    <3>5. /\ Broken!Coming("hit")' = (IF e.type = "hit" THEN 1 ELSE 0)
          /\ Broken!Coming("kind")' = (IF e.type = "kind" THEN 1 ELSE 0)
          /\ Broken!Coming("end")' = (IF e.type = "end" THEN 1 ELSE 0)
      BY <1>2, <2>1 DEF Broken!Coming
    <3>6. Len(view.hits) \in Nat /\ view.done \in Nat
      BY <1>1, BrokenNats DEF Broken!TypeOK, Broken!View
    <3>7. t.sent = Len(view.hits) + Broken!Coming("hit")' /\ t.reported = view.done + Broken!Coming("kind")'
      BY <3>1, <3>2, <3>4, <3>5, <3>6
    <3> QED BY <3>1, <3>4, <3>5, <3>7
  <2>3. Broken!Settled' /\ Broken!DoneIsOneSweep'
    <3> SUFFICES ASSUME view.active, ~view.searching, view.total > 0 PROVE Broken!Settled' /\ Broken!DoneIsOneSweep'
      BY DEF Broken!Settled, Broken!DoneIsOneSweep
    <3>1. sweep[g].end # "none"
      BY <1>1, <1>11 DEF Broken!Settled
    <3>2. e.type = "closed" /\ t = sweep[g] /\ m.event.type = "closed"
      BY <1>2, <3>1
    <3>3. sweep'[launched] = sweep[launched]
      BY <1>11, <2>1, <3>2
    <3> QED BY <1>1, <2>1, <3>1, <3>2, <3>3 DEF Broken!Settled, Broken!DoneIsOneSweep
  <2> QED BY <1>4, <1>8, <1>9, <2>2, <2>3 DEF Broken!Inv
<1> QED BY <1>10, <1>11

LEMMA BrokenReceive == ASSUME Broken!Inv, NEW g \in Broken!Gen, Broken!Receive(g) PROVE Broken!Inv'
<1>0. PICK s : s = sweep[g]
  OBVIOUS
<1> DEFINE Gives(e, t) == /\ sweep' = [sweep EXCEPT ![g] = t] /\ pump' = pump \ {g}
                          /\ scanned' = scanned \cup {[type |-> "event", gen |-> g, event |-> e]}
<1>1. g \in pump /\ UNCHANGED <<view, scanGen, stream, listKeys, launched, switched>>
  BY DEF Broken!Receive
<1>2. \/ s.reported < s.kinds /\ s.sent < ListLimit /\ Gives(Broken!Ev("hit"), [s EXCEPT !.sent = @ + 1])
      \/ s.reported < s.kinds /\ Gives(Broken!Ev("kind"), [s EXCEPT !.reported = @ + 1])
      \/ /\ s.reported = s.kinds /\ s.end = "none"
         /\ \E c \in BOOLEAN : /\ c => s.sent = ListLimit
                               /\ Gives([type |-> "end", capped |-> c], [s EXCEPT !.end = IF c THEN "capped" ELSE "all"])
      \/ (s.end # "none" \/ s.cancelled) /\ Gives(Broken!Ev("closed"), s)
  BY <1>0 DEF Broken!Receive
<1>3. s \in Broken!Scan /\ s.reported <= s.kinds /\ (s.end # "none" => s.reported = s.kinds)
  BY <1>0 DEF Broken!Inv, Broken!TypeOK, Broken!InOrder
<1>4. s.kinds \in 0 .. MaxKinds /\ s.reported \in 0 .. MaxKinds /\ s.sent \in 0 .. ListLimit
      /\ MaxKinds \in Nat /\ ListLimit \in Nat
  BY <1>3, BrokenNats DEF Broken!Inv, Broken!Scan
<1>5. CASE s.reported < s.kinds /\ s.sent < ListLimit /\ Gives(Broken!Ev("hit"), [s EXCEPT !.sent = @ + 1])
  <2> DEFINE t == [s EXCEPT !.sent = @ + 1]
  <2>1. t \in Broken!Scan /\ t.sent = s.sent + 1 /\ t.kinds = s.kinds /\ t.reported = s.reported
        /\ t.end = s.end /\ t.cancelled = s.cancelled
    BY <1>3, <1>4, <1>5 DEF Broken!Scan
  <2>2. Broken!Ev("hit") \in Broken!Event /\ Broken!Ev("hit").type = "hit"
    BY DEF Broken!Ev, Broken!Event
  <2>3. s.end = "none" /\ s.reported \in Nat
    BY <1>3, <1>4, <1>5
  <2>5. /\ t.sent = s.sent + (IF Broken!Ev("hit").type = "hit" THEN 1 ELSE 0)
        /\ t.reported = s.reported + (IF Broken!Ev("hit").type = "kind" THEN 1 ELSE 0)
    BY <1>4, <2>1, <2>2
  <2>4. Gives(Broken!Ev("hit"), t)
    BY <1>5
  <2> HIDE DEF t
  <2> QED BY <1>0, <1>1, <1>3, <2>1, <2>2, <2>3, <2>4, <2>5, BrokenGives
<1>6. CASE s.reported < s.kinds /\ Gives(Broken!Ev("kind"), [s EXCEPT !.reported = @ + 1])
  <2> DEFINE t == [s EXCEPT !.reported = @ + 1]
  <2>1. t \in Broken!Scan /\ t.sent = s.sent /\ t.kinds = s.kinds /\ t.reported = s.reported + 1
        /\ t.end = s.end /\ t.cancelled = s.cancelled
    BY <1>3, <1>4, <1>6 DEF Broken!Scan
  <2>2. Broken!Ev("kind") \in Broken!Event /\ Broken!Ev("kind").type = "kind"
    BY DEF Broken!Ev, Broken!Event
  <2>3. s.end = "none" /\ t.reported <= s.kinds /\ s.sent \in Nat
    BY <1>3, <1>4, <1>6, <2>1
  <2>5. /\ t.sent = s.sent + (IF Broken!Ev("kind").type = "hit" THEN 1 ELSE 0)
        /\ t.reported = s.reported + (IF Broken!Ev("kind").type = "kind" THEN 1 ELSE 0)
    BY <1>4, <2>1, <2>2
  <2>4. Gives(Broken!Ev("kind"), t)
    BY <1>6
  <2> HIDE DEF t
  <2> QED BY <1>0, <1>1, <1>3, <2>1, <2>2, <2>3, <2>4, <2>5, BrokenGives
<1>7. ASSUME s.reported = s.kinds, s.end = "none", NEW c \in BOOLEAN,
             Gives([type |-> "end", capped |-> c], [s EXCEPT !.end = IF c THEN "capped" ELSE "all"])
      PROVE  Broken!Inv'
  <2> DEFINE t == [s EXCEPT !.end = IF c THEN "capped" ELSE "all"]
             e == [type |-> "end", capped |-> c]
  <2>1. t \in Broken!Scan /\ t.sent = s.sent /\ t.kinds = s.kinds /\ t.reported = s.reported
        /\ t.end = (IF c THEN "capped" ELSE "all") /\ t.cancelled = s.cancelled
    BY <1>3 DEF Broken!Scan
  <2>2. e \in Broken!Event /\ e.type = "end" /\ e.capped = c
    BY DEF Broken!Event
  <2>3. s.sent \in Nat /\ s.reported \in Nat
    BY <1>4
  <2>4. Gives(e, t)
    BY <1>7
  <2> HIDE DEF t, e
  <2>5. /\ t.sent = s.sent + (IF e.type = "hit" THEN 1 ELSE 0)
        /\ t.reported = s.reported + (IF e.type = "kind" THEN 1 ELSE 0)
        /\ t.end = IF e.type = "end" THEN (IF e.capped THEN "capped" ELSE "all") ELSE "none"
    BY <2>1, <2>2, <2>3
  <2>6. t.reported <= t.kinds /\ (t.end # "none" => t.reported = t.kinds)
        /\ sweep[g].end = "none" /\ t.kinds = sweep[g].kinds /\ t.cancelled = sweep[g].cancelled
        /\ t.sent = sweep[g].sent + (IF e.type = "hit" THEN 1 ELSE 0)
        /\ t.reported = sweep[g].reported + (IF e.type = "kind" THEN 1 ELSE 0)
    BY <1>0, <1>3, <1>7, <2>1, <2>5
  <2>7. e.type # "closed" /\ t \in Broken!Scan /\ e \in Broken!Event
    BY <2>1, <2>2
  <2> QED BY <1>1, <2>4, <2>5, <2>6, <2>7, BrokenGives
<1>8. CASE (s.end # "none" \/ s.cancelled) /\ Gives(Broken!Ev("closed"), s)
  <2>1. Broken!Ev("closed") \in Broken!Event /\ Broken!Ev("closed").type = "closed"
    BY DEF Broken!Ev, Broken!Event
  <2> QED BY <1>0, <1>1, <1>3, <1>8, <2>1, BrokenGives
<1> HIDE DEF Gives
<1> QED BY <1>2, <1>5, <1>6, <1>7, <1>8

LEMMA BrokenScanMsg == ASSUME Broken!Inv, NEW m \in scanned, Broken!HandleScanMsg(m) PROVE Broken!Inv'
<1>0. PICK g, e : g = m.gen /\ e = m.event
  OBVIOUS
<1>1. Broken!TypeOK /\ Broken!Dated /\ Broken!InOrder /\ Broken!Following /\ Broken!Settled /\ Broken!DoneIsOneSweep
  BY DEF Broken!Inv
<1>2. /\ m.type = "event" /\ scanned' = scanned \ {m} /\ UNCHANGED <<scanGen, listKeys, launched, switched>>
      /\ m.gen = g /\ m.event = e /\ g \in Broken!Gen /\ e \in Broken!Event
  BY <1>0, <1>1 DEF Broken!HandleScanMsg, Broken!TypeOK, Broken!Message
<1>3. Broken!ToClose' = Broken!ToClose
  <2>1. [type |-> "closed"].type # m.type /\ [type |-> "selected"].type # m.type
    BY <1>2
  <2>2. [type |-> "closed"] # m /\ [type |-> "selected"] # m
    BY <2>1
  <2> QED BY <1>2, <2>2 DEF Broken!ToClose
<1>4. /\ Broken!Events(g) = {m} /\ Broken!Events(g)' = {} /\ g \notin pump /\ sweep[g].kinds > 0 /\ ~(g > launched)
      /\ \A x \in Broken!Gen \ {g} : Broken!Events(x)' = Broken!Events(x)
  <2>1. m \in Broken!Events(g) /\ Broken!Events(g)' = Broken!Events(g) \ {m} /\ \A x \in Broken!Gen \ {g} : Broken!Events(x)' = Broken!Events(x)
    BY <1>2 DEF Broken!Events
  <2>2. Broken!Events(g) = {m} /\ g \notin pump /\ sweep[g].kinds > 0
    BY <1>1, <1>2, <2>1 DEF Broken!InOrder
  <2>3. Broken!Unswept.kinds = 0
    BY DEF Broken!Unswept
  <2> QED BY <1>1, <1>2, <2>1, <2>2, <2>3 DEF Broken!InOrder
<1>5. CASE ~Broken!Current(g)
  <2>1. UNCHANGED <<view, stream, sweep, pump>>
    BY <1>2, <1>5 DEF Broken!HandleScanMsg
  <2>2. Broken!TypeOK' /\ Broken!Dated'
    BY <1>1, <1>2, <1>3, <2>1 DEF Broken!TypeOK, Broken!Dated
  <2>3. Broken!InOrder'
    BY <1>1, <1>2, <1>4, <2>1 DEF Broken!InOrder
  <2>4. view.active /\ ~switched => Broken!Events(launched)' = Broken!Events(launched)
    <3>1. view.active /\ ~switched => launched # g
      BY <1>1, <1>5 DEF Broken!Current, Broken!Dated
    <3> QED BY <1>2, <3>1 DEF Broken!Events
  <2>5. view.active /\ ~switched =>
          Broken!Coming("hit")' = Broken!Coming("hit") /\ Broken!Coming("kind")' = Broken!Coming("kind") /\ Broken!Coming("end")' = Broken!Coming("end")
    BY <2>4 DEF Broken!Coming
  <2>6. Broken!Following' /\ Broken!Settled' /\ Broken!DoneIsOneSweep'
    BY <1>1, <1>2, <2>1, <2>4, <2>5 DEF Broken!Following, Broken!Settled, Broken!DoneIsOneSweep
  <2> QED BY <2>2, <2>3, <2>6 DEF Broken!Inv
<1>6. CASE Broken!Current(g)
  <2>1. view.active /\ scanGen = g /\ launched = g /\ ~switched /\ view.total = sweep[g].kinds /\ view.total > 0
    BY <1>1, <1>2, <1>4, <1>6, BrokenNats DEF Broken!Current, Broken!Dated
  <2>2. /\ view' = Broken!Folded(g, e)
        /\ e.type = "closed" => stream' = 0 /\ sweep' = Broken!Stopped(sweep) /\ UNCHANGED pump
        /\ e.type # "closed" => /\ pump' = IF stream = 0 THEN pump ELSE pump \cup {g}
                                /\ UNCHANGED <<stream, sweep>>
    BY <1>2, <1>6 DEF Broken!HandleScanMsg
  <2>3. Broken!Events(launched) = {m} /\ Broken!Events(launched)' = {} /\ launched' = g
    <3>1. Broken!Events(launched) = Broken!Events(g) /\ Broken!Events(launched)' = Broken!Events(g)'
      BY <1>2, <2>1 DEF Broken!Events
    <3> QED BY <1>2, <1>4, <2>1, <3>1
  <2>4. ~view.searching <=> e.type = "closed"
    BY <1>1, <1>2, <2>1, <2>3 DEF Broken!Following, Broken!Settled
  <2>5. CASE e.type = "closed"
    <3>1. view' = view
      <4>1. view' = [view EXCEPT !.searching = FALSE] /\ view \in Broken!View
        BY <1>1, <2>2, <2>5 DEF Broken!Folded, Broken!TypeOK
      <4> QED BY <2>4, <2>5, <4>1 DEF Broken!View
    <3>2. stream' = 0 /\ sweep' = Broken!Stopped(sweep) /\ pump' = pump
      BY <2>2, <2>5
    <3>3. Broken!TypeOK'
      BY <1>1, <1>2, <3>1, <3>2, BrokenStopped, BrokenNats DEF Broken!TypeOK
    <3>4. Broken!Dated'
      BY <1>1, <1>2, <1>3, <3>1, <3>2, BrokenStopped, BrokenNats DEF Broken!Dated
    <3>5. Broken!InOrder'
      BY <1>1, <1>2, <1>4, <3>2, BrokenStopped DEF Broken!InOrder
    <3>6. Broken!Following' /\ Broken!Settled' /\ Broken!DoneIsOneSweep'
      BY <1>1, <1>2, <2>1, <2>3, <2>4, <2>5, <3>1, <3>2, BrokenStopped DEF Broken!Following, Broken!Settled, Broken!DoneIsOneSweep
    <3> QED BY <3>3, <3>4, <3>5, <3>6 DEF Broken!Inv
  <2>6. CASE e.type # "closed"
    <3>1. /\ stream = g /\ \A i \in DOMAIN view.hits : view.hits[i] = g
          /\ sweep[g].sent = Len(view.hits) + Broken!Coming("hit") /\ sweep[g].reported = view.done + Broken!Coming("kind")
          /\ sweep[g].end # "none" => Broken!Coming("end") = 1
          /\ e.type = "end" => sweep[g].end = IF e.capped THEN "capped" ELSE "all"
      BY <1>1, <1>2, <2>1, <2>3, <2>4, <2>6 DEF Broken!Following
    <3>2. /\ Broken!Coming("hit") = (IF e.type = "hit" THEN 1 ELSE 0)
          /\ Broken!Coming("kind") = (IF e.type = "kind" THEN 1 ELSE 0)
          /\ Broken!Coming("end") = (IF e.type = "end" THEN 1 ELSE 0)
          /\ Broken!Coming("hit")' = 0 /\ Broken!Coming("kind")' = 0
      BY <1>2, <2>3 DEF Broken!Coming
    <3>3. pump' = pump \cup {g} /\ stream' = stream /\ sweep' = sweep
      BY <1>2, <2>2, <2>6, <3>1, BrokenNats, <1>1
    <3>4. /\ view \in Broken!View /\ view.hits \in Seq(Broken!Gen) /\ Len(view.hits) \in Nat /\ view.done \in Nat
          /\ sweep[g].reported <= sweep[g].kinds /\ sweep[g].kinds \in 0 .. MaxKinds /\ MaxKinds \in Nat
          /\ (sweep[g].end # "none" => sweep[g].reported = sweep[g].kinds)
      BY <1>1, <1>2, BrokenNats DEF Broken!TypeOK, Broken!View, Broken!Scan, Broken!InOrder
    <3>5. CASE e.type = "hit"
      <4>1. view' = [view EXCEPT !.hits = Append(@, g)]
        BY <2>2, <3>5 DEF Broken!Folded
      <4> DEFINE h == Append(view.hits, g)
      <4>2. h \in Seq(Broken!Gen) /\ Len(h) = Len(view.hits) + 1 /\ \A i \in DOMAIN h : h[i] = g
        <5>1. /\ h \in Seq(Broken!Gen) /\ Len(h) = Len(view.hits) + 1 /\ h[Len(view.hits) + 1] = g
              /\ \A i \in 1 .. Len(view.hits) : h[i] = view.hits[i]
          BY <1>2, <3>4, AppendProperties
        <5>2. DOMAIN h = 1 .. Len(view.hits) + 1 /\ DOMAIN view.hits = 1 .. Len(view.hits)
          BY <3>4, <5>1
        <5> HIDE DEF h
        <5> QED BY <3>1, <3>4, <5>1, <5>2
      <4> HIDE DEF h
      <4>3. view' \in Broken!View /\ view'.hits = h /\ view'.active = view.active /\ view'.searching = view.searching
            /\ view'.total = view.total /\ view'.done = view.done /\ view'.capped = view.capped
        BY <3>4, <4>1, <4>2 DEF Broken!View, h
      <4>4. sweep[g].end = "none" /\ sweep[g].sent = Len(h) /\ sweep[g].reported = view.done
        BY <3>1, <3>2, <3>4, <3>5, <4>2
      <4>5. Broken!TypeOK' /\ Broken!Dated'
        BY <1>1, <1>2, <1>3, <3>3, <4>3 DEF Broken!TypeOK, Broken!Dated
      <4>6. Broken!InOrder'
        BY <1>1, <1>2, <1>4, <3>3 DEF Broken!InOrder
      <4>7. Broken!Following'
        <5>1. view'.done + 0 = view'.done /\ Len(h) + 0 = Len(h)
          BY <3>4, <4>2, <4>3
        <5> QED BY <1>2, <2>1, <2>3, <3>1, <3>2, <3>3, <4>2, <4>3, <4>4, <5>1 DEF Broken!Following
      <4>8. Broken!Settled' /\ Broken!DoneIsOneSweep'
        BY <2>4, <2>6, <4>3 DEF Broken!Settled, Broken!DoneIsOneSweep
      <4> QED BY <4>5, <4>6, <4>7, <4>8 DEF Broken!Inv
    <3>6. CASE e.type = "kind"
      <4>1. view.done + 1 = sweep[g].reported /\ view.done < view.total /\ sweep[g].end = "none"
            /\ sweep[g].sent = Len(view.hits)
        BY <2>1, <3>1, <3>2, <3>4, <3>6
      <4>2. view' = [view EXCEPT !.done = IF view.total > 0 /\ @ >= view.total THEN @ ELSE @ + 1]
        BY <2>2, <3>6 DEF Broken!Folded
      <4>3. view' = [view EXCEPT !.done = @ + 1]
        BY <2>1, <3>4, <4>1, <4>2
      <4>4. view' \in Broken!View /\ view'.hits = view.hits /\ view'.active = view.active /\ view'.searching = view.searching
            /\ view'.total = view.total /\ view'.done = view.done + 1 /\ view'.capped = view.capped
        <5>1. view.done + 1 \in 0 .. MaxKinds
          BY <3>4, <4>1
        <5> QED BY <3>4, <4>3, <5>1 DEF Broken!View
      <4>5. Broken!TypeOK' /\ Broken!Dated'
        BY <1>1, <1>2, <1>3, <3>3, <4>4 DEF Broken!TypeOK, Broken!Dated
      <4>6. Broken!InOrder'
        BY <1>1, <1>2, <1>4, <3>3 DEF Broken!InOrder
      <4>7. Broken!Following'
        <5>1. view'.done + 0 = view'.done /\ Len(view.hits) + 0 = Len(view.hits)
          BY <3>4, <4>4
        <5> QED BY <1>2, <2>1, <2>3, <3>1, <3>2, <3>3, <4>1, <4>4, <5>1 DEF Broken!Following
      <4>8. Broken!Settled' /\ Broken!DoneIsOneSweep'
        BY <2>4, <2>6, <4>4 DEF Broken!Settled, Broken!DoneIsOneSweep
      <4> QED BY <4>5, <4>6, <4>7, <4>8 DEF Broken!Inv
    <3>7. CASE e.type = "end"
      <4>1. view' = [view EXCEPT !.capped = e.capped, !.searching = FALSE] /\ e.capped \in BOOLEAN
        BY <1>2, <2>2, <3>7 DEF Broken!Folded, Broken!Event
      <4>2. view' \in Broken!View /\ view'.hits = view.hits /\ view'.active = view.active /\ ~view'.searching
            /\ view'.total = view.total /\ view'.done = view.done /\ view'.capped = e.capped
        BY <3>4, <4>1 DEF Broken!View
      <4>3. sweep[g].end # "none" /\ sweep[g].sent = Len(view.hits) /\ sweep[g].reported = view.done
            /\ view.done = view.total /\ (e.capped <=> sweep[g].end = "capped")
        BY <2>1, <3>1, <3>2, <3>4, <3>7
      <4>4. Broken!TypeOK' /\ Broken!Dated'
        BY <1>1, <1>2, <1>3, <3>3, <4>2 DEF Broken!TypeOK, Broken!Dated
      <4>5. Broken!InOrder'
        BY <1>1, <1>2, <1>4, <3>3 DEF Broken!InOrder
      <4>6. Broken!Following' /\ Broken!Settled'
        BY <1>2, <2>3, <3>3, <4>2, <4>3 DEF Broken!Following, Broken!Settled
      <4>7. Broken!DoneIsOneSweep'
        <5>1. view'.capped = (sweep[g].end = "capped")
          BY <4>1, <4>2, <4>3
        <5> QED BY <1>2, <2>1, <2>3, <3>1, <3>3, <4>2, <4>3, <5>1 DEF Broken!DoneIsOneSweep
      <4> QED BY <4>4, <4>5, <4>6, <4>7 DEF Broken!Inv
    <3> QED BY <1>2, <2>6, <3>5, <3>6, <3>7 DEF Broken!Event
  <2> QED BY <2>5, <2>6
<1> QED BY <1>5, <1>6

LEMMA BrokenStep == Broken!Inv /\ [Broken!Next]_brokenVars => Broken!Inv'
<1> SUFFICES ASSUME Broken!Inv, [Broken!Next]_brokenVars PROVE Broken!Inv'
  OBVIOUS
<1>1. CASE UNCHANGED brokenVars
  <2>1. UNCHANGED <<view, scanGen, stream, sweep, pump, scanned, listKeys, launched, switched>>
    BY <1>1 DEF brokenVars
  <2>2. Broken!TypeOK' /\ Broken!Dated'
    BY <2>1 DEF Broken!Inv, Broken!TypeOK, Broken!Dated, Broken!ToClose
  <2>3. Broken!InOrder'
    BY <2>1 DEF Broken!Inv, Broken!InOrder, Broken!Events
  <2>4. Broken!Following'
    BY <2>1 DEF Broken!Inv, Broken!Following, Broken!Coming, Broken!Events
  <2>5. Broken!Settled' /\ Broken!DoneIsOneSweep'
    BY <2>1 DEF Broken!Inv, Broken!Settled, Broken!DoneIsOneSweep, Broken!Events
  <2> QED BY <2>2, <2>3, <2>4, <2>5 DEF Broken!Inv
<1> QED BY <1>1, BrokenOpen, BrokenQuit, BrokenKey, BrokenOwn, BrokenScanMsg, BrokenReceive DEF Broken!Next, Broken!HandleMessage

LEMMA BrokenInv == Broken!Inv => Broken!TypeOK /\ Broken!DoneIsOneSweep /\ Broken!ScanningMeansScanningHere
<1> SUFFICES ASSUME Broken!Inv, ~switched, view.active, view.searching
             PROVE  /\ stream = scanGen
                    /\ (stream \in pump) # (\E m \in scanned : m.type = "event" /\ m.gen = stream)
  BY DEF Broken!Inv, Broken!ScanningMeansScanningHere, Broken!ScanningMeansScanning
<1>1. stream = launched /\ launched = scanGen /\ (launched \in pump \/ Broken!Events(launched) # {}) /\ launched \in Broken!Gen
  BY BrokenNats DEF Broken!Inv, Broken!Following, Broken!Dated
<1>2. launched \in pump => Broken!Events(launched) = {}
  BY <1>1 DEF Broken!Inv, Broken!InOrder
<1>3. Broken!Events(launched) # {} <=> \E m \in scanned : m.type = "event" /\ m.gen = launched
  BY DEF Broken!Events
<1> QED BY <1>1, <1>2, <1>3


---------------------------- (* LogStream *) --------------------------------
HIDE BehindAssumption DEF Broken!UnhealthyAssumption
USE BehindAssumption DEF Stream!LogStreamAssumption

LEMMA StreamEvents ==
  /\ Stream!Error \in Stream!Event /\ Stream!Error.type = "error" /\ Stream!Nothing.type = "nothing" /\ Stream!Nothing \notin Stream!Event
  /\ \A e \in Stream!Event : e.type \in {"line", "torn", "error"} /\ (e.type = "error" => e = Stream!Error)
  /\ \A n \in Nat \ {0} : /\ [type |-> "line", at |-> n] \in Stream!Event /\ [type |-> "torn", at |-> n] \in Stream!Event
                          /\ [type |-> "line", at |-> n] \in Stream!Raw /\ [type |-> "torn", at |-> n] \in Stream!Raw
BY DEF Stream!Error, Stream!Nothing, Stream!Event, Stream!Raw

(* What is delivered: a step of the channel's ends.                         *)
LEMMA StreamDelivered ==
  ASSUME Stream!TypeOK
  PROVE  Stream!Delivered \in Seq(Stream!Event) /\ Len(Stream!Delivered) \in Nat /\ DOMAIN Stream!Delivered = 1 .. Len(Stream!Delivered)
BY DEF Stream!TypeOK, Stream!Delivered

LEMMA StreamSent ==
  ASSUME Stream!TypeOK, item \in Stream!Event, lines' = Append(lines, item), read' = read
  PROVE  /\ Len(Stream!Delivered') = Len(Stream!Delivered) + 1 /\ Stream!Delivered' \in Seq(Stream!Event)
         /\ DOMAIN Stream!Delivered' = 1 .. Len(Stream!Delivered) + 1
         /\ Stream!Delivered'[Len(Stream!Delivered) + 1] = item
         /\ \A i \in 1 .. Len(Stream!Delivered) : Stream!Delivered'[i] = Stream!Delivered[i]
<1>1. read \in Seq(Stream!Event) /\ lines \in Seq(Stream!Event) /\ <<item>> \in Seq(Stream!Event)
  BY DEF Stream!TypeOK
<1>2. Stream!Delivered' = read \o (lines \o <<item>>)
  BY <1>1, AppendIsConcat DEF Stream!Delivered
<1>3. Stream!Delivered' = Stream!Delivered \o <<item>>
  BY <1>1, <1>2, ConcatAssociative DEF Stream!Delivered
<1>4. Stream!Delivered \in Seq(Stream!Event)
  BY <1>1 DEF Stream!Delivered
<1>5. Stream!Delivered' = Append(Stream!Delivered, item)
  BY <1>3, <1>4, AppendIsConcat
<1> HIDE DEF Stream!Delivered
<1> QED BY <1>4, <1>5, AppendProperties

LEMMA StreamTaken ==
  ASSUME Stream!TypeOK, lines # <<>>, lines' = Tail(lines), read' = Append(read, Head(lines))
  PROVE  Stream!Delivered' = Stream!Delivered
<1>1. read \in Seq(Stream!Event) /\ lines \in Seq(Stream!Event) /\ Head(lines) \in Stream!Event /\ Tail(lines) \in Seq(Stream!Event)
  BY HeadTailProperties DEF Stream!TypeOK
<1>2. <<Head(lines)>> \in Seq(Stream!Event) /\ lines = <<Head(lines)>> \o Tail(lines)
  BY <1>1
<1>3. read' = read \o <<Head(lines)>>
  BY <1>1, AppendIsConcat
<1>4. Stream!Delivered' = (read \o <<Head(lines)>>) \o Tail(lines)
  BY <1>3 DEF Stream!Delivered
<1>5. (read \o <<Head(lines)>>) \o Tail(lines) = read \o (<<Head(lines)>> \o Tail(lines))
  BY <1>1, <1>2, ConcatAssociative
<1> QED BY <1>2, <1>4, <1>5 DEF Stream!Delivered

LEMMA StreamKept == ASSUME Stream!Ordered, log' = log PROVE Stream!Ordered'
BY DEF Stream!Ordered, Stream!Begins

(* Nothing the reader could tell changes.                                   *)
LEMMA StreamSame ==
  ASSUME Stream!Delivered' = Stream!Delivered
  PROVE  /\ Stream!TornSoFar' = Stream!TornSoFar /\ Stream!NoError' = Stream!NoError /\ Stream!InTurn' = Stream!InTurn
         /\ \A n : Stream!LastIs(n)' = Stream!LastIs(n)
BY DEF Stream!TornSoFar, Stream!NoError, Stream!InTurn, Stream!LastIs

LEMMA StreamLines ==
  ASSUME log \in Seq(Stream!Line)
  PROVE  /\ \A i \in 1 .. Len(log) : log[i] \in Stream!Line /\ log[i].sec \in Nat \ {0}
         /\ log # <<>> => Len(log) \in 1 .. Len(log)
<1>1. ASSUME NEW i \in 1 .. Len(log) PROVE log[i] \in Stream!Line /\ log[i].sec \in Nat \ {0}
  <2>1. log[i] \in Stream!Line
    OBVIOUS
  <2> QED BY <2>1 DEF Stream!Line
<1> QED BY <1>1

LEMMA StreamContainer ==
  ASSUME Stream!Inv, NEW step \in 0 .. 1, NEW long \in BOOLEAN, Stream!Write(step, long)
  PROVE  Stream!Inv'
<1> DEFINE l == [sec |-> Stream!Now + step, long |-> long]
<1>1. Stream!TypeOK /\ log \in Seq(Stream!Line) /\ Len(log) \in Nat /\ last \in 0 .. Len(log) /\ next \in Nat
  BY DEF Stream!Inv, Stream!TypeOK
<1>2. /\ log' = Append(log, l) /\ Len(log) < MaxLines /\ ~finished
      /\ UNCHANGED <<finished, follow, next, last, window, resuming, item, lines, gone, faults, read, midSecond>>
  BY DEF Stream!Write, Stream!resumer
<1>3. l \in Stream!Line /\ l.sec = Stream!Now + step /\ l.sec \in Nat /\ Stream!Now \in Nat
  <2>1. Stream!Now \in Nat \ {0}
    BY <1>1, StreamLines DEF Stream!Now
  <2>2. Stream!Now + step \in Nat \ {0}
    BY <2>1
  <2> QED BY <2>1, <2>2 DEF Stream!Line
<1> HIDE DEF l
<1>4. /\ log' \in Seq(Stream!Line) /\ Len(log') = Len(log) + 1 /\ log'[Len(log) + 1] = l
      /\ \A i \in 1 .. Len(log) : log'[i] = log[i]
      /\ DOMAIN log' = 1 .. Len(log) + 1 /\ DOMAIN log = 1 .. Len(log)
  BY <1>1, <1>2, <1>3, AppendProperties
<1>5. Stream!TypeOK'
  BY <1>1, <1>2, <1>4 DEF Stream!TypeOK
<1>6. \A i \in 1 .. Len(log) : Stream!Begins(i) => i = 1 \/ log'[i - 1].sec < log'[i].sec
  <2> SUFFICES ASSUME NEW i \in 1 .. Len(log), Stream!Begins(i), i # 1 PROVE log'[i - 1].sec < log'[i].sec
    BY DEF Stream!Begins
  <2>1. i - 1 \in 1 .. Len(log)
    OBVIOUS
  <2> QED BY <1>4, <2>1 DEF Stream!Begins
<1>7. \A i \in 1 .. Len(log) : log[i].sec \in Nat /\ log[i].sec <= l.sec
  <2>1. CASE Len(log) = 0
    BY <2>1
  <2>2. CASE Len(log) # 0
    <3>1. Stream!Now = log[Len(log)].sec /\ Len(log) \in 1 .. Len(log)
      BY <1>1, <2>2 DEF Stream!Now
    <3>2. \A i \in 1 .. Len(log) : log[i].sec \in Nat
      BY <1>1, StreamLines
    <3>3. \A i \in 1 .. Len(log) : log[i].sec <= log[Len(log)].sec
      BY <1>4, <3>1 DEF Stream!Inv, Stream!Ordered
    <3> QED BY <1>3, <3>1, <3>2, <3>3
  <2> QED BY <2>1, <2>2
<1>8. Stream!Ordered'
  <2>1. ASSUME NEW i \in DOMAIN log', NEW j \in DOMAIN log', i <= j PROVE log'[i].sec <= log'[j].sec
    <3>1. CASE j = Len(log) + 1 /\ i = Len(log) + 1
      BY <1>3, <1>4, <3>1 DEF Stream!Line
    <3>2. CASE j = Len(log) + 1 /\ i # Len(log) + 1
      BY <1>1, <1>4, <1>7, <2>1, <3>2
    <3>3. CASE j # Len(log) + 1
      BY <1>1, <1>4, <2>1, <3>3 DEF Stream!Inv, Stream!Ordered
    <3> QED BY <3>1, <3>2, <3>3
  <2>2. ASSUME NEW n \in DOMAIN log' PROVE \E i \in 1 .. n : log'[i].sec = log'[n].sec /\ Stream!Begins(i)'
    <3>1. CASE n # Len(log) + 1
      <4>1. n \in DOMAIN log /\ n \in 1 .. Len(log)
        BY <1>1, <1>4, <3>1
      <4>2. PICK i \in 1 .. n : log[i].sec = log[n].sec /\ Stream!Begins(i)
        BY <4>1 DEF Stream!Inv, Stream!Ordered
      <4>3. i \in 1 .. Len(log)
        BY <4>1
      <4> QED BY <1>4, <1>6, <4>1, <4>2, <4>3 DEF Stream!Begins
    <3>2. CASE n = Len(log) + 1 /\ Len(log) = 0
      <4>1. 1 \in 1 .. n /\ n = 1
        BY <3>2
      <4> QED BY <4>1 DEF Stream!Begins
    <3>3. CASE n = Len(log) + 1 /\ Len(log) # 0
      <4>1. Len(log) \in 1 .. Len(log) /\ Len(log) \in DOMAIN log /\ Stream!Now = log[Len(log)].sec
        BY <1>1, <1>4, <3>3 DEF Stream!Now
      <4>2. CASE step = 0
        <5>1. l.sec = log[Len(log)].sec
          BY <1>3, <4>1, <4>2
        <5>2. PICK i \in 1 .. Len(log) : log[i].sec = log[Len(log)].sec /\ Stream!Begins(i)
          BY <4>1 DEF Stream!Inv, Stream!Ordered
        <5>3. i \in 1 .. n
          BY <1>1, <3>3
        <5> QED BY <1>4, <1>6, <3>3, <5>1, <5>2, <5>3 DEF Stream!Begins
      <4>3. CASE step = 1
        <5>1. log'[n - 1].sec < log'[n].sec
          <6>1. n - 1 = Len(log) /\ log'[n - 1] = log[Len(log)] /\ log'[n] = l
            BY <1>1, <1>4, <3>3, <4>1
          <6> QED BY <1>3, <4>1, <4>3, <6>1
        <5>2. n \in 1 .. n
          BY <1>1, <3>3
        <5> QED BY <5>1, <5>2 DEF Stream!Begins
      <4> QED BY <4>2, <4>3
    <3> QED BY <3>1, <3>2, <3>3
  <2> QED BY <2>1, <2>2 DEF Stream!Ordered
<1>9. /\ Stream!Delivered' = Stream!Delivered /\ Stream!TornSoFar' = Stream!TornSoFar /\ Stream!NoError' = Stream!NoError /\ Stream!InTurn' = Stream!InTurn
      /\ \A n : Stream!LastIs(n)' = Stream!LastIs(n)
  <2>1. Stream!Delivered' = Stream!Delivered
    BY <1>2 DEF Stream!Delivered
  <2> QED BY <2>1, StreamSame
<1>10. Stream!Whole' = Stream!Whole
  BY <1>2, <1>9 DEF Stream!Whole
<1>11. Stream!Untaken'
  <2> SUFFICES ASSUME last = 0 PROVE Stream!Untaken'
    BY <1>2 DEF Stream!Untaken
  <2>1. next <= Len(log) /\ Stream!Begins(next) =>
          next <= Len(log') /\ (next = 1 \/ log'[next - 1].sec < log'[next].sec)
    <3>1. next \in 1 .. MaxLines + 1
      BY <1>1 DEF Stream!TypeOK
    <3>2. next <= Len(log) => next \in 1 .. Len(log) /\ next <= Len(log')
      BY <1>1, <1>4, <3>1
    <3> QED BY <1>6, <3>2
  <2>2. next' = next
    BY <1>2
  <2> QED BY <1>2, <1>9, <2>1, <2>2 DEF Stream!Inv, Stream!Untaken, Stream!Begins
<1>12. last > 0 /\ Stream!Placed => Stream!Placed'
  <2> SUFFICES ASSUME last > 0, Stream!Placed PROVE Stream!Placed'
    OBVIOUS
  <2>1. last \in 1 .. Len(log) /\ log'[last].sec = log[last].sec
    BY <1>1, <1>4
  <2>2. Stream!InWindow' = Stream!InWindow
    <3>1. \A r \in [type : {"line"}, at : 1 .. last] : log'[r.at].sec = log[r.at].sec
      BY <1>4, <2>1
    <3> QED BY <1>2, <2>1, <3>1 DEF Stream!InWindow
  <2>3. Stream!Resumes => Stream!Resumes'
    <3>1. \A i \in next .. last : i \in 1 .. Len(log)
      BY <1>1, <2>1 DEF Stream!TypeOK
    <3> QED BY <1>2, <1>4, <3>1 DEF Stream!Resumes
  <2> QED BY <1>2, <1>9, <2>1, <2>2, <2>3 DEF Stream!Placed
<1> QED BY <1>2, <1>5, <1>8, <1>9, <1>10, <1>11, <1>12 DEF Stream!Inv

(* Steps that leave the log, what was taken and what was delivered alone.   *)
LEMMA StreamQuiet ==
  ASSUME Stream!Inv, Stream!Finish \/ Stream!Backoff \/ Stream!GiveUp \/ Stream!Receive \/ Stream!Leave \/ UNCHANGED streamVars
  PROVE  Stream!Inv'
<1>1. Stream!TypeOK /\ UNCHANGED <<log, next, last, window, resuming, midSecond>>
  BY DEF Stream!Inv, Stream!Finish, Stream!Backoff, Stream!GiveUp, Stream!Receive, Stream!Leave, streamVars, Stream!resumer, Stream!world
<1>2. Stream!Delivered' = Stream!Delivered
  BY <1>1, StreamTaken DEF Stream!Finish, Stream!Backoff, Stream!GiveUp, Stream!Receive, Stream!Leave, streamVars, Stream!world, Stream!Delivered, Stream!Quiet
<1>3. /\ Stream!TornSoFar' = Stream!TornSoFar /\ Stream!NoError' = Stream!NoError /\ Stream!InTurn' = Stream!InTurn
      /\ \A n : Stream!LastIs(n)' = Stream!LastIs(n)
  BY <1>2, StreamSame
<1>4. /\ lines' \in Seq(Stream!Event) /\ Len(lines') <= LogBuf /\ read' \in Seq(Stream!Event)
      /\ lines' = lines \/ (lines # <<>> /\ lines' = Tail(lines))
  <2>1. CASE Stream!Receive
    <3>1. lines # <<>> /\ lines' = Tail(lines) /\ read' = Append(read, Head(lines))
      BY <2>1 DEF Stream!Receive
    <3>2. lines \in Seq(Stream!Event) /\ read \in Seq(Stream!Event) /\ Len(lines) <= LogBuf /\ Len(lines) \in Nat
      BY <1>1 DEF Stream!TypeOK
    <3>3. Head(lines) \in Stream!Event /\ Tail(lines) \in Seq(Stream!Event) /\ Len(Tail(lines)) = Len(lines) - 1
      BY <3>1, <3>2, HeadTailProperties
    <3>4. Append(read, Head(lines)) \in Seq(Stream!Event)
      BY <3>2, <3>3, AppendProperties
    <3>5. Len(lines) - 1 <= LogBuf
      BY <3>2
    <3> QED BY <3>1, <3>3, <3>4, <3>5
  <2>2. CASE ~Stream!Receive
    <3>1. UNCHANGED <<lines, read>>
      BY <2>2 DEF Stream!Finish, Stream!Backoff, Stream!GiveUp, Stream!Leave, streamVars, Stream!Quiet
    <3> QED BY <1>1, <3>1 DEF Stream!TypeOK
  <2> QED BY <2>1, <2>2
<1>5. /\ finished' \in BOOLEAN /\ gone' \in BOOLEAN /\ faults' \in 0 .. MaxFaults
      /\ (finished => finished') /\ (gone => gone')
  BY <1>1 DEF Stream!Finish, Stream!Backoff, Stream!GiveUp, Stream!Receive, Stream!Leave, streamVars, Stream!world, Stream!TypeOK
<1>6. \/ follow' = follow /\ item' = item
      \/ follow = "backoff" /\ follow' = "opening" /\ item' = item
      \/ follow' = "closed" /\ item' = Stream!Nothing /\ gone'
  BY DEF Stream!Finish, Stream!Backoff, Stream!GiveUp, Stream!Receive, Stream!Leave, streamVars, Stream!Quiet
<1>7. Stream!TypeOK'
  <2>1. follow' \in {"opening", "reading", "sending", "backoff", "closed"}
        /\ item' \in Stream!Event \cup {Stream!Nothing} /\ (follow' = "sending") = (item' # Stream!Nothing)
    BY <1>1, <1>6 DEF Stream!TypeOK
  <2> QED BY <1>1, <1>4, <1>5, <2>1 DEF Stream!TypeOK
<1>8. Stream!Ordered'
  BY <1>1 DEF Stream!Inv, Stream!Ordered, Stream!Begins
<1>9. Stream!Untaken'
  BY <1>1, <1>2, <1>3, <1>6 DEF Stream!Inv, Stream!Untaken, Stream!Begins
<1>10. Stream!Whole' = Stream!Whole
  BY <1>1, <1>3 DEF Stream!Whole
<1>11. (follow' # "closed" => Stream!NoError') /\ (Stream!Whole' => Stream!InTurn')
  BY <1>3, <1>6, <1>10 DEF Stream!Inv
<1>12. follow' # "closed" /\ Stream!Placed => Stream!Placed'
  <2>1. Stream!Resumes' = Stream!Resumes /\ Stream!InWindow' = Stream!InWindow
    BY <1>1 DEF Stream!Resumes, Stream!InWindow
  <2> QED BY <1>1, <1>2, <1>3, <1>6, <2>1 DEF Stream!Placed
<1>13. Stream!Whole' /\ last' > 0 /\ follow' # "closed" /\ item'.type # "torn" => Stream!Placed'
  BY <1>1, <1>6, <1>10, <1>12 DEF Stream!Inv
<1>14. Stream!Whole' /\ follow' = "closed" /\ ~gone' /\ Stream!Delivered' # <<>> /\ Stream!NoError' => finished' /\ Stream!LastIs(Len(log))'
  BY <1>1, <1>2, <1>3, <1>5, <1>6, <1>10 DEF Stream!Inv
<1> QED BY <1>7, <1>8, <1>9, <1>11, <1>13, <1>14 DEF Stream!Inv

(* A second's first line, where a connection that resumes starts.           *)
LEMMA StreamStart ==
  ASSUME Stream!TypeOK, Stream!Ordered
  PROVE  /\ last = 0 => Stream!Start \in 1 .. MaxLines + 1 /\ (log # <<>> => Stream!Start \in 1 .. Len(log)) /\ (log = <<>> => Stream!Start = 1)
         /\ last > 0 => /\ Stream!Start \in 1 .. last
                        /\ \A i \in Stream!Start .. last : log[i].sec = log[last].sec
<1>1. /\ log \in Seq(Stream!Line) /\ Len(log) \in Nat /\ Len(log) <= MaxLines /\ last \in 0 .. Len(log)
      /\ DOMAIN log = 1 .. Len(log)
  BY DEF Stream!TypeOK
<1>2. CASE last = 0
  <2>1. Stream!Start = (IF Len(log) > TailLines THEN Len(log) - TailLines ELSE 0) + 1
    BY <1>2 DEF Stream!Start
  <2>2. log # <<>> => Len(log) > 0
    BY <1>1
  <2>3. log = <<>> => Len(log) = 0
    OBVIOUS
  <2> QED BY <1>1, <1>2, <2>1, <2>2, <2>3
<1>3. CASE last > 0
  <2>1. Stream!Start = CHOOSE i \in 1 .. last : log[i].sec = log[last].sec /\ Stream!Begins(i)
    BY <1>1, <1>3 DEF Stream!Start
  <2>2. last \in DOMAIN log
    BY <1>1, <1>3
  <2>3. Stream!Start \in 1 .. last /\ log[Stream!Start].sec = log[last].sec
    BY <2>1, <2>2 DEF Stream!Ordered
  <2>4. ASSUME NEW i \in Stream!Start .. last PROVE log[i].sec = log[last].sec
    <3>1. i \in DOMAIN log /\ Stream!Start \in DOMAIN log /\ Stream!Start <= i /\ i <= last
      BY <1>1, <2>3
    <3>2. log[i].sec \in Nat /\ log[last].sec \in Nat
      BY <1>1, <2>2, <3>1, StreamLines
    <3>3. log[Stream!Start].sec <= log[i].sec /\ log[i].sec <= log[last].sec
      BY <2>2, <3>1 DEF Stream!Ordered
    <3> QED BY <2>3, <3>2, <3>3
  <2> QED BY <1>3, <2>3, <2>4
<1> QED BY <1>1, <1>2, <1>3

LEMMA StreamOpens ==
  ASSUME Stream!Inv, Stream!Open
  PROVE  Stream!Inv'
<1>1. Stream!TypeOK /\ Stream!Ordered /\ Stream!Untaken /\ Stream!NoError /\ item = Stream!Nothing /\ Stream!Nothing.type # "torn"
  BY StreamEvents DEF Stream!Inv, Stream!Open, Stream!TypeOK
<1>2. /\ follow = "opening" /\ follow' = "reading" /\ next' = Stream!Start
      /\ resuming' = IF last = 0 THEN 0 ELSE window.sec
      /\ midSecond' = IF last = 0 THEN Stream!MidSecond(Stream!Start) ELSE midSecond
      /\ UNCHANGED <<log, finished, last, window, gone, faults, item, lines, read>>
  BY DEF Stream!Open, Stream!world, Stream!Quiet
<1>3. Stream!Delivered' = Stream!Delivered
  BY <1>2 DEF Stream!Delivered
<1>4. /\ Stream!TornSoFar' = Stream!TornSoFar /\ Stream!NoError' = Stream!NoError /\ Stream!InTurn' = Stream!InTurn
      /\ \A n : Stream!LastIs(n)' = Stream!LastIs(n)
  BY <1>3, StreamSame
<1>5. last \in Nat /\ (last = 0 \/ last > 0) /\ last <= Len(log) /\ Len(log) <= MaxLines /\ Len(log) \in Nat
  BY <1>1 DEF Stream!TypeOK
<1>6. next' \in 1 .. MaxLines + 1
  BY <1>1, <1>2, <1>5, StreamStart
<1>7. Stream!TypeOK'
  <2>1. resuming' \in Nat /\ midSecond' \in BOOLEAN
    BY <1>1, <1>2 DEF Stream!TypeOK, Stream!MidSecond
  <2> QED BY <1>1, <1>2, <1>6, <2>1 DEF Stream!TypeOK
<1>8. Stream!Ordered'
  BY <1>1, <1>2, StreamKept
<1>9. CASE last = 0
  <2>1. Stream!Delivered = <<>>
    BY <1>1, <1>2, <1>9 DEF Stream!Untaken
  <2>2. Stream!InTurn
    BY <2>1 DEF Stream!InTurn
  <2>3. ~midSecond' => next' = 1 \/ (next' <= Len(log') /\ Stream!Begins(next)')
    <3>1. /\ log = <<>> => next' = 1
          /\ log # <<>> => next' \in 1 .. Len(log)
      BY <1>1, <1>2, <1>9, StreamStart
    <3>2. SUFFICES ASSUME ~midSecond', next' # 1, log # <<>> PROVE next' <= Len(log') /\ Stream!Begins(next)'
      BY <3>1
    <3>3. next' \in 2 .. Len(log)
      BY <1>5, <3>1, <3>2
    <3>4. log[next' - 1].sec # log[next'].sec
      BY <1>2, <1>9, <3>2, <3>3 DEF Stream!MidSecond
    <3>5. next' - 1 \in DOMAIN log /\ next' \in DOMAIN log /\ next' - 1 <= next'
      <4>1. DOMAIN log = 1 .. Len(log)
        BY <1>1 DEF Stream!TypeOK
      <4>2. \A n \in 2 .. Len(log) : n - 1 \in 1 .. Len(log) /\ n \in 1 .. Len(log) /\ n - 1 <= n
        BY <1>5
      <4> QED BY <3>3, <4>1, <4>2
    <3>6. log[next' - 1].sec <= log[next'].sec
      BY <1>1, <3>5 DEF Stream!Ordered
    <3>7. log[next' - 1].sec \in Nat /\ log[next'].sec \in Nat
      BY <1>1, <3>5, StreamLines DEF Stream!TypeOK
    <3>8. log[next' - 1].sec < log[next'].sec
      BY <3>4, <3>6, <3>7
    <3> QED BY <1>2, <3>3, <3>8 DEF Stream!Begins
  <2>4. Stream!Untaken'
    BY <1>1, <1>2, <1>9, <1>3, <2>1, <2>3 DEF Stream!Untaken
  <2> QED BY <1>1, <1>2, <1>4, <1>7, <1>8, <1>9, <2>2, <2>4 DEF Stream!Inv
<1>10. CASE last > 0
  <2>1. Stream!Whole' = Stream!Whole
    BY <1>2, <1>4, <1>10 DEF Stream!Whole
  <2>2. Stream!Untaken'
    BY <1>2, <1>10 DEF Stream!Untaken
  <2>3. Stream!Whole => Stream!Placed'
    <3> SUFFICES ASSUME Stream!Whole PROVE Stream!Placed'
      OBVIOUS
    <3>1. Stream!Placed
      BY <1>1, <1>2, <1>10 DEF Stream!Inv
    <3>2. window' = window /\ Stream!InWindow' = Stream!InWindow /\ resuming' = window.sec /\ window.sec = log[last].sec
      BY <1>2, <1>10, <3>1 DEF Stream!InWindow, Stream!Placed
    <3>3. Stream!Resumes'
      BY <1>1, <1>2, <1>5, <1>10, <3>2, StreamStart DEF Stream!Resumes
    <3>4. Stream!LastIs(last)'
      BY <1>2, <1>4, <3>1 DEF Stream!Placed
    <3> QED BY <1>2, <3>1, <3>2, <3>3, <3>4 DEF Stream!Placed
  <2> QED BY <1>1, <1>2, <1>4, <1>7, <1>8, <2>1, <2>2, <2>3 DEF Stream!Inv
<1> QED BY <1>5, <1>9, <1>10

LEMMA StreamOpenFails ==
  ASSUME Stream!Inv, Stream!OpenFails
  PROVE  Stream!Inv'
<1>1. Stream!TypeOK /\ Stream!Ordered /\ Stream!Untaken /\ Stream!NoError /\ item = Stream!Nothing /\ Stream!Nothing.type # "torn" /\ Stream!Error.type # "torn"
      /\ last \in Nat /\ Stream!Error \in Stream!Event /\ Stream!Error # Stream!Nothing
  BY StreamEvents DEF Stream!Inv, Stream!OpenFails, Stream!TypeOK
<1>2. /\ follow = "opening" /\ resuming' = IF last = 0 THEN 0 ELSE window.sec
      /\ faults < MaxFaults /\ faults' = faults + 1
      /\ UNCHANGED <<log, finished, next, last, window, gone, lines, read, midSecond>>
  BY DEF Stream!OpenFails, Stream!world, Stream!Fault
<1>3. \/ last = 0 /\ follow' = "sending" /\ item' = Stream!Error
      \/ last # 0 /\ follow' = "backoff" /\ item' = item
  BY DEF Stream!OpenFails
<1>4. Stream!Delivered' = Stream!Delivered
  BY <1>2 DEF Stream!Delivered
<1>5. /\ Stream!TornSoFar' = Stream!TornSoFar /\ Stream!NoError' = Stream!NoError /\ Stream!InTurn' = Stream!InTurn
      /\ \A n : Stream!LastIs(n)' = Stream!LastIs(n)
  BY <1>4, StreamSame
<1>6. Stream!TypeOK'
  <2>1. faults' \in 0 .. MaxFaults /\ resuming' \in Nat
    BY <1>1, <1>2 DEF Stream!TypeOK
  <2>2. item' \in Stream!Event \cup {Stream!Nothing} /\ (follow' = "sending") = (item' # Stream!Nothing)
        /\ follow' \in {"opening", "reading", "sending", "backoff", "closed"}
    BY <1>1, <1>3
  <2> QED BY <1>1, <1>2, <2>1, <2>2 DEF Stream!TypeOK
<1>7. Stream!Ordered'
  BY <1>1, <1>2, StreamKept
<1>8. Stream!Untaken'
  BY <1>1, <1>2, <1>3, <1>4 DEF Stream!Untaken
<1>9. Stream!Whole' = Stream!Whole
  BY <1>2, <1>5 DEF Stream!Whole
<1>10. Stream!Whole /\ last > 0 => Stream!Placed'
  <2> SUFFICES ASSUME Stream!Whole, last > 0 PROVE Stream!Placed'
    OBVIOUS
  <2>1. Stream!Placed
    BY <1>1, <1>2 DEF Stream!Inv
  <2>2. Stream!InWindow' = Stream!InWindow /\ resuming' = window.sec /\ follow' = "backoff"
    BY <1>2, <1>3 DEF Stream!InWindow
  <2> QED BY <1>2, <1>5, <2>1, <2>2 DEF Stream!Placed
<1> QED BY <1>1, <1>2, <1>3, <1>5, <1>6, <1>7, <1>8, <1>9, <1>10 DEF Stream!Inv

LEMMA StreamReadEnds ==
  ASSUME Stream!Inv, Stream!ReadEnds
  PROVE  Stream!Inv'
<1>1. Stream!TypeOK /\ Stream!Ordered /\ Stream!Untaken /\ Stream!NoError /\ item = Stream!Nothing /\ Stream!Nothing.type # "torn" /\ last \in Nat
      /\ last <= Len(log) /\ Len(log) \in Nat /\ next \in Nat
  BY StreamEvents DEF Stream!Inv, Stream!ReadEnds, Stream!TypeOK
<1>2. /\ follow = "reading" /\ follow' \in {"closed", "backoff"} /\ (follow' = "closed" => Stream!Ended)
      /\ faults' \in 0 .. MaxFaults
      /\ UNCHANGED <<log, finished, next, last, window, resuming, item, gone, lines, read, midSecond>>
  BY <1>1 DEF Stream!ReadEnds, Stream!world, Stream!resumer, Stream!Quiet, Stream!Fault, Stream!TypeOK
<1>3. Stream!Delivered' = Stream!Delivered
  BY <1>2 DEF Stream!Delivered
<1>4. /\ Stream!TornSoFar' = Stream!TornSoFar /\ Stream!NoError' = Stream!NoError /\ Stream!InTurn' = Stream!InTurn
      /\ \A n : Stream!LastIs(n)' = Stream!LastIs(n)
  BY <1>3, StreamSame
<1>5. Stream!TypeOK'
  BY <1>1, <1>2 DEF Stream!TypeOK
<1>6. Stream!Ordered'
  BY <1>1, <1>2, StreamKept
<1>7. Stream!Untaken'
  BY <1>1, <1>2, <1>3 DEF Stream!Untaken
<1>8. Stream!Whole' = Stream!Whole
  BY <1>2, <1>4 DEF Stream!Whole
<1>9. Stream!Whole /\ last > 0 => Stream!Placed
  BY <1>1, <1>2 DEF Stream!Inv
<1>10. Stream!Whole /\ last > 0 /\ follow' = "backoff" => Stream!Placed'
  <2>1. Stream!InWindow' = Stream!InWindow
    BY <1>2 DEF Stream!InWindow
  <2> QED BY <1>2, <1>4, <1>9, <2>1 DEF Stream!Placed
<1>11. Stream!Whole /\ follow' = "closed" /\ Stream!Delivered # <<>> => finished' /\ Stream!LastIs(Len(log))
  <2> SUFFICES ASSUME Stream!Whole, follow' = "closed", Stream!Delivered # <<>> PROVE finished' /\ Stream!LastIs(Len(log))
    OBVIOUS
  <2>1. last > 0
    BY <1>1, <1>2 DEF Stream!Untaken
  <2>2. Stream!LastIs(last) /\ next <= last + 1
    BY <1>2, <1>9, <2>1 DEF Stream!Placed, Stream!Resumes
  <2>3. finished /\ next > Len(log)
    BY <1>2 DEF Stream!Ended
  <2>4. last = Len(log)
    BY <1>1, <2>2, <2>3
  <2> QED BY <1>2, <2>2, <2>3, <2>4
<1>12. Stream!LastIs(Len(log))' = Stream!LastIs(Len(log))
  BY <1>2, <1>4
<1> QED BY <1>1, <1>2, <1>3, <1>4, <1>5, <1>6, <1>7, <1>8, <1>10, <1>11, <1>12 DEF Stream!Inv

LEMMA StreamRead ==
  ASSUME Stream!Inv, Stream!Read
  PROVE  Stream!Inv'
<1> DEFINE raw == [type |-> "line", at |-> next]
           sec == log[next].sec
<1>1. Stream!TypeOK /\ Stream!Ordered /\ Stream!Untaken /\ Stream!NoError /\ item = Stream!Nothing /\ Stream!Nothing.type # "torn" /\ last \in Nat
      /\ last <= Len(log) /\ Len(log) \in Nat /\ next \in Nat \ {0} /\ DOMAIN log = 1 .. Len(log)
      /\ next \in 1 .. Len(log) /\ Len(log) <= MaxLines
  BY StreamEvents DEF Stream!Inv, Stream!Read, Stream!TypeOK
<1>2. /\ follow = "reading" /\ next' = next + 1
      /\ resuming' = IF sec > resuming THEN 0 ELSE resuming
      /\ UNCHANGED <<log, finished, gone, faults, lines, read, midSecond>>
  BY DEF Stream!Read, Stream!Process, Stream!world
<1>3. \/ Stream!Served(raw) /\ UNCHANGED <<last, window, follow, item>>
      \/ /\ ~Stream!Served(raw) /\ last' = next /\ follow' = "sending" /\ item' = raw
         /\ window' = [sec |-> sec, lines |-> (IF sec = window.sec THEN window.lines ELSE {}) \cup {raw}]
  BY DEF Stream!Read, Stream!Process, Stream!Deliver
<1>4. raw \in Stream!Event /\ raw \in Stream!Raw /\ raw # Stream!Nothing /\ raw.at = next /\ raw.type = "line"
  BY <1>1, StreamEvents
<1>5. sec \in Nat /\ sec > 0 /\ resuming \in Nat /\ window.sec \in Nat
  <2>1. sec \in Nat \ {0}
    BY <1>1, StreamLines DEF Stream!TypeOK
  <2> QED BY <1>1, <2>1 DEF Stream!TypeOK
<1>6. Stream!Served(raw) <=> resuming > 0 /\ sec <= resuming /\ raw \in window.lines
  BY <1>4 DEF Stream!Served
<1> HIDE DEF raw, sec
<1>7. Stream!Delivered' = Stream!Delivered
  BY <1>2 DEF Stream!Delivered
<1>8. /\ Stream!TornSoFar' = Stream!TornSoFar /\ Stream!NoError' = Stream!NoError /\ Stream!InTurn' = Stream!InTurn
      /\ \A n : Stream!LastIs(n)' = Stream!LastIs(n)
  BY <1>7, StreamSame
<1>9. Stream!TypeOK'
  <2>1. next' \in 1 .. MaxLines + 1 /\ last' \in 0 .. Len(log') /\ resuming' \in Nat
    BY <1>1, <1>2, <1>3, <1>5
  <2>2. window'.sec \in Nat /\ window'.lines \subseteq Stream!Raw
    BY <1>1, <1>3, <1>4, <1>5 DEF Stream!TypeOK
  <2>3. item' \in Stream!Event \cup {Stream!Nothing} /\ (follow' = "sending") = (item' # Stream!Nothing)
        /\ follow' \in {"opening", "reading", "sending", "backoff", "closed"}
    BY <1>1, <1>2, <1>3, <1>4 DEF Stream!TypeOK
  <2> QED BY <1>1, <1>2, <2>1, <2>2, <2>3 DEF Stream!TypeOK
<1>10. Stream!Ordered'
  BY <1>1, <1>2, StreamKept
<1>11. Stream!Untaken' /\ last' > 0
  <2>1. last' > 0
    BY <1>1, <1>3, <1>5, <1>6 DEF Stream!Untaken
  <2> QED BY <2>1 DEF Stream!Untaken
<1>12. Stream!Whole' = Stream!Whole
  BY <1>2, <1>8 DEF Stream!Whole
<1>13. follow' # "closed"
  BY <1>2, <1>3
<1>14. CASE Stream!Whole /\ last = 0
  <2>1. window.sec = 0 /\ resuming = 0 /\ Stream!Delivered = <<>> /\ (next = 1 \/ Stream!Begins(next))
    BY <1>1, <1>2, <1>14 DEF Stream!Untaken, Stream!Whole
  <2>2. last' = next /\ follow' = "sending" /\ item' = raw /\ resuming' = 0
    BY <1>2, <1>3, <1>5, <1>6, <2>1
  <2>3. window'.sec = sec /\ window'.lines = {raw}
    BY <1>3, <1>5, <1>6, <2>1
  <2>4. Stream!InWindow' = {raw}
    <3>1. ASSUME NEW i \in 1 .. next, log[i].sec = sec PROVE i = next
      <4>1. CASE next = 1
        BY <4>1
      <4>2. CASE next # 1
        <5>1. log[next - 1].sec < sec
          BY <2>1, <4>2 DEF Stream!Begins, sec
        <5>2. i <= next - 1 => log[i].sec <= log[next - 1].sec
          BY <1>1, <4>2 DEF Stream!Ordered
        <5>3. next - 1 \in 1 .. Len(log)
          BY <1>1, <4>2
        <5>4. log[next - 1].sec \in Nat
          BY <1>1, <5>3, StreamLines DEF Stream!TypeOK
        <5> QED BY <1>1, <1>5, <3>1, <5>1, <5>2, <5>4
      <4> QED BY <4>1, <4>2
    <3>2. Stream!InWindow' = {r \in [type : {"line"}, at : 1 .. next] : log[r.at].sec = sec}
      BY <1>2, <2>2 DEF Stream!InWindow, sec
    <3>3. raw \in [type : {"line"}, at : 1 .. next] /\ log[raw.at].sec = sec
      BY <1>1 DEF raw, sec
    <3>4. ASSUME NEW r \in [type : {"line"}, at : 1 .. next], log[r.at].sec = sec PROVE r = raw
      BY <3>1, <3>4 DEF raw
    <3> QED BY <3>2, <3>3, <3>4
  <2>5. Stream!Placed'
    BY <1>1, <1>2, <1>7, <2>1, <2>2, <2>3, <2>4 DEF Stream!Placed, raw, sec
  <2> QED BY <1>8, <1>9, <1>10, <1>11, <1>12, <1>13, <1>1, <1>14, <2>5 DEF Stream!Inv
<1>15. CASE Stream!Whole /\ last > 0
  <2>1. Stream!Placed /\ Stream!Resumes
    BY <1>1, <1>2, <1>15 DEF Stream!Inv, Stream!Placed
  <2>2. last \in 1 .. Len(log) /\ log[last].sec \in Nat
    BY <1>1, <1>15, StreamLines DEF Stream!TypeOK
  <2>3. raw \in Stream!InWindow <=> next <= last /\ sec = window.sec
    BY <1>1, <2>1 DEF Stream!InWindow, raw, sec, Stream!Placed
  <2>4. CASE next <= last
    <3>1. resuming = window.sec /\ sec = window.sec /\ \A i \in next .. last : log[i].sec = window.sec
      BY <1>1, <2>1, <2>4 DEF Stream!Resumes, sec
    <3>2. Stream!Served(raw)
      BY <1>5, <1>6, <2>1, <2>3, <2>4, <3>1 DEF Stream!Placed
    <3>3. UNCHANGED <<last, window, follow, item, resuming, log>> /\ next' = next + 1
      BY <1>2, <1>3, <1>5, <3>1, <3>2
    <3>4. Stream!Resumes'
      BY <1>1, <2>4, <3>1, <3>3 DEF Stream!Resumes
    <3>5. Stream!InWindow' = Stream!InWindow
      BY <3>3 DEF Stream!InWindow
    <3>6. Stream!Placed'
      BY <1>2, <1>8, <2>1, <3>3, <3>4, <3>5 DEF Stream!Placed
    <3> QED BY <1>8, <1>9, <1>10, <1>11, <1>12, <1>13, <1>1, <1>15, <3>6 DEF Stream!Inv
  <2>5. CASE next = last + 1
    <3>1. ~Stream!Served(raw)
      BY <1>6, <2>1, <2>3, <2>5, <1>1 DEF Stream!Placed
    <3>2. last' = next /\ follow' = "sending" /\ item' = raw /\ window'.sec = sec
          /\ window'.lines = (IF sec = window.sec THEN window.lines ELSE {}) \cup {raw}
      BY <1>3, <3>1
    <3>3. window.sec = log[last].sec /\ window.sec <= sec /\ window.lines = Stream!InWindow
      <4>1. log[last].sec <= log[next].sec
        BY <1>1, <2>2, <2>5 DEF Stream!Ordered
      <4> QED BY <2>1, <4>1 DEF Stream!Placed, sec
    <3>4. resuming' \in {0, sec}
      BY <1>2, <1>5, <2>1, <3>3 DEF Stream!Placed
    <3>5. Stream!InWindow' = {r \in [type : {"line"}, at : 1 .. next] : log[r.at].sec = sec}
      BY <1>2, <3>2 DEF Stream!InWindow, sec
    <3>6. window'.lines = Stream!InWindow'
      <4>1. ASSUME NEW r \in window'.lines
            PROVE  r \in [type : {"line"}, at : 1 .. next] /\ log[r.at].sec = sec
        <5>1. r = raw \/ (sec = window.sec /\ r \in Stream!InWindow)
          BY <3>2, <3>3, <4>1
        <5>2. CASE r = raw
          BY <1>1, <5>2 DEF raw, sec
        <5>3. CASE sec = window.sec /\ r \in Stream!InWindow
          <6>1. r \in [type : {"line"}, at : 1 .. last] /\ log[r.at].sec = log[last].sec
            BY <5>3 DEF Stream!InWindow
          <6>2. \A i \in 1 .. last : i \in 1 .. next
            BY <1>1, <2>5
          <6> QED BY <3>3, <5>3, <6>1, <6>2
        <5> QED BY <5>1, <5>2, <5>3
      <4>2. ASSUME NEW r \in [type : {"line"}, at : 1 .. next], log[r.at].sec = sec
            PROVE  r \in window'.lines
        <5>1. CASE r.at = next
          BY <3>2, <5>1 DEF raw
        <5>2. CASE r.at # next
          <6>1. r.at \in 1 .. last /\ r \in [type : {"line"}, at : 1 .. last]
            BY <1>1, <2>5, <5>2
          <6>2. log[r.at].sec <= log[last].sec
            BY <1>1, <2>2, <6>1 DEF Stream!Ordered
          <6>3. sec = window.sec
            BY <1>5, <2>2, <3>3, <4>2, <6>2
          <6> QED BY <3>2, <3>3, <4>2, <6>1, <6>3 DEF Stream!InWindow
        <5> QED BY <5>1, <5>2
      <4> QED BY <3>5, <4>1, <4>2
    <3>7. last' - 1 = last /\ Stream!LastIs(last)
      BY <1>1, <1>2, <2>1, <2>5, <3>2 DEF Stream!Placed
    <3>8. Stream!LastIs(last - 1)'
      BY <1>7, <3>7 DEF Stream!LastIs
    <3>9. log'[last'].sec = sec /\ next' = last' + 1 /\ item' = [type |-> "line", at |-> last']
      BY <1>2, <3>2 DEF sec, raw
    <3>10. Stream!Placed'
      BY <3>2, <3>4, <3>6, <3>8, <3>9 DEF Stream!Placed
    <3> QED BY <1>8, <1>9, <1>10, <1>11, <1>12, <1>13, <1>1, <1>15, <3>10 DEF Stream!Inv
  <2> QED BY <1>1, <2>1, <2>4, <2>5 DEF Stream!Resumes
<1>16. CASE ~Stream!Whole
  BY <1>8, <1>9, <1>10, <1>11, <1>12, <1>13, <1>1, <1>16 DEF Stream!Inv
<1> QED BY <1>1, <1>14, <1>15, <1>16

LEMMA StreamReadTorn ==
  ASSUME Stream!Inv, Stream!ReadTorn
  PROVE  Stream!Inv'
<1> DEFINE raw == [type |-> "torn", at |-> next]
           sec == log[next].sec
<1>1. Stream!TypeOK /\ Stream!Ordered /\ Stream!Untaken /\ Stream!NoError /\ item = Stream!Nothing /\ last \in Nat
      /\ last <= Len(log) /\ Len(log) \in Nat /\ next \in Nat \ {0} /\ DOMAIN log = 1 .. Len(log)
      /\ next \in 1 .. Len(log) /\ Len(log) <= MaxLines
  BY StreamEvents DEF Stream!Inv, Stream!ReadTorn, Stream!TypeOK
<1>2. /\ follow = "reading" /\ next' = next /\ faults' \in 0 .. MaxFaults
      /\ resuming' = IF sec > resuming THEN 0 ELSE resuming
      /\ UNCHANGED <<log, finished, gone, lines, read, midSecond>>
  BY <1>1 DEF Stream!ReadTorn, Stream!Process, Stream!world, Stream!Fault, Stream!TypeOK
<1>3. \/ Stream!Served(raw) /\ UNCHANGED <<last, window, item>> /\ follow' = "backoff"
      \/ /\ ~Stream!Served(raw) /\ last' = next /\ follow' = "sending" /\ item' = raw
         /\ window' = [sec |-> sec, lines |-> (IF sec = window.sec THEN window.lines ELSE {}) \cup {raw}]
  BY DEF Stream!ReadTorn, Stream!Process
<1>4. raw \in Stream!Event /\ raw \in Stream!Raw /\ raw # Stream!Nothing /\ raw.at = next /\ raw.type = "torn"
  BY <1>1, StreamEvents
<1>5. sec \in Nat /\ sec > 0 /\ resuming \in Nat /\ window.sec \in Nat
  <2>1. sec \in Nat \ {0}
    BY <1>1, StreamLines DEF Stream!TypeOK
  <2> QED BY <1>1, <2>1 DEF Stream!TypeOK
<1>6. Stream!Served(raw) => resuming > 0 /\ raw \in window.lines
  BY <1>4 DEF Stream!Served
<1> HIDE DEF raw, sec
<1>7. Stream!Delivered' = Stream!Delivered
  BY <1>2 DEF Stream!Delivered
<1>8. /\ Stream!TornSoFar' = Stream!TornSoFar /\ Stream!NoError' = Stream!NoError /\ Stream!InTurn' = Stream!InTurn
      /\ \A n : Stream!LastIs(n)' = Stream!LastIs(n)
  BY <1>7, StreamSame
<1>9. Stream!TypeOK'
  <2>1. last' \in 0 .. Len(log') /\ resuming' \in Nat
    BY <1>1, <1>2, <1>3, <1>5
  <2>2. window'.sec \in Nat /\ window'.lines \subseteq Stream!Raw
    BY <1>1, <1>3, <1>4, <1>5 DEF Stream!TypeOK
  <2>3. item' \in Stream!Event \cup {Stream!Nothing} /\ (follow' = "sending") = (item' # Stream!Nothing)
        /\ follow' \in {"opening", "reading", "sending", "backoff", "closed"}
    BY <1>1, <1>2, <1>3, <1>4 DEF Stream!TypeOK
  <2> QED BY <1>1, <1>2, <2>1, <2>2, <2>3 DEF Stream!TypeOK
<1>10. Stream!Ordered'
  BY <1>1, <1>2, StreamKept
<1>11. Stream!Untaken' /\ last' > 0
  <2>1. last' > 0
    BY <1>1, <1>3, <1>6 DEF Stream!Untaken
  <2> QED BY <2>1 DEF Stream!Untaken
<1>12. Stream!Whole' = Stream!Whole
  BY <1>2, <1>8 DEF Stream!Whole
<1>13. follow' # "closed"
  BY <1>3
<1>14. Stream!Whole => item'.type = "torn"
  <2> SUFFICES ASSUME Stream!Whole, Stream!Served(raw) PROVE FALSE
    BY <1>3, <1>4
  <2>1. last > 0
    BY <1>1, <1>6 DEF Stream!Untaken
  <2>2. Stream!Placed
    BY <1>1, <1>2, <2>1, StreamEvents DEF Stream!Inv
  <2>3. raw \in Stream!InWindow
    BY <1>6, <2>2 DEF Stream!Placed
  <2> QED BY <1>4, <2>3 DEF Stream!InWindow
<1> QED BY <1>8, <1>9, <1>10, <1>11, <1>12, <1>13, <1>14, <1>1 DEF Stream!Inv

LEMMA StreamSends ==
  ASSUME Stream!Inv, Stream!Send
  PROVE  Stream!Inv'
<1> DEFINE n == Len(Stream!Delivered)
<1>1. Stream!TypeOK /\ Stream!Ordered /\ Stream!Untaken /\ Stream!NoError /\ item \in Stream!Event /\ last \in Nat
      /\ item.type \in {"line", "torn", "error"} /\ (item.type = "error" => item = Stream!Error)
      /\ Stream!Nothing.type # "torn" /\ Stream!Nothing # Stream!Error /\ Stream!Error.type = "error"
  BY StreamEvents DEF Stream!Inv, Stream!Send, Stream!TypeOK
<1>2. /\ follow = "sending" /\ lines' = Append(lines, item) /\ item' = Stream!Nothing /\ Len(lines) < LogBuf
      /\ UNCHANGED <<log, finished, next, last, window, resuming, gone, faults, read, midSecond>>
  BY DEF Stream!Send, Stream!world, Stream!resumer
<1>3. follow' = CASE item.type = "error" -> "closed" [] item.type = "torn" -> "backoff" [] OTHER -> "reading"
  BY DEF Stream!Send
<1>4. /\ Len(Stream!Delivered') = n + 1 /\ DOMAIN Stream!Delivered' = 1 .. n + 1 /\ Stream!Delivered'[n + 1] = item
      /\ \A i \in 1 .. n : Stream!Delivered'[i] = Stream!Delivered[i]
      /\ n \in Nat /\ DOMAIN Stream!Delivered = 1 .. n /\ Stream!Delivered \in Seq(Stream!Event)
  BY <1>1, <1>2, StreamSent, StreamDelivered
<1>5. Stream!Delivered' # <<>>
  BY <1>4
<1>6. Stream!Delivered # <<>> <=> n # 0
  BY <1>4
<1> HIDE DEF n
<1>7. Stream!TornSoFar' <=> Stream!TornSoFar \/ item.type = "torn"
  <2>1. ASSUME Stream!TornSoFar' PROVE Stream!TornSoFar \/ item.type = "torn"
    BY <1>4, <2>1 DEF Stream!TornSoFar
  <2>2. ASSUME Stream!TornSoFar \/ item.type = "torn" PROVE Stream!TornSoFar'
    <3>1. CASE item.type = "torn"
      BY <1>4, <3>1 DEF Stream!TornSoFar
    <3>2. CASE Stream!TornSoFar
      <4>1. PICK i \in 1 .. n : Stream!Delivered[i].type = "torn"
        BY <1>4, <3>2 DEF Stream!TornSoFar
      <4>2. i \in 1 .. n + 1 /\ Stream!Delivered'[i].type = "torn"
        BY <1>4, <4>1
      <4> QED BY <1>4, <4>2 DEF Stream!TornSoFar
    <3> QED BY <2>2, <3>1, <3>2
  <2> QED BY <2>1, <2>2
<1>8. Stream!NoError' <=> item.type # "error"
  <2>1. ASSUME item.type # "error", NEW i \in 1 .. n + 1 PROVE Stream!Delivered'[i].type # "error"
    BY <1>1, <1>4, <2>1 DEF Stream!NoError
  <2>2. n + 1 \in 1 .. n + 1
    BY <1>4
  <2> QED BY <1>4, <2>1, <2>2 DEF Stream!NoError
<1>9. Stream!TypeOK'
  <2>1. lines' \in Seq(Stream!Event) /\ Len(lines') <= LogBuf
    BY <1>1, <1>2 DEF Stream!TypeOK
  <2>2. follow' \in {"closed", "backoff", "reading"}
    BY <1>1, <1>3
  <2> QED BY <1>1, <1>2, <2>1, <2>2 DEF Stream!TypeOK
<1>10. Stream!Ordered'
  BY <1>1, <1>2, StreamKept
<1>11. Stream!Untaken'
  <2> SUFFICES ASSUME last = 0 PROVE Stream!Untaken'
    BY <1>2 DEF Stream!Untaken
  <2>1. item = Stream!Error /\ follow' = "closed" /\ ~Stream!NoError'
    BY <1>1, <1>2, <1>3, <1>8, StreamEvents DEF Stream!Untaken, Stream!TypeOK
  <2> QED BY <1>1, <1>2, <2>1 DEF Stream!Untaken
<1>12. follow' # "closed" => Stream!NoError'
  BY <1>1, <1>3, <1>8
<1>13. Stream!Whole' => Stream!Whole /\ item.type # "torn"
  BY <1>2, <1>7 DEF Stream!Whole
<1>14. follow' = "closed" => ~Stream!NoError'
  BY <1>1, <1>3, <1>8
<1>15. CASE ~Stream!Whole'
  BY <1>2, <1>9, <1>10, <1>11, <1>12, <1>15 DEF Stream!Inv
<1>16. CASE Stream!Whole' /\ last = 0
  <2>1. item = Stream!Error /\ Stream!Delivered = <<>> /\ n = 0
    BY <1>1, <1>2, <1>6, <1>16, StreamEvents DEF Stream!Untaken, Stream!TypeOK
  <2>2. Stream!InTurn'
    BY <1>1, <1>4, <2>1 DEF Stream!InTurn
  <2> QED BY <1>2, <1>9, <1>10, <1>11, <1>12, <1>14, <1>16, <2>2 DEF Stream!Inv
<1>17. CASE Stream!Whole' /\ last > 0
  <2>1. Stream!Placed /\ Stream!InTurn
    BY <1>1, <1>2, <1>13, <1>17 DEF Stream!Inv
  <2>2. item = [type |-> "line", at |-> last] /\ next = last + 1 /\ (Stream!Delivered # <<>> => Stream!Delivered[n].at = last - 1)
    BY <1>2, <2>1 DEF Stream!Placed, Stream!LastIs, n
  <2>3. item.type = "line" /\ item.at = last /\ follow' = "reading"
    BY <1>3, <2>2
  <2>4. Stream!InTurn'
    <3> SUFFICES ASSUME NEW i \in 1 .. n + 1, NEW j \in 1 .. n + 1, j = i + 1, Stream!Delivered'[j].type = "line"
                 PROVE  Stream!Delivered'[j].at = Stream!Delivered'[i].at + 1
      BY <1>4 DEF Stream!InTurn
    <3>1. CASE j = n + 1
      <4>1. i = n /\ n # 0 /\ Stream!Delivered'[i] = Stream!Delivered[n] /\ Stream!Delivered'[j] = item
        BY <1>4, <3>1
      <4> QED BY <1>1, <1>6, <2>2, <2>3, <4>1
    <3>2. CASE j # n + 1
      <4>1. i \in 1 .. n /\ j \in 1 .. n
        BY <1>4, <3>2
      <4> QED BY <1>4, <2>1, <4>1 DEF Stream!InTurn
    <3> QED BY <3>1, <3>2
  <2>5. Stream!LastIs(last)'
    BY <1>2, <1>4, <1>5, <2>3 DEF Stream!LastIs
  <2>6. Stream!Resumes'
    BY <1>1, <1>2, <2>2 DEF Stream!Resumes
  <2>7. Stream!InWindow' = Stream!InWindow
    BY <1>2 DEF Stream!InWindow
  <2>8. Stream!Placed'
    BY <1>2, <2>1, <2>3, <2>5, <2>6, <2>7 DEF Stream!Placed
  <2> QED BY <1>2, <1>9, <1>10, <1>11, <1>12, <1>14, <1>17, <2>3, <2>4, <2>8 DEF Stream!Inv
<1> QED BY <1>1, <1>2, <1>15, <1>16, <1>17

LEMMA StreamInit == Stream!Init => Stream!Inv
<1> SUFFICES ASSUME Stream!Init PROVE Stream!Inv
  OBVIOUS
<1>1. Stream!TypeOK /\ item.type # "torn"
  <2>1. <<>> \in Seq(Stream!Line) /\ <<>> \in Seq(Stream!Event) /\ Len(<<>>) = 0
    OBVIOUS
  <2>2. [sec |-> 0, lines |-> {}].sec = 0 /\ [sec |-> 0, lines |-> {}].lines = {}
    OBVIOUS
  <2>3. log \in Seq(Stream!Line) /\ Len(log) = 0 /\ lines \in Seq(Stream!Event) /\ Len(lines) = 0 /\ read \in Seq(Stream!Event)
    BY <2>1 DEF Stream!Init
  <2>4. window.sec \in Nat /\ window.lines \subseteq Stream!Raw /\ resuming \in Nat
    BY <2>2 DEF Stream!Init
  <2>5. item \in Stream!Event \cup {Stream!Nothing} /\ (follow = "sending") = (item # Stream!Nothing) /\ item.type # "torn"
    BY StreamEvents DEF Stream!Init
  <2>6. next \in 1 .. MaxLines + 1 /\ last \in 0 .. Len(log) /\ faults \in 0 .. MaxFaults /\ Len(log) <= MaxLines
        /\ Len(lines) <= LogBuf
    BY <2>3 DEF Stream!Init
  <2> QED BY <2>3, <2>4, <2>5, <2>6 DEF Stream!Init, Stream!TypeOK
<1>2. Stream!Delivered = <<>>
  BY DEF Stream!Init, Stream!Delivered
<1>3. Stream!NoError /\ Stream!InTurn
  BY <1>2 DEF Stream!NoError, Stream!InTurn
<1>4. Stream!Ordered
  BY DEF Stream!Init, Stream!Ordered
<1>5. Stream!Untaken
  BY <1>2 DEF Stream!Init, Stream!Untaken
<1> QED BY <1>1, <1>2, <1>3, <1>4, <1>5 DEF Stream!Init, Stream!Inv

LEMMA StreamStep == Stream!Inv /\ [Stream!Next]_streamVars => Stream!Inv'
BY StreamContainer, StreamQuiet, StreamOpens, StreamOpenFails, StreamReadEnds, StreamRead, StreamReadTorn,
   StreamSends DEF Stream!Next, Stream!Follow

LEMMA StreamInv == Stream!Inv => Stream!TypeOK /\ Stream!TailedStreamIsTheLog
<1> SUFFICES ASSUME Stream!Inv, Stream!Whole PROVE Stream!StreamIsTheLog
  BY DEF Stream!Inv, Stream!TailedStreamIsTheLog, Stream!StreamIsTheLog, Stream!Whole
<1>1. Stream!Error \notin {Stream!Delivered[i] : i \in DOMAIN Stream!Delivered} => Stream!NoError
  <2>1. \A i \in DOMAIN Stream!Delivered : Stream!Delivered[i] \in Stream!Event
    BY StreamDelivered DEF Stream!Inv
  <2> QED BY <2>1, StreamEvents DEF Stream!NoError
<1> QED BY <1>1 DEF Stream!Inv, Stream!StreamIsTheLog, Stream!LastIs


---------------------------- (* Forwards *) ---------------------------------
HIDE BehindAssumption DEF Stream!LogStreamAssumption
USE BehindAssumption DEF Forward!ForwardsAssumption

(* Taking one entry off a list without repetitions.                         *)
LEMMA ForwardTaken ==
  ASSUME forwards \in Seq(Forward!Id), Forward!ListedOnce, NEW i \in Forward!Id, Forward!Listed(i)
  PROVE  /\ Forward!RemoveForward(i) \in Seq(Forward!Id) /\ Len(Forward!RemoveForward(i)) = Len(forwards) - 1
         /\ Forward!Range(Forward!RemoveForward(i)) = Forward!Range(forwards) \ {i}
         /\ \A n, k \in DOMAIN Forward!RemoveForward(i) : Forward!RemoveForward(i)[n] = Forward!RemoveForward(i)[k] => n = k
<1> DEFINE c == CHOOSE n \in DOMAIN forwards : forwards[n] = i
           h == SubSeq(forwards, 1, c - 1)
           t == SubSeq(forwards, c + 1, Len(forwards))
           r == Forward!RemoveForward(i)
<1>1. c \in 1 .. Len(forwards) /\ forwards[c] = i
  BY DEF Forward!Listed, Forward!Range
<1>2. r = h \o t
  BY DEF Forward!RemoveForward, Forward!RemoveAt
<1> HIDE DEF c, r
<1>3. h \in Seq(Forward!Id) /\ Len(h) = c - 1 /\ \A k \in 1 .. c - 1 : h[k] = forwards[k]
  BY <1>1
<1>4. t \in Seq(Forward!Id) /\ Len(t) = Len(forwards) - c /\ \A k \in 1 .. Len(forwards) - c : t[k] = forwards[c + k]
  BY <1>1
<1> HIDE DEF h, t
<1>5. r \in Seq(Forward!Id) /\ Len(r) = Len(forwards) - 1
  BY <1>1, <1>2, <1>3, <1>4
<1>6. ASSUME NEW k \in 1 .. Len(r)
      PROVE  /\ k < c => r[k] = forwards[k] /\ k \in 1 .. Len(forwards)
             /\ c <= k => r[k] = forwards[k + 1] /\ k + 1 \in 1 .. Len(forwards)
  <2>1. CASE k < c
    <3>1. k \in 1 .. Len(h)
      BY <1>1, <1>3, <2>1
    <3>2. r[k] = h[k]
      BY <1>2, <1>3, <1>4, <3>1
    <3> QED BY <1>1, <1>3, <2>1, <3>1, <3>2
  <2>2. CASE c <= k
    <3>1. k - (c - 1) \in 1 .. Len(t) /\ c + (k - (c - 1)) = k + 1 /\ k \in Int /\ ~(k <= Len(h))
      BY <1>1, <1>3, <1>4, <1>5, <2>2
    <3>2. r[k] = t[k - (c - 1)]
      BY <1>1, <1>2, <1>3, <1>4, <1>5, <3>1
    <3>3. t[k - (c - 1)] = forwards[c + (k - (c - 1))]
      BY <1>4, <3>1
    <3> QED BY <1>1, <1>5, <2>2, <3>1, <3>2, <3>3
  <2> QED BY <1>1, <1>5, <2>1, <2>2
<1>7. DOMAIN r = 1 .. Len(r) /\ DOMAIN forwards = 1 .. Len(forwards)
  BY <1>5
<1> DEFINE At(a, p) == (a < c /\ p = a) \/ (c <= a /\ p = a + 1)
<1>8. ASSUME NEW k \in 1 .. Len(r)
      PROVE  \E p \in 1 .. Len(forwards) : r[k] = forwards[p] /\ At(k, p)
  <2>1. CASE k < c
    <3>1. k \in 1 .. Len(forwards) /\ r[k] = forwards[k] /\ At(k, k)
      BY <1>1, <1>5, <1>6, <2>1
    <3> QED BY <3>1
  <2>2. CASE c <= k
    <3>1. k + 1 \in 1 .. Len(forwards) /\ r[k] = forwards[k + 1] /\ At(k, k + 1)
      BY <1>6, <2>2
    <3> HIDE DEF At
    <3> QED BY <3>1
  <2> QED BY <1>1, <1>5, <2>1, <2>2
<1>9. ASSUME NEW n \in 1 .. Len(r), NEW k \in 1 .. Len(r), r[n] = r[k]
      PROVE  n = k
  <2>1. PICK p \in 1 .. Len(forwards) : r[n] = forwards[p] /\ At(n, p)
    BY <1>8
  <2>2. PICK q \in 1 .. Len(forwards) : r[k] = forwards[q] /\ At(k, q)
    BY <1>8
  <2>3. p = q
    BY <1>7, <1>9, <2>1, <2>2 DEF Forward!ListedOnce
  <2> QED BY <1>1, <1>5, <2>1, <2>2, <2>3
<1>10. \A x : x \in Forward!Range(r) <=> x \in Forward!Range(forwards) /\ x # i
  <2>1. ASSUME NEW x \in Forward!Range(r) PROVE x \in Forward!Range(forwards) /\ x # i
    <3>1. PICK k \in 1 .. Len(r) : x = r[k]
      BY <1>7 DEF Forward!Range
    <3>2. PICK l \in 1 .. Len(forwards) : x = forwards[l] /\ l # c
      <4>1. CASE k < c
        BY <1>6, <3>1, <4>1, <1>1
      <4>2. CASE c <= k
        BY <1>6, <3>1, <4>2, <1>1
      <4> QED BY <1>1, <1>5, <4>1, <4>2
    <3> QED BY <1>1, <1>7, <3>2 DEF Forward!Range, Forward!ListedOnce
  <2>2. ASSUME NEW x \in Forward!Range(forwards), x # i PROVE x \in Forward!Range(r)
    <3>1. PICK k \in 1 .. Len(forwards) : x = forwards[k]
      BY <1>7 DEF Forward!Range
    <3>2. k # c
      BY <1>1, <2>2, <3>1
    <3>3. CASE k < c
      <4>1. k \in 1 .. Len(r)
        BY <1>1, <1>5, <3>1, <3>3
      <4> QED BY <1>6, <1>7, <3>1, <3>3, <4>1 DEF Forward!Range
    <3>4. CASE k > c
      <4>1. k - 1 \in 1 .. Len(r) /\ c <= k - 1 /\ (k - 1) + 1 = k
        BY <1>1, <1>5, <3>1, <3>4
      <4> QED BY <1>6, <1>7, <3>1, <4>1 DEF Forward!Range
    <3> QED BY <1>1, <3>1, <3>2, <3>3, <3>4
  <2> QED BY <2>1, <2>2
<1> QED BY <1>5, <1>7, <1>9, <1>10 DEF r

LEMMA ForwardAppended ==
  ASSUME forwards \in Seq(Forward!Id), Forward!ListedOnce, NEW i \in Forward!Id, ~Forward!Listed(i), forwards' = Append(forwards, i)
  PROVE  /\ forwards' \in Seq(Forward!Id) /\ Len(forwards') = Len(forwards) + 1
         /\ Forward!Range(forwards)' = Forward!Range(forwards) \cup {i} /\ Forward!ListedOnce'
<1>1. /\ forwards' \in Seq(Forward!Id) /\ Len(forwards') = Len(forwards) + 1
      /\ \A k \in 1 .. Len(forwards) : forwards'[k] = forwards[k]
      /\ forwards'[Len(forwards) + 1] = i
  OBVIOUS
<1>2. DOMAIN forwards' = 1 .. Len(forwards) + 1 /\ DOMAIN forwards = 1 .. Len(forwards)
  BY <1>1
<1>3. \A k \in DOMAIN forwards : forwards[k] # i
  BY DEF Forward!Listed, Forward!Range
<1>4. Len(forwards) \in Nat
  OBVIOUS
<1>5. Forward!ListedOnce'
  BY <1>1, <1>2, <1>3, <1>4 DEF Forward!ListedOnce
<1>6. Forward!Range(forwards)' = Forward!Range(forwards) \cup {i}
  <2>1. ASSUME NEW x \in Forward!Range(forwards)' PROVE x \in Forward!Range(forwards) \cup {i}
    BY <1>1, <1>2, <1>4, <2>1 DEF Forward!Range
  <2>2. ASSUME NEW x \in Forward!Range(forwards) \cup {i} PROVE x \in Forward!Range(forwards)'
    BY <1>1, <1>2, <1>4, <2>2 DEF Forward!Range
  <2> QED BY <2>1, <2>2
<1> QED BY <1>1, <1>5, <1>6

LEMMA ForwardClamped ==
  \A s, n \in Nat : Forward!Clamped(s, n) \in Nat /\ (Forward!Clamped(s, n) < n \/ Forward!Clamped(s, n) = 0)
BY DEF Forward!Clamped

(* What each forward's own part of the invariant says.                      *)
ForwardKept(i) ==
  /\ handle[i].run = "unused" => Forward!Fresh(i)
  /\ Forward!Runs(i) => Forward!Listed(i) \/ handle[i].cancelled
  /\ Forward!Listed(i) => Forward!OneWatcher(i) /\ ends[i] = 0 /\ i \notin dismissed
  /\ ends[i] <= 1 /\ (ends[i] = 1 => i \notin dismissed)
  /\ i \in ready => handle[i].readyCh
  /\ \A m \in Forward!Reports(i) : m.type = "ready" => handle[i].readyCh

LEMMA ForwardParts == Forward!Inv <=> Forward!TypeOK /\ Forward!CursorStaysOnTheList /\ Forward!ListedOnce /\ \A i \in Forward!Id : ForwardKept(i)
BY DEF Forward!Inv, ForwardKept

(* A handle changes.                                                        *)
LEMMA ForwardHandled ==
  ASSUME NEW i \in Forward!Id, Forward!TypeOK, NEW h \in Forward!Handle,
         handle' = [handle EXCEPT ![i] = h]
  PROVE  /\ handle' \in [Forward!Id -> Forward!Handle] /\ handle'[i] = h
         /\ \A j \in Forward!Id : j # i => handle'[j] = handle[j]
BY DEF Forward!TypeOK

LEMMA ForwardGoroutine ==
  ASSUME Forward!Inv, NEW i \in Forward!Id, Forward!Goroutine(i)
  PROVE  Forward!Inv'
<1>1. UNCHANGED <<forwards, ready, waits, told, panel, ends, dismissed>>
  BY DEF Forward!Goroutine, Forward!Dial, Forward!Lose, Forward!Stopped, Forward!Bridge, Forward!To
<1>2. Forward!TypeOK
  BY DEF Forward!Inv
<1>3. handle[i] \in Forward!Handle /\ Forward!Runs(i)
  BY <1>2 DEF Forward!TypeOK, Forward!Goroutine, Forward!Dial, Forward!Lose, Forward!Stopped, Forward!Bridge, Forward!Runs
<1>4. PICK h \in Forward!Handle : /\ handle' = [handle EXCEPT ![i] = h]
                                  /\ h.cancelled = handle[i].cancelled /\ (handle[i].readyCh => h.readyCh)
                                  /\ h.run # "unused"
  <2>1. ASSUME NEW run \in {"up", "ended"}, NEW err \in BOOLEAN, Forward!To(i, run, err)
        PROVE  \E h \in Forward!Handle : /\ handle' = [handle EXCEPT ![i] = h]
                                         /\ h.cancelled = handle[i].cancelled /\ (handle[i].readyCh => h.readyCh)
                                         /\ h.run # "unused"
    <3> DEFINE h == [handle[i] EXCEPT !.run = run, !.err = err, !.readyCh = handle[i].readyCh \/ run = "up"]
    <3>1. h \in Forward!Handle /\ h.cancelled = handle[i].cancelled /\ (handle[i].readyCh => h.readyCh)
          /\ h.run # "unused"
      BY <1>3 DEF Forward!Handle
    <3>2. handle' = [handle EXCEPT ![i] = h]
      BY <1>2, <2>1 DEF Forward!To, Forward!TypeOK, Forward!Handle
    <3> QED BY <3>1, <3>2
  <2>2. ASSUME Forward!Bridge(i)
        PROVE  \E h \in Forward!Handle : /\ handle' = [handle EXCEPT ![i] = h]
                                         /\ h.cancelled = handle[i].cancelled /\ (handle[i].readyCh => h.readyCh)
                                         /\ h.run # "unused"
    <3> DEFINE h == [handle[i] EXCEPT !.stopCh = TRUE]
    <3>1. h \in Forward!Handle /\ h.cancelled = handle[i].cancelled /\ (handle[i].readyCh => h.readyCh)
          /\ h.run # "unused"
      BY <1>3 DEF Forward!Handle, Forward!Runs
    <3>2. handle' = [handle EXCEPT ![i] = h]
      BY <2>2 DEF Forward!Bridge
    <3> QED BY <3>1, <3>2
  <2> QED BY <2>1, <2>2 DEF Forward!Goroutine, Forward!Dial, Forward!Lose, Forward!Stopped
<1>5. /\ handle' \in [Forward!Id -> Forward!Handle] /\ handle'[i] = h
      /\ \A j \in Forward!Id : j # i => handle'[j] = handle[j]
  BY <1>2, <1>4, ForwardHandled
<1>6. Forward!TypeOK' /\ Forward!CursorStaysOnTheList' /\ Forward!ListedOnce'
  BY <1>1, <1>5 DEF Forward!Inv, Forward!TypeOK, Forward!CursorStaysOnTheList, Forward!ListedOnce
<1>7. ASSUME NEW j \in Forward!Id PROVE ForwardKept(j)'
  <2>1. /\ ForwardKept(j)
        /\ Forward!Fresh(j)' = Forward!Fresh(j) /\ Forward!Listed(j)' = Forward!Listed(j) /\ Forward!OneWatcher(j)' = Forward!OneWatcher(j)
        /\ Forward!Reports(j)' = Forward!Reports(j)
    BY <1>1, ForwardParts DEF Forward!Fresh, Forward!Watchers, Forward!Commands, Forward!Reports, Forward!Listed, Forward!OneWatcher
  <2>2. /\ handle'[j].run = "unused" => handle[j].run = "unused"
        /\ Forward!Runs(j)' => Forward!Runs(j) /\ handle'[j].cancelled = handle[j].cancelled
        /\ handle[j].readyCh => handle'[j].readyCh
    BY <1>3, <1>4, <1>5 DEF Forward!Runs
  <2> QED BY <1>1, <2>1, <2>2 DEF ForwardKept, Forward!Runs
<1> QED BY <1>6, <1>7, ForwardParts DEF Forward!Inv, ForwardKept

LEMMA ForwardCommand ==
  ASSUME Forward!Inv, NEW w \in waits, Forward!SeeReady(w) \/ Forward!SeeDone(w)
  PROVE  Forward!Inv'
<1>1. Forward!TypeOK /\ w \in Forward!Wait /\ w.id \in Forward!Id
  BY DEF Forward!Inv, Forward!TypeOK, Forward!Wait
<1>2. UNCHANGED <<handle, forwards, ready, panel, ends, dismissed>> /\ waits' = waits \ {w}
  BY DEF Forward!SeeReady, Forward!SeeDone, Forward!Fire
<1>3. PICK m \in Forward!Message : /\ told' = told \cup {m} /\ m.id = w.id
                                   /\ m.type = "ready" => handle[w.id].readyCh
  <2>1. CASE Forward!SeeReady(w)
    <3> DEFINE n == [type |-> "ready", id |-> w.id]
    <3>1. n \in Forward!Message /\ n.id = w.id
      BY <1>1 DEF Forward!Message
    <3>2. told' = told \cup {n} /\ handle[w.id].readyCh
      BY <2>1 DEF Forward!SeeReady, Forward!Fire
    <3> HIDE DEF n
    <3> QED BY <3>1, <3>2
  <2>2. CASE Forward!SeeDone(w)
    <3> DEFINE n == [type |-> "done", id |-> w.id, err |-> handle[w.id].err]
    <3>1. n \in Forward!Message /\ n.id = w.id /\ n.type # "ready"
      BY <1>1 DEF Forward!Message, Forward!TypeOK, Forward!Handle
    <3>2. told' = told \cup {n}
      BY <2>2 DEF Forward!SeeDone, Forward!Fire
    <3> HIDE DEF n
    <3> QED BY <3>1, <3>2
  <2> QED BY <2>1, <2>2
<1>4. Forward!TypeOK' /\ Forward!CursorStaysOnTheList' /\ Forward!ListedOnce'
  BY <1>1, <1>2, <1>3 DEF Forward!Inv, Forward!TypeOK, Forward!CursorStaysOnTheList, Forward!ListedOnce
<1>5. ASSUME NEW i \in Forward!Id PROVE ForwardKept(i)'
  <2>1. ForwardKept(i) /\ Forward!Listed(i)' = Forward!Listed(i) /\ Forward!Runs(i)' = Forward!Runs(i)
    BY <1>2, ForwardParts DEF Forward!Listed, Forward!Runs
  <2>2. CASE i # w.id
    <3>1. Forward!Commands(i)' = Forward!Commands(i) /\ Forward!Reports(i)' = Forward!Reports(i)
      BY <1>2, <1>3, <2>2 DEF Forward!Commands, Forward!Reports
    <3>2. \A c \in Forward!Commands(i) : c \in waits' /\ \A c2 \in waits' : c2 \in waits
      BY <1>2, <3>1 DEF Forward!Commands
    <3>3. Forward!OneWatcher(i) => Forward!OneWatcher(i)'
      BY <1>2, <1>3, <3>1, <3>2 DEF Forward!OneWatcher
    <3>4. Forward!Fresh(i)' = Forward!Fresh(i)
      BY <1>2, <2>1, <3>1 DEF Forward!Fresh, Forward!Watchers
    <3> QED BY <1>2, <2>1, <3>1, <3>3, <3>4 DEF ForwardKept
  <2>3. CASE i = w.id
    <3>1. w \in Forward!Commands(i)
      BY <2>3 DEF Forward!Commands
    <3>2. handle[i].run # "unused"
      BY <2>1, <3>1 DEF ForwardKept, Forward!Fresh, Forward!Watchers
    <3>3. Forward!Reports(i)' = Forward!Reports(i) \cup {m} /\ m \in told' /\ Forward!Commands(i)' = Forward!Commands(i) \ {w}
      BY <1>2, <1>3, <2>3 DEF Forward!Reports, Forward!Commands
    <3>4. Forward!OneWatcher(i) => Forward!OneWatcher(i)'
      BY <3>1, <3>3 DEF Forward!OneWatcher
    <3> QED BY <1>2, <1>3, <2>1, <2>3, <3>2, <3>3, <3>4 DEF ForwardKept
  <2> QED BY <2>2, <2>3
<1> QED BY <1>4, <1>5, ForwardParts DEF Forward!Inv, ForwardKept

LEMMA ForwardMessage ==
  ASSUME Forward!Inv, NEW m \in told, Forward!HandleForwardReady(m)
  PROVE  Forward!Inv'
<1>1. Forward!TypeOK /\ m \in Forward!Message /\ m.id \in Forward!Id /\ m.type = "ready"
  BY DEF Forward!Inv, Forward!TypeOK, Forward!Message, Forward!HandleForwardReady
<1>2. UNCHANGED <<handle, forwards, panel, ends, dismissed>> /\ told' = told \ {m}
  BY DEF Forward!HandleForwardReady
<1> DEFINE w == [id |-> m.id, for |-> "done"]
<1>3. w \in Forward!Wait /\ w.id = m.id
  BY <1>1 DEF Forward!Wait
<1>4. \/ Forward!Listed(m.id) /\ ready' = ready \cup {m.id} /\ waits' = waits \cup {w}
      \/ ~Forward!Listed(m.id) /\ UNCHANGED <<ready, waits>>
  BY DEF Forward!HandleForwardReady
<1> HIDE DEF w
<1>5. Forward!TypeOK' /\ Forward!CursorStaysOnTheList' /\ Forward!ListedOnce'
  BY <1>1, <1>2, <1>3, <1>4 DEF Forward!Inv, Forward!TypeOK, Forward!CursorStaysOnTheList, Forward!ListedOnce, Forward!Listed
<1>6. m \in Forward!Reports(m.id) /\ ForwardKept(m.id)
  BY <1>1, ForwardParts DEF Forward!Reports
<1>7. ASSUME NEW i \in Forward!Id PROVE ForwardKept(i)'
  <2>1. ForwardKept(i) /\ Forward!Listed(i)' = Forward!Listed(i) /\ Forward!Runs(i)' = Forward!Runs(i)
    BY <1>2, ForwardParts DEF Forward!Listed, Forward!Runs
  <2>2. CASE i # m.id
    <3>1. Forward!Commands(i)' = Forward!Commands(i) /\ Forward!Reports(i)' = Forward!Reports(i)
      BY <1>2, <1>3, <1>4, <2>2 DEF Forward!Commands, Forward!Reports
    <3>2. Forward!OneWatcher(i) => Forward!OneWatcher(i)'
      BY <1>4, <3>1 DEF Forward!OneWatcher, Forward!Commands, Forward!Reports
    <3>3. Forward!Fresh(i)' = Forward!Fresh(i)
      BY <1>2, <2>1, <3>1 DEF Forward!Fresh, Forward!Watchers
    <3> QED BY <1>2, <1>4, <2>1, <2>2, <3>1, <3>2, <3>3 DEF ForwardKept
  <2>3. CASE i = m.id
    <3>1. handle[i].run # "unused" /\ handle[i].readyCh
      BY <1>1, <1>6, <2>3 DEF ForwardKept, Forward!Fresh, Forward!Watchers
    <3>2. Forward!Reports(i)' = Forward!Reports(i) \ {m}
      BY <1>2 DEF Forward!Reports
    <3>3. Forward!Listed(i) => Forward!OneWatcher(i)'
      <4>1. Forward!Listed(i) => Forward!Commands(i) = {} /\ Forward!Reports(i) = {m}
        BY <1>6, <2>3 DEF ForwardKept, Forward!OneWatcher
      <4>2. Forward!Listed(i) => Forward!Commands(i)' = Forward!Commands(i) \cup {w} /\ w \in waits'
        BY <1>3, <1>4, <2>3 DEF Forward!Commands
      <4> QED BY <3>2, <4>1, <4>2 DEF Forward!OneWatcher
    <3> QED BY <1>2, <2>1, <3>1, <3>2, <3>3 DEF ForwardKept
  <2> QED BY <2>2, <2>3
<1> QED BY <1>5, <1>7, ForwardParts DEF Forward!Inv, ForwardKept

(* Handles that are cancelled.                                              *)
LEMMA ForwardCancelled ==
  ASSUME Forward!TypeOK, NEW S, handle' = Forward!Cancelled(S)
  PROVE  /\ handle' \in [Forward!Id -> Forward!Handle]
         /\ \A i \in Forward!Id : /\ handle'[i].run = handle[i].run /\ handle'[i].readyCh = handle[i].readyCh
                                  /\ handle'[i].cancelled = (handle[i].cancelled \/ i \in S)
<1>1. ASSUME NEW i \in Forward!Id
      PROVE  LET h == [handle[i] EXCEPT !.cancelled = @ \/ i \in S]
             IN  /\ h \in Forward!Handle /\ h.run = handle[i].run /\ h.readyCh = handle[i].readyCh
                 /\ h.cancelled = (handle[i].cancelled \/ i \in S)
  BY DEF Forward!TypeOK, Forward!Handle
<1> QED BY <1>1 DEF Forward!Cancelled

LEMMA ForwardDone ==
  ASSUME Forward!Inv, NEW m \in told, Forward!HandleForwardDone(m)
  PROVE  Forward!Inv'
<1>1. Forward!TypeOK /\ m \in Forward!Message /\ m.id \in Forward!Id /\ Forward!ListedOnce
  BY DEF Forward!Inv, Forward!TypeOK, Forward!Message
<1>2. UNCHANGED <<waits, dismissed>> /\ told' = told \ {m}
  BY DEF Forward!HandleForwardDone
<1>3. \A i \in Forward!Id : Forward!Commands(i)' = Forward!Commands(i) /\ Forward!Reports(i)' = Forward!Reports(i) \ {m}
  BY <1>2 DEF Forward!Commands, Forward!Reports
<1>4. \A i \in Forward!Id : i # m.id => Forward!Reports(i)' = Forward!Reports(i)
  BY <1>2 DEF Forward!Reports
<1>5. m \in Forward!Reports(m.id) /\ handle[m.id].run # "unused"
  BY <1>1, ForwardParts DEF Forward!Reports, ForwardKept, Forward!Fresh, Forward!Watchers
<1>6. CASE ~Forward!Listed(m.id)
  <2>1. UNCHANGED <<handle, forwards, ready, panel, ends>>
    BY <1>6 DEF Forward!HandleForwardDone
  <2>2. Forward!TypeOK' /\ Forward!CursorStaysOnTheList' /\ Forward!ListedOnce'
    BY <1>1, <1>2, <2>1 DEF Forward!Inv, Forward!TypeOK, Forward!CursorStaysOnTheList, Forward!ListedOnce
  <2>3. ASSUME NEW i \in Forward!Id PROVE ForwardKept(i)'
    <3>1. ForwardKept(i) /\ Forward!Listed(i)' = Forward!Listed(i) /\ Forward!Runs(i)' = Forward!Runs(i)
      BY <2>1, ForwardParts DEF Forward!Listed, Forward!Runs
    <3>2. Forward!Listed(i) => i # m.id
      BY <1>6
    <3>3. Forward!Listed(i) /\ Forward!OneWatcher(i) => Forward!OneWatcher(i)'
      BY <1>3, <1>4, <1>2, <3>2 DEF Forward!OneWatcher, Forward!Reports
    <3> QED BY <1>2, <1>3, <2>1, <3>1, <3>2, <3>3 DEF ForwardKept, Forward!Fresh, Forward!Watchers
  <2> QED BY <2>2, <2>3, ForwardParts DEF Forward!Inv, ForwardKept
<1>7. CASE Forward!Listed(m.id)
  <2>1. /\ handle' = Forward!Cancelled({m.id}) /\ forwards' = Forward!RemoveForward(m.id) /\ ready' = ready \ {m.id}
        /\ panel' = [panel EXCEPT !.sel = Forward!Clamped(panel.sel, Len(forwards'))]
        /\ ends' = [ends EXCEPT ![m.id] = ends[m.id] + 1]
    BY <1>7 DEF Forward!HandleForwardDone
  <2>2. /\ forwards' \in Seq(Forward!Id) /\ Len(forwards') \in Nat /\ Forward!ListedOnce'
        /\ Forward!Range(forwards)' = Forward!Range(forwards) \ {m.id}
    <3>1. forwards \in Seq(Forward!Id)
      BY <1>1 DEF Forward!TypeOK
    <3> QED BY <1>1, <1>7, <2>1, <3>1, ForwardTaken DEF Forward!ListedOnce
  <2>3. /\ handle' \in [Forward!Id -> Forward!Handle]
        /\ \A i \in Forward!Id : /\ handle'[i].run = handle[i].run /\ handle'[i].readyCh = handle[i].readyCh
                                 /\ handle'[i].cancelled = (handle[i].cancelled \/ i = m.id)
    <3>1. \A i : i \in {m.id} <=> i = m.id
      OBVIOUS
    <3>2. handle' = Forward!Cancelled({m.id})
      BY <2>1
    <3> QED BY <1>1, <3>1, <3>2, ForwardCancelled
  <2>4. panel' \in [open : BOOLEAN, sel : Nat] /\ Forward!CursorStaysOnTheList'
    <3>1. panel.sel \in Nat /\ panel \in [open : BOOLEAN, sel : Nat]
      BY <1>1 DEF Forward!TypeOK
    <3>2. /\ Forward!Clamped(panel.sel, Len(forwards')) \in Nat
          /\ Forward!Clamped(panel.sel, Len(forwards')) < Len(forwards') \/ Forward!Clamped(panel.sel, Len(forwards')) = 0
      BY <2>2, <3>1, ForwardClamped
    <3> QED BY <2>1, <3>1, <3>2 DEF Forward!CursorStaysOnTheList
  <2>5. /\ ends' \in [Forward!Id -> Nat] /\ ends'[m.id] = ends[m.id] + 1
        /\ \A i \in Forward!Id : i # m.id => ends'[i] = ends[i]
    BY <1>1, <2>1 DEF Forward!TypeOK
  <2>6. Forward!TypeOK'
    BY <1>1, <1>2, <2>1, <2>2, <2>3, <2>4, <2>5 DEF Forward!TypeOK
  <2>7. ASSUME NEW i \in Forward!Id PROVE ForwardKept(i)'
    <3>1. ForwardKept(i) /\ Forward!Listed(i)' = (Forward!Listed(i) /\ i # m.id) /\ Forward!Runs(i)' = Forward!Runs(i)
      BY <2>2, <2>3, ForwardParts DEF Forward!Listed, Forward!Runs
    <3>2. CASE i = m.id
      <4>1. handle'[i].run # "unused" /\ ~Forward!Listed(i)' /\ handle'[i].cancelled /\ i \notin ready'
        BY <1>5, <2>1, <2>3, <3>1, <3>2
      <4>2. ends'[i] <= 1 /\ i \notin dismissed'
        BY <1>2, <1>7, <2>5, <3>1, <3>2 DEF ForwardKept
      <4>3. \A n \in Forward!Reports(i)' : n.type = "ready" => handle'[i].readyCh
        BY <1>3, <2>3, <3>1 DEF ForwardKept
      <4> QED BY <4>1, <4>2, <4>3 DEF ForwardKept
    <3>3. CASE i # m.id
      <4>1. Forward!Commands(i)' = Forward!Commands(i) /\ Forward!Reports(i)' = Forward!Reports(i) /\ ends'[i] = ends[i] /\ Forward!Listed(i)' = Forward!Listed(i)
        <5>1. Forward!Commands(i)' = Forward!Commands(i) /\ Forward!Reports(i)' = Forward!Reports(i)
          BY <1>3, <1>4, <3>3
        <5> QED BY <2>5, <3>1, <3>3, <5>1 DEF Forward!Listed
      <4>2. Forward!OneWatcher(i) => Forward!OneWatcher(i)'
        BY <1>2, <3>3, <4>1 DEF Forward!OneWatcher, Forward!Reports
      <4>3. Forward!Fresh(i)' = Forward!Fresh(i)
        BY <1>2, <4>1 DEF Forward!Fresh, Forward!Watchers
      <4> QED BY <1>2, <2>1, <2>3, <3>1, <3>3, <4>1, <4>2, <4>3 DEF ForwardKept
    <3> QED BY <3>2, <3>3
  <2> QED BY <2>2, <2>4, <2>6, <2>7, ForwardParts DEF Forward!Inv, ForwardKept
<1> QED BY <1>6, <1>7

LEMMA ForwardStart ==
  ASSUME Forward!Inv, Forward!RunPortForward
  PROVE  Forward!Inv'
<1> DEFINE w(i) == [id |-> i, for |-> "either"]
<1>1. PICK i \in Forward!Id :
        /\ handle[i].run = "unused" /\ handle' = [handle EXCEPT ![i].run = "dialing"]
        /\ forwards' = Append(forwards, i) /\ waits' = waits \cup {w(i)}
        /\ UNCHANGED <<ready, told, panel, ends, dismissed>>
  BY DEF Forward!RunPortForward
<1>2. w(i) \in Forward!Wait /\ w(i).id = i
  BY DEF Forward!Wait
<1> HIDE DEF w
<1>3. Forward!TypeOK /\ Forward!ListedOnce /\ Forward!Fresh(i) /\ forwards \in Seq(Forward!Id)
  BY <1>1 DEF Forward!Inv, Forward!TypeOK
<1>4. /\ forwards' \in Seq(Forward!Id) /\ Len(forwards') = Len(forwards) + 1
      /\ Forward!Range(forwards)' = Forward!Range(forwards) \cup {i} /\ Forward!ListedOnce'
  BY <1>1, <1>3, ForwardAppended DEF Forward!Fresh
<1>5. handle[i] \in Forward!Handle /\ [handle[i] EXCEPT !.run = "dialing"] \in Forward!Handle
  BY <1>3 DEF Forward!TypeOK, Forward!Handle
<1>6. /\ handle' \in [Forward!Id -> Forward!Handle] /\ handle'[i].run = "dialing" /\ handle'[i].readyCh = handle[i].readyCh
      /\ \A j \in Forward!Id : j # i => handle'[j] = handle[j]
  BY <1>1, <1>3, <1>5 DEF Forward!TypeOK, Forward!Handle
<1>7. Len(forwards) \in Nat /\ panel.sel \in Nat
  BY <1>3 DEF Forward!TypeOK
<1>8. Forward!TypeOK' /\ Forward!CursorStaysOnTheList'
  BY <1>1, <1>2, <1>3, <1>4, <1>6, <1>7 DEF Forward!TypeOK, Forward!CursorStaysOnTheList, Forward!Inv
<1>9. ASSUME NEW j \in Forward!Id PROVE ForwardKept(j)'
  <2>1. ForwardKept(j) /\ Forward!Listed(j)' = (Forward!Listed(j) \/ j = i) /\ Forward!Reports(j)' = Forward!Reports(j)
    BY <1>1, <1>4, ForwardParts DEF Forward!Listed, Forward!Reports
  <2>2. CASE j # i
    <3>1. Forward!Commands(j)' = Forward!Commands(j)
      BY <1>1, <1>2, <2>2 DEF Forward!Commands
    <3>2. Forward!OneWatcher(j) => Forward!OneWatcher(j)'
      BY <1>1, <2>1, <3>1 DEF Forward!OneWatcher
    <3>3. Forward!Fresh(j)' = Forward!Fresh(j) /\ Forward!Runs(j)' = Forward!Runs(j) /\ handle'[j] = handle[j]
      BY <1>1, <1>6, <2>1, <2>2, <3>1 DEF Forward!Fresh, Forward!Watchers, Forward!Runs
    <3> QED BY <1>1, <2>1, <2>2, <3>2, <3>3 DEF ForwardKept
  <2>3. CASE j = i
    <3>1. Forward!Commands(i)' = {w(i)} /\ w(i) \in waits' /\ Forward!Reports(i)' = {}
      BY <1>1, <1>2, <1>3 DEF Forward!Fresh, Forward!Watchers, Forward!Commands, Forward!Reports
    <3> QED BY <1>1, <1>3, <1>6, <2>1, <2>3, <3>1 DEF ForwardKept, Forward!OneWatcher, Forward!Fresh
  <2> QED BY <2>2, <2>3
<1> QED BY <1>4, <1>8, <1>9, ForwardParts DEF Forward!Inv, ForwardKept

LEMMA ForwardStop ==
  ASSUME Forward!Inv, Forward!StopForwards, panel' \in [open : BOOLEAN, sel : {0}]
  PROVE  Forward!Inv'
<1>1. /\ handle' = Forward!Cancelled(Forward!Range(forwards)) /\ forwards' = <<>> /\ ready' = {}
      /\ dismissed' = dismissed \cup Forward!Range(forwards) /\ UNCHANGED <<waits, told, ends>>
  BY DEF Forward!StopForwards
<1>2. Forward!TypeOK
  BY DEF Forward!Inv
<1>3. /\ handle' \in [Forward!Id -> Forward!Handle]
      /\ \A i \in Forward!Id : /\ handle'[i].run = handle[i].run /\ handle'[i].readyCh = handle[i].readyCh
                               /\ handle'[i].cancelled = (handle[i].cancelled \/ Forward!Listed(i))
  BY <1>1, <1>2, ForwardCancelled DEF Forward!Listed
<1>4. Forward!Range(forwards) \subseteq Forward!Id
  BY <1>2 DEF Forward!TypeOK, Forward!Range
<1>5. panel'.sel = 0 /\ panel' \in [open : BOOLEAN, sel : Nat]
  OBVIOUS
<1>6. Forward!TypeOK' /\ Forward!CursorStaysOnTheList' /\ Forward!ListedOnce'
  <2>1. Forward!TypeOK'
    BY <1>1, <1>2, <1>3, <1>4, <1>5 DEF Forward!TypeOK
  <2>2. Forward!CursorStaysOnTheList'
    BY <1>5 DEF Forward!CursorStaysOnTheList
  <2>3. DOMAIN forwards' = {}
    BY <1>1
  <2> QED BY <2>1, <2>2, <2>3 DEF Forward!ListedOnce
<1>7. ASSUME NEW i \in Forward!Id PROVE ForwardKept(i)'
  <2>1. ForwardKept(i) /\ ~Forward!Listed(i)' /\ Forward!Runs(i)' = Forward!Runs(i) /\ Forward!Watchers(i)' = Forward!Watchers(i) /\ Forward!Reports(i)' = Forward!Reports(i)
    BY <1>1, <1>3, ForwardParts DEF Forward!Listed, Forward!Runs, Forward!Watchers, Forward!Commands, Forward!Reports, Forward!Range
  <2>2. ends'[i] = ends[i] /\ ends[i] \in Nat
    BY <1>1, <1>2 DEF Forward!TypeOK
  <2>3. ends'[i] = 1 => i \notin dismissed'
    BY <1>1, <2>1, <2>2 DEF ForwardKept, Forward!Listed
  <2>4. handle'[i].run = "unused" => Forward!Fresh(i)'
    BY <1>1, <1>3, <2>1, <2>2 DEF ForwardKept, Forward!Fresh, Forward!Listed
  <2> QED BY <1>1, <1>3, <2>1, <2>2, <2>3, <2>4 DEF ForwardKept
<1> QED BY <1>6, <1>7, ForwardParts DEF Forward!Inv, ForwardKept

LEMMA ForwardKey ==
  ASSUME Forward!Inv, Forward!Key \/ UNCHANGED forwardVars
  PROVE  Forward!Inv'
<1>1. Forward!TypeOK /\ Len(forwards) \in Nat /\ panel \in [open : BOOLEAN, sel : Nat] /\ panel.sel \in Nat
  BY DEF Forward!Inv, Forward!TypeOK
<1>2. CASE Forward!RunPortForward
  BY <1>2, ForwardStart
<1>3. CASE Forward!StopAll \/ Forward!SwitchContext
  <2>1. Forward!StopForwards /\ panel' \in [open : BOOLEAN, sel : {0}]
    <3>1. Forward!Clamped(panel.sel, 0) = 0
      BY DEF Forward!Clamped
    <3>2. CASE Forward!StopAll
      BY <1>1, <3>1, <3>2 DEF Forward!StopAll
    <3>3. CASE Forward!SwitchContext
      BY <3>3 DEF Forward!SwitchContext
    <3> QED BY <1>3, <3>2, <3>3
  <2> QED BY <2>1, ForwardStop
<1>4. CASE Forward!StopSelected
  <2>1. /\ UNCHANGED <<forwards, ready, waits, told, panel, ends, dismissed>>
        /\ handle' = Forward!Cancelled({forwards[panel.sel + 1]})
    BY <1>4 DEF Forward!StopSelected
  <2>2. /\ handle' \in [Forward!Id -> Forward!Handle]
        /\ \A i \in Forward!Id : /\ handle'[i].run = handle[i].run /\ handle'[i].readyCh = handle[i].readyCh
                                 /\ handle[i].cancelled => handle'[i].cancelled
    BY <1>1, <2>1, ForwardCancelled
  <2>3. Forward!TypeOK' /\ Forward!CursorStaysOnTheList' /\ Forward!ListedOnce'
    BY <1>1, <2>1, <2>2 DEF Forward!Inv, Forward!TypeOK, Forward!CursorStaysOnTheList, Forward!ListedOnce
  <2>4. ASSUME NEW i \in Forward!Id PROVE ForwardKept(i)'
    <3>1. ForwardKept(i) /\ Forward!Fresh(i)' = Forward!Fresh(i) /\ Forward!Listed(i)' = Forward!Listed(i) /\ Forward!OneWatcher(i)' = Forward!OneWatcher(i)
          /\ Forward!Reports(i)' = Forward!Reports(i) /\ Forward!Runs(i)' = Forward!Runs(i)
      BY <2>1, <2>2, ForwardParts DEF Forward!Fresh, Forward!Watchers, Forward!Commands, Forward!Reports, Forward!Listed, Forward!OneWatcher, Forward!Runs
    <3> QED BY <2>1, <2>2, <3>1 DEF ForwardKept
  <2> QED BY <2>3, <2>4, ForwardParts DEF Forward!Inv, ForwardKept
<1>5. CASE Forward!OpenForwardsPanel \/ Forward!ClosePanel \/ (\E to \in 0 .. MaxForwards : Forward!Move(to)) \/ UNCHANGED forwardVars
  <2>1. UNCHANGED <<handle, forwards, ready, waits, told, ends, dismissed>>
    BY <1>5 DEF Forward!OpenForwardsPanel, Forward!ClosePanel, Forward!Move, forwardVars
  <2>2. panel' \in [open : BOOLEAN, sel : Nat] /\ (panel'.sel < Len(forwards) \/ panel'.sel = 0)
    <3>1. CASE Forward!OpenForwardsPanel
      <4>1. Forward!Clamped(panel.sel, Len(forwards)) \in Nat
            /\ (Forward!Clamped(panel.sel, Len(forwards)) < Len(forwards) \/ Forward!Clamped(panel.sel, Len(forwards)) = 0)
        BY <1>1, ForwardClamped
      <4> QED BY <3>1, <4>1 DEF Forward!OpenForwardsPanel
    <3>2. ASSUME NEW to \in 0 .. MaxForwards, Forward!Move(to)
          PROVE  panel' \in [open : BOOLEAN, sel : Nat] /\ (panel'.sel < Len(forwards) \/ panel'.sel = 0)
      <4>1. Forward!Clamped(to, Len(forwards)) \in Nat
            /\ (Forward!Clamped(to, Len(forwards)) < Len(forwards) \/ Forward!Clamped(to, Len(forwards)) = 0)
        <5>1. to \in Nat
          OBVIOUS
        <5> QED BY <1>1, <5>1, ForwardClamped
      <4> QED BY <1>1, <3>2, <4>1 DEF Forward!Move
    <3>3. CASE Forward!ClosePanel \/ UNCHANGED forwardVars
      BY <1>1, <3>3 DEF Forward!ClosePanel, forwardVars, Forward!Inv, Forward!CursorStaysOnTheList
    <3> QED BY <1>5, <3>1, <3>2, <3>3
  <2>3. Forward!TypeOK' /\ Forward!CursorStaysOnTheList' /\ Forward!ListedOnce'
    BY <1>1, <2>1, <2>2 DEF Forward!Inv, Forward!TypeOK, Forward!CursorStaysOnTheList, Forward!ListedOnce
  <2>4. ASSUME NEW i \in Forward!Id PROVE ForwardKept(i)'
    BY <2>1, ForwardParts DEF ForwardKept, Forward!Fresh, Forward!Watchers, Forward!Commands, Forward!Reports, Forward!Listed, Forward!OneWatcher, Forward!Runs
  <2> QED BY <2>3, <2>4, ForwardParts DEF Forward!Inv, ForwardKept
<1> QED BY <1>2, <1>3, <1>4, <1>5 DEF Forward!Key

LEMMA ForwardInit == Forward!Init => Forward!Inv
<1> SUFFICES ASSUME Forward!Init PROVE Forward!Inv
  OBVIOUS
<1>1. Forward!TypeOK /\ Forward!CursorStaysOnTheList /\ Forward!ListedOnce
  BY DEF Forward!Init, Forward!TypeOK, Forward!CursorStaysOnTheList, Forward!ListedOnce, Forward!Handle, Forward!Range
<1>2. ASSUME NEW i \in Forward!Id PROVE ForwardKept(i)
  BY DEF Forward!Init, ForwardKept, Forward!Fresh, Forward!Watchers, Forward!Commands, Forward!Reports, Forward!Listed, Forward!Runs, Forward!Range
<1> QED BY <1>1, <1>2, ForwardParts

LEMMA ForwardStep == Forward!Inv /\ [Forward!Next]_forwardVars => Forward!Inv'
BY ForwardKey, ForwardMessage, ForwardDone, ForwardCommand, ForwardGoroutine DEF Forward!Next, Forward!HandleMessage, Forward!Command

LEMMA ForwardInv == Forward!Inv => Forward!TypeOK /\ Forward!ForwardsAreAccountedFor /\ Forward!CursorStaysOnTheList
<1> SUFFICES ASSUME Forward!Inv PROVE Forward!ForwardsAreAccountedFor
  BY DEF Forward!Inv
<1>1. ASSUME NEW i \in Forward!Id, ForwardKept(i)
      PROVE  /\ Forward!Runs(i) => Forward!Listed(i) \/ handle[i].cancelled
             /\ Forward!Listed(i) => \E w \in Forward!Watchers(i) : Forward!Watchers(i) = {w}
             /\ ends[i] <= 1 /\ (ends[i] = 1 => ~Forward!Listed(i) /\ i \notin dismissed)
             /\ i \in ready => handle[i].readyCh
  BY <1>1 DEF ForwardKept, Forward!OneWatcher, Forward!Watchers
<1> QED BY <1>1, ForwardParts DEF Forward!ForwardsAreAccountedFor


----------------------------- (* Reauth *) ----------------------------------
HIDE BehindAssumption DEF Forward!ForwardsAssumption
USE BehindAssumption DEF Login!ReauthAssumption

(* A failure known is a failure.                                            *)
LEMMA LoginKnown == Login!TypeOK => \A f : Login!Known(f) => f \in Login!Failure
BY DEF Login!TypeOK, Login!Known, Login!Message
LEMMA LoginTyped == Login!TypeOK => [type |-> "failure", gen |-> gen, cluster |-> cluster] \in Login!Failure
BY DEF Login!TypeOK, Login!Failure
LEMMA LoginNats ==
  Login!TypeOK => gen \in Nat /\ latch \in Nat /\ \A f \in Login!Failure : f.gen \in Nat
BY DEF Login!TypeOK, Login!Gen, Login!Failure

(* A step that only moves a failure on, or forgets one.                     *)
LEMMA LoginForgets ==
  ASSUME Login!TypeOK, Login!Traced, gen' \in Nat, gen <= gen', gen' = gen => UNCHANGED <<latch, cluster>>,
         diags' \subseteq diags, runs' = runs, armed' = armed \/ armed' = Login!None,
         armed' = armed => UNCHANGED cluster,
         \A m \in inbox' : m.type = "diag" => m \in inbox
  PROVE  Login!Traced'
<1>1. \A f : Login!Known(f)' => Login!Known(f)
  BY DEF Login!Known
<1>2. Login!Dated'
  BY <1>1, LoginKnown, LoginNats DEF Login!Traced, Login!Dated
<1>3. Login!Apart'
  BY DEF Login!Traced, Login!Apart
<1> QED BY <1>2, <1>3 DEF Login!Traced, Login!Armed, Login!LoginsStayHome

LEMMA LoginKeys ==
  ASSUME Login!TypeOK, Login!Traced, Login!Select \/ Login!WatchRecovers \/ Login!AnswerModal \/ Login!Quit \/ Login!TakeTerminal \/ Login!LoginEnds \/ Login!SwitchCluster
              \/ Login!Cover \/ Login!OtherDialog \/ UNCHANGED loginVars
  PROVE  Login!Traced'
<1>1. gen \in Nat
  BY LoginNats
<1>2. \A m \in inbox' : m.type = "diag" => m \in inbox
  <2>1. CASE Login!AnswerModal
    <3>1. PICK a \in {"confirmed", "cancelled"} :
            inbox' = inbox \cup {[type |-> a, kind |-> modal, key |-> keys']}
      BY <2>1 DEF Login!AnswerModal
    <3>2. [type |-> a, kind |-> modal, key |-> keys'].type # "diag"
      OBVIOUS
    <3> QED BY <3>1, <3>2
  <2>2. CASE Login!LoginEnds
    <3>1. PICK ok \in BOOLEAN : inbox' = inbox \cup {[type |-> "done", of |-> login.of, ok |-> ok]}
      BY <2>2 DEF Login!LoginEnds
    <3>2. [type |-> "done", of |-> login.of, ok |-> ok].type # "diag"
      OBVIOUS
    <3> QED BY <3>1, <3>2
  <2>3. CASE ~Login!AnswerModal /\ ~Login!LoginEnds
    BY <2>3 DEF Login!Select, Login!WatchRecovers, Login!Quit, Login!TakeTerminal, Login!SwitchCluster, Login!Cover, Login!OtherDialog, loginVars
  <2> QED BY <2>1, <2>2, <2>3
<1>3. CASE Login!Select \/ Login!SwitchCluster
  <2>1. gen' = gen + 1 /\ diags' = diags /\ runs' = runs
    BY <1>3 DEF Login!Select, Login!SwitchCluster, Login!WatchResource
  <2>2. armed' = Login!None \/ (armed' = armed /\ cluster' = cluster)
    BY <1>3 DEF Login!Select, Login!SwitchCluster, Login!Disarm
  <2>3. CASE armed' = armed /\ cluster' = cluster
    BY <1>1, <1>2, <2>1, <2>3, LoginForgets
  <2>4. CASE armed' = Login!None /\ armed # Login!None
    BY <1>1, <1>2, <2>1, <2>4, LoginForgets
  <2>5. CASE armed' = Login!None /\ armed = Login!None
    <3>1. \A f : Login!Known(f)' => Login!Known(f)
      BY <1>2, <2>1, <2>5 DEF Login!Known
    <3>2. Login!Dated'
        BY <1>1, <2>1, <3>1, LoginNats DEF Login!Traced, Login!Dated
      <3>3. Login!Apart' /\ Login!Armed' /\ Login!LoginsStayHome'
        BY <1>2, <2>1, <2>5 DEF Login!Traced, Login!Apart, Login!Armed, Login!LoginsStayHome
      <3> QED BY <3>2, <3>3 DEF Login!Traced
  <2> QED BY <2>2, <2>3, <2>4, <2>5
<1>4. CASE ~Login!Select /\ ~Login!SwitchCluster
  <2>1. UNCHANGED <<gen, latch, cluster, diags, runs, armed>>
    BY <1>4 DEF Login!WatchRecovers, Login!AnswerModal, Login!Quit, Login!TakeTerminal, Login!LoginEnds, Login!Cover, Login!OtherDialog, loginVars
  <2> QED BY <1>1, <1>2, <2>1, LoginForgets
<1> QED BY <1>3, <1>4

LEMMA LoginFailing == Login!TypeOK /\ Login!Traced /\ Login!WatchFails => Login!Traced'
<1> SUFFICES ASSUME Login!TypeOK, Login!Traced, Login!WatchFails PROVE Login!Traced'
  OBVIOUS
<1>1. UNCHANGED <<cluster, gen, armed, inbox, runs>>
  BY DEF Login!WatchFails
<1>2. CASE latch = gen
  <2>1. UNCHANGED <<latch, diags>>
    BY <1>2 DEF Login!WatchFails
  <2> QED BY <1>1, <2>1, LoginForgets, LoginNats
<1>3. CASE latch # gen
  <2> DEFINE d == [type |-> "failure", gen |-> gen, cluster |-> cluster]
  <2>1. latch' = gen /\ diags' = diags \cup {d}
    BY <1>3 DEF Login!WatchFails
  <2>2. d.gen = gen /\ d.cluster = cluster
    OBVIOUS
  <2> HIDE DEF d
  <2>3. ~Login!Known(d)
    <3>1. d \in Login!Failure
      BY LoginTyped DEF d
    <3> QED BY <1>3, <2>2, <3>1 DEF Login!Traced, Login!Dated
  <2>4. \A f : Login!Known(f)' => Login!Known(f) \/ f = d
    BY <1>1, <2>1 DEF Login!Known
  <2>5. Login!Dated'
    BY <1>1, <2>1, <2>2, <2>4, LoginNats DEF Login!Traced, Login!Dated
  <2>6. Login!Apart'
    BY <1>1, <2>1, <2>3 DEF Login!Traced, Login!Apart, Login!Known
  <2> QED BY <1>1, <2>5, <2>6 DEF Login!Traced, Login!Armed, Login!LoginsStayHome
<1> QED BY <1>2, <1>3

LEMMA LoginDiagnosing ==
  ASSUME Login!TypeOK, Login!Traced, NEW d \in diags, Login!Diagnose(d)
  PROVE  Login!Traced'
<1>1. UNCHANGED <<cluster, gen, latch, armed, runs>> /\ diags' = diags \ {d}
  BY DEF Login!Diagnose
<1>2. PICK n : inbox' = inbox \cup {n} /\ n.type = "diag" /\ n.of = d
  <2>1. PICK r \in Login!Report : inbox' = inbox \cup {[type |-> "diag", of |-> d, report |-> r]}
    BY DEF Login!Diagnose
  <2>2. /\ [type |-> "diag", of |-> d, report |-> r].type = "diag"
        /\ [type |-> "diag", of |-> d, report |-> r].of = d
    OBVIOUS
  <2> QED BY <2>1, <2>2
<1>3. \A f : Login!Known(f)' => Login!Known(f)
  BY <1>1, <1>2 DEF Login!Known
<1>4. Login!Dated'
  BY <1>1, <1>3 DEF Login!Traced, Login!Dated
<1>5. Login!Apart'
  BY <1>1, <1>2 DEF Login!Traced, Login!Apart
<1> QED BY <1>1, <1>4, <1>5 DEF Login!Traced, Login!Armed, Login!LoginsStayHome

LEMMA LoginHandling ==
  ASSUME Login!TypeOK, Login!Traced, NEW m \in inbox,
         Login!HandleAuthDiag(m) \/ Login!Accept(m) \/ Login!Decline(m) \/ Login!OtherAnswered(m) \/ Login!HandleReauthDone(m)
  PROVE  Login!Traced'
<1>1. inbox' = inbox \ {m} /\ gen \in Nat
  BY LoginNats DEF Login!HandleAuthDiag, Login!Accept, Login!Decline, Login!OtherAnswered, Login!HandleReauthDone, Login!Take
<1>2. CASE Login!HandleAuthDiag(m) /\ armed' # armed /\ armed' # Login!None
  <2>1. UNCHANGED <<cluster, gen, latch, diags, runs>> /\ m.type = "diag" /\ m.of.gen = gen /\ armed' = m.of
    BY <1>2 DEF Login!HandleAuthDiag, Login!Explains, Login!Disarm
  <2>2. Login!Known(m.of)
    BY <2>1 DEF Login!Known
  <2>3. \A f : Login!Known(f)' => Login!Known(f)
    BY <1>1, <2>1 DEF Login!Known
  <2>4. Login!Dated'
    BY <2>1, <2>3 DEF Login!Traced, Login!Dated
  <2>5. Login!Apart'
    BY <1>1, <2>1 DEF Login!Traced, Login!Apart
  <2>6. Login!Armed'
    BY <2>1, <2>2, LoginKnown DEF Login!Traced, Login!Dated, Login!Armed
  <2> QED BY <2>1, <2>4, <2>5, <2>6 DEF Login!Traced, Login!LoginsStayHome
<1>3. CASE Login!Accept(m) /\ armed # Login!None
  <2>1. UNCHANGED <<cluster, gen, latch, diags>> /\ armed' = Login!None /\ m.type = "confirmed"
    BY <1>3 DEF Login!Accept, Login!Disarm
  <2>2. PICK r : /\ runs' = runs \cup {r} /\ r.of = armed /\ r.on = cluster
                 /\ r.again = \E q \in runs : q.of = armed
    <3> DEFINE s == [of |-> armed, on |-> cluster, again |-> \E q \in runs : q.of = armed]
    <3>1. runs' = runs \cup {s}
      BY <1>3 DEF Login!Accept
    <3>2. s.of = armed /\ s.on = cluster /\ s.again = \E q \in runs : q.of = armed
      OBVIOUS
    <3> HIDE DEF s
    <3> QED BY <3>1, <3>2
  <2>3. \A f : Login!Known(f)' => Login!Known(f)
    BY <1>1, <1>3, <2>1, <2>2 DEF Login!Known
  <2>4. Login!Dated'
    BY <2>1, <2>3 DEF Login!Traced, Login!Dated
  <2>5. Login!Apart'
    BY <1>1, <1>3, <2>1, <2>2 DEF Login!Traced, Login!Apart
  <2>6. Login!LoginsStayHome'
    BY <1>3, <2>1, <2>2 DEF Login!Traced, Login!Apart, Login!Armed, Login!LoginsStayHome
  <2> QED BY <2>1, <2>4, <2>5, <2>6 DEF Login!Traced, Login!Armed
<1>4. CASE Login!HandleReauthDone(m)
  <2>1. UNCHANGED <<cluster, latch, diags, armed, runs>> /\ (gen' = gen \/ gen' = gen + 1)
    BY <1>4 DEF Login!HandleReauthDone, Login!WatchResource
  <2> QED BY <1>1, <2>1, LoginForgets
<1>5. CASE /\ ~Login!HandleReauthDone(m) /\ ~(Login!Accept(m) /\ armed # Login!None)
           /\ ~(Login!HandleAuthDiag(m) /\ armed' # armed /\ armed' # Login!None)
  <2>1. UNCHANGED <<cluster, gen, latch, diags, runs>> /\ (armed' = armed \/ armed' = Login!None)
    BY <1>5 DEF Login!HandleAuthDiag, Login!Accept, Login!Decline, Login!OtherAnswered, Login!Disarm
  <2> QED BY <1>1, <2>1, LoginForgets
<1> QED BY <1>2, <1>3, <1>4, <1>5


LEMMA LoginMessages ==
  ASSUME Login!TypeOK, NEW m \in inbox
  PROVE  /\ m.type \in {"diag", "confirmed", "cancelled", "done"}
         /\ m.type \in {"diag", "done"} => m.of \in Login!Failure
BY DEF Login!TypeOK, Login!Message

LEMMA LoginNotices ==
  ASSUME NEW m, m.of \in Login!Failure
  PROVE  /\ Login!Told(m) \in Login!Notice /\ Login!Told(m).gen = m.of.gen /\ Login!Told(m).cluster = m.of.cluster
         /\ Login!Told(m).type = "told"
         /\ Login!Asking(m) \in Login!Notice /\ Login!Asking(m).gen = m.of.gen /\ Login!Asking(m).cluster = m.of.cluster
         /\ Login!Asking(m).type = "asking"
BY DEF Login!Told, Login!Asking, Login!Notice, Login!Failure

(* The pane with another notice.                                            *)
Panes == [live : BOOLEAN, rows : BOOLEAN, notice : Login!Notice \cup {Login!None}]
LEMMA LoginPane ==
  ASSUME pane \in Panes, NEW n \in Login!Notice \cup {Login!None}
  PROVE  [pane EXCEPT !.notice = n] \in Panes /\ [pane EXCEPT !.notice = n].notice = n
BY DEF Panes

LEMMA LoginBlank ==
  /\ Login!Blank \in Panes /\ Login!Blank.notice = Login!None /\ Login!None.type = "none"
  /\ [Login!Blank EXCEPT !.live = TRUE] \in Panes /\ [Login!Blank EXCEPT !.live = TRUE].notice = Login!None
BY DEF Login!Blank, Panes, Login!None

LEMMA LoginRestored ==
  ASSUME Login!TypeOK, Login!Noticed
  PROVE  /\ Login!Restored \in Panes /\ Login!Restored.notice.type # "asking"
         /\ Login!Restored.notice # Login!None => Login!Restored.notice.gen = gen /\ Login!Restored.notice.cluster = cluster
<1>1. pane \in Panes /\ offer \in Login!Notice \cup {Login!None}
  BY DEF Login!TypeOK, Panes
<1>2. CASE offer # Login!None /\ pane.notice = offer
  <2> DEFINE n == [offer EXCEPT !.type = "told"]
  <2>1. n \in Login!Notice /\ n.type = "told" /\ n.gen = offer.gen /\ n.cluster = offer.cluster
    BY <1>1, <1>2 DEF Login!Notice
  <2>2. Login!Restored = [pane EXCEPT !.notice = n]
    BY <1>2 DEF Login!Restored
  <2> HIDE DEF n
  <2>3. Login!Restored \in Panes /\ Login!Restored.notice = n
    BY <1>1, <2>1, <2>2, LoginPane
  <2> QED BY <1>2, <2>1, <2>3 DEF Login!Noticed
<1>3. CASE ~(offer # Login!None /\ pane.notice = offer)
  <2>1. Login!Restored = pane
    BY <1>3 DEF Login!Restored
  <2>2. pane.notice.type # "asking"
    BY <1>1, <1>3, LoginBlank DEF Login!Noticed
  <2> QED BY <1>1, <2>1, <2>2 DEF Login!Noticed
<1> QED BY <1>2, <1>3

(* Everything but where failures are.                                       *)
Settled == Login!TypeOK /\ Login!Noticed /\ Login!Latched

LEMMA LoginRewatched ==
  ASSUME Login!TypeOK, Login!Latched, gen' = gen + 1, gen < MaxSelections, pane' \in Panes, pane'.notice = Login!None,
         cluster' \in Login!Cluster, latch' \in Login!Gen, diagnosed' = diagnosed
  PROVE  Login!Noticed' /\ Login!Latched' /\ gen' \in Login!Gen
<1>1. Login!Noticed'
  BY LoginBlank DEF Login!Noticed, Login!AskingMeansAsked
<1>2. gen \in 0 .. MaxSelections /\ MaxSelections \in Nat /\ gen' \in Login!Gen
  BY DEF Login!TypeOK, Login!Gen
<1>3. \A g \in Login!Gen : g \in Int
  BY <1>2 DEF Login!Gen
<1>4. Login!Latched'
  BY <1>2, <1>3 DEF Login!Latched
<1> QED BY <1>1, <1>2, <1>4

LEMMA LoginSettledKeys ==
  ASSUME Settled, \/ Login!AnswerModal \/ Login!Quit \/ Login!TakeTerminal \/ Login!LoginEnds \/ Login!Cover \/ Login!OtherDialog \/ UNCHANGED loginVars
                  \/ \E d \in diags : Login!Diagnose(d)
                  \/ \E m \in inbox : Login!Loop /\ Login!OtherAnswered(m)
  PROVE  Settled'
<1>1. UNCHANGED <<cluster, gen, latch, pane, armed, offer, runs, diagnosed>>
  BY DEF Login!AnswerModal, Login!Quit, Login!TakeTerminal, Login!LoginEnds, Login!Cover, Login!OtherDialog, loginVars, Login!Diagnose, Login!OtherAnswered
<1>2. Login!TypeOK
  BY DEF Settled
<1>3. Login!Noticed' /\ Login!Latched'
  <2>1. /\ overlaid => overlaid'
        /\ ~overlaid' /\ modal = "reauth" => modal' = "reauth"
    BY <1>2 DEF Login!AnswerModal, Login!Quit, Login!TakeTerminal, Login!LoginEnds, Login!Cover, Login!OtherDialog, loginVars, Login!Diagnose, Login!OtherAnswered, Login!TypeOK
  <2> QED BY <1>1, <2>1 DEF Settled, Login!Noticed, Login!Latched, Login!AskingMeansAsked
<1>4. inbox' \subseteq Login!Message
  <2>1. CASE Login!AnswerModal
    <3>1. PICK a \in {"confirmed", "cancelled"} :
            inbox' = inbox \cup {[type |-> a, kind |-> modal, key |-> keys']}
      BY <2>1 DEF Login!AnswerModal
    <3>2. modal \in {"reauth", "other"} /\ keys' \in 1 .. MaxKeys
      BY <1>2, <2>1 DEF Login!AnswerModal, Login!Key, Login!TypeOK
    <3>3. [type |-> a, kind |-> modal, key |-> keys'] \in Login!Message
      BY <3>2 DEF Login!Message
    <3> QED BY <1>2, <3>1, <3>3 DEF Login!TypeOK
  <2>2. CASE Login!LoginEnds
    <3>1. PICK ok \in BOOLEAN : inbox' = inbox \cup {[type |-> "done", of |-> login.of, ok |-> ok]}
      BY <2>2 DEF Login!LoginEnds
    <3>2. login.of \in Login!Failure
      BY <1>2, <2>2 DEF Login!LoginEnds, Login!TypeOK, Login!NoLogin
    <3>3. [type |-> "done", of |-> login.of, ok |-> ok] \in Login!Message
      BY <3>2 DEF Login!Message
    <3> QED BY <1>2, <3>1, <3>3 DEF Login!TypeOK
  <2>3. ASSUME NEW d \in diags, Login!Diagnose(d) PROVE inbox' \subseteq Login!Message
    <3>1. PICK r \in Login!Report : inbox' = inbox \cup {[type |-> "diag", of |-> d, report |-> r]}
      BY <2>3 DEF Login!Diagnose
    <3>2. [type |-> "diag", of |-> d, report |-> r] \in Login!Message
      BY <1>2 DEF Login!Message, Login!TypeOK
    <3> QED BY <1>2, <3>1, <3>2 DEF Login!TypeOK
  <2>4. CASE inbox' = inbox \/ (\E m \in inbox : Login!Take(m))
    BY <1>2, <2>4 DEF Login!TypeOK, Login!Take
  <2>5. CASE Login!Quit \/ Login!TakeTerminal \/ Login!Cover \/ Login!OtherDialog \/ UNCHANGED loginVars \/ \E m \in inbox : Login!OtherAnswered(m)
    BY <2>4, <2>5 DEF Login!Quit, Login!TakeTerminal, Login!Cover, Login!OtherDialog, loginVars, Login!OtherAnswered
  <2> QED BY <2>1, <2>2, <2>3, <2>5
<1>5. login' \in [at : {"queued", "running"}, of : Login!Failure] \cup {Login!NoLogin} /\ stderr' \in {"log", "terminal"}
  <2>1. CASE Login!TakeTerminal
    BY <1>2, <2>1 DEF Login!TakeTerminal, Login!TypeOK, Login!NoLogin
  <2>2. CASE Login!LoginEnds
    BY <2>2 DEF Login!LoginEnds
  <2>3. CASE ~Login!TakeTerminal /\ ~Login!LoginEnds
    <3>1. UNCHANGED <<login, stderr>>
      BY <2>3 DEF Login!AnswerModal, Login!Quit, Login!Cover, Login!OtherDialog, loginVars, Login!Diagnose, Login!OtherAnswered, Login!Key, Login!Loop
    <3> QED BY <1>2, <3>1 DEF Login!TypeOK
  <2> QED BY <2>1, <2>2, <2>3
<1>6. diags' \subseteq diags /\ modal' \in {"none", "reauth", "other"} /\ covered' \in BOOLEAN
      /\ keys' \in 0 .. MaxKeys /\ overlaid' \in BOOLEAN
  <2>1. keys' = keys \/ (keys < MaxKeys /\ keys' = keys + 1)
    BY DEF Login!AnswerModal, Login!Quit, Login!TakeTerminal, Login!LoginEnds, Login!Cover, Login!OtherDialog, loginVars, Login!Diagnose, Login!OtherAnswered, Login!Key
  <2>2. keys' \in 0 .. MaxKeys
    BY <1>2, <2>1 DEF Login!TypeOK
  <2>3. /\ diags' \subseteq diags /\ modal' \in {modal, "none", "other"}
        /\ covered' \in {covered, ~covered} /\ overlaid' \in {overlaid, overlaid \/ modal = "reauth"}
    BY DEF Login!AnswerModal, Login!Quit, Login!TakeTerminal, Login!LoginEnds, Login!Cover, Login!OtherDialog, loginVars, Login!Diagnose, Login!OtherAnswered
  <2> QED BY <1>2, <2>2, <2>3 DEF Login!TypeOK
<1>7. Login!TypeOK'
  BY <1>1, <1>2, <1>4, <1>5, <1>6 DEF Login!TypeOK
<1> QED BY <1>3, <1>7 DEF Settled

LEMMA LoginSettledWatch ==
  ASSUME Settled, Login!Select \/ Login!WatchFails \/ Login!WatchRecovers \/ Login!SwitchCluster
  PROVE  Settled'
<1>1. Login!TypeOK /\ pane \in Panes
  BY DEF Settled, Login!TypeOK, Panes
<1>2. CASE Login!Select
  <2>1. gen' = gen + 1 /\ gen < MaxSelections /\ pane' = [Login!Blank EXCEPT !.live = TRUE]
        /\ UNCHANGED <<cluster, latch, diags, armed, offer, modal, covered, inbox, login, runs, diagnosed, overlaid, stderr>>
        /\ keys' \in 0 .. MaxKeys
    BY <1>1, <1>2 DEF Login!Select, Login!WatchResource, Login!Key, Login!Loop, Login!TypeOK
  <2>2. Login!Noticed' /\ Login!Latched' /\ gen' \in Login!Gen
    BY <1>1, <2>1, LoginRewatched, LoginBlank DEF Settled, Login!TypeOK
  <2>3. Login!TypeOK'
    BY <1>1, <2>1, <2>2, LoginBlank DEF Login!TypeOK, Panes
  <2> QED BY <2>2, <2>3 DEF Settled
<1>3. CASE Login!SwitchCluster
  <2>1. gen' = gen + 1 /\ gen < MaxSelections /\ pane' = Login!Blank /\ cluster' \in Login!Cluster /\ latch' = 0
        /\ armed' = Login!None /\ offer' = Login!None /\ modal' = "none" /\ covered' = FALSE
        /\ UNCHANGED <<diags, inbox, login, keys, runs, diagnosed, overlaid, stderr>>
    BY <1>1, <1>3 DEF Login!SwitchCluster, Login!Loop, Login!Disarm, Login!TypeOK, Login!Cluster
  <2>2. latch' \in Login!Gen
    BY <2>1 DEF Login!Gen
  <2>3. Login!Noticed' /\ Login!Latched' /\ gen' \in Login!Gen
    BY <1>1, <2>1, <2>2, LoginRewatched, LoginBlank DEF Settled
  <2>4. Login!TypeOK'
    BY <1>1, <2>1, <2>2, <2>3, LoginBlank DEF Login!TypeOK, Panes
  <2> QED BY <2>3, <2>4 DEF Settled
<1>4. CASE Login!WatchRecovers
  <2>1. PICK some \in BOOLEAN : pane' = [pane EXCEPT !.rows = some, !.notice = Login!None]
    BY <1>4 DEF Login!WatchRecovers
  <2>2. pane' \in Panes /\ pane'.notice = Login!None
    BY <1>1, <2>1 DEF Panes
  <2>3. UNCHANGED <<cluster, gen, latch, diags, armed, offer, modal, covered, inbox, login, keys, runs, diagnosed, overlaid, stderr>>
    BY <1>4 DEF Login!WatchRecovers, Login!Loop
  <2>4. Login!Noticed' /\ Login!Latched'
    BY <2>2, <2>3, LoginBlank DEF Settled, Login!Noticed, Login!Latched, Login!AskingMeansAsked
  <2>5. Login!TypeOK'
    BY <1>1, <2>2, <2>3 DEF Login!TypeOK, Panes
  <2> QED BY <2>4, <2>5 DEF Settled
<1>5. CASE Login!WatchFails
  <2> DEFINE n == [type |-> "generic", gen |-> gen, cluster |-> cluster]
             d == [type |-> "failure", gen |-> gen, cluster |-> cluster]
  <2>1. pane' = [pane EXCEPT !.notice = n]
        /\ UNCHANGED <<cluster, gen, armed, offer, modal, covered, inbox, login, keys, runs, overlaid, stderr>>
    BY <1>5 DEF Login!WatchFails, Login!Loop
  <2>2. n \in Login!Notice /\ n.type = "generic" /\ n.gen = gen /\ n.cluster = cluster /\ n # Login!None
    BY <1>1, LoginBlank DEF Login!TypeOK, Login!Notice
  <2>3. d \in Login!Failure
    BY <1>1, LoginTyped
  <2>4. \/ latch = gen /\ UNCHANGED <<latch, diags, diagnosed>>
        \/ latch # gen /\ latch' = gen /\ diagnosed' = [diagnosed EXCEPT ![gen] = diagnosed[gen] + 1]
           /\ diags' = diags \cup {d}
    BY <1>5 DEF Login!WatchFails
  <2> HIDE DEF n, d
  <2>5. pane' \in Panes /\ pane'.notice = n
    BY <1>1, <2>1, <2>2, LoginPane
  <2>6. Login!Noticed'
    BY <2>1, <2>2, <2>5 DEF Login!Noticed, Login!AskingMeansAsked
  <2>7. gen \in Login!Gen /\ gen \in Int /\ diagnosed \in [Login!Gen -> Nat] /\ \A g \in Login!Gen : g \in Int
    BY <1>1 DEF Login!TypeOK, Login!Gen
  <2>8. diagnosed' \in [Login!Gen -> Nat] /\ Login!Latched'
    <3>1. CASE latch = gen
      BY <2>1, <2>4, <2>7, <3>1 DEF Settled, Login!Latched
    <3>2. CASE latch # gen
      <4>1. diagnosed[gen] = 0
        BY <2>7, <3>2 DEF Settled, Login!Latched
      <4>2. diagnosed' \in [Login!Gen -> Nat] /\ diagnosed'[gen] = 1 /\ \A g \in Login!Gen : g # gen => diagnosed'[g] = diagnosed[g]
        BY <2>4, <2>7, <3>2, <4>1
      <4> QED BY <2>1, <2>4, <2>7, <3>2, <4>2 DEF Settled, Login!Latched
    <3> QED BY <3>1, <3>2
  <2>9. latch' \in Login!Gen /\ diags' \subseteq Login!Failure
    BY <1>1, <2>3, <2>4 DEF Login!TypeOK
  <2>10. Login!TypeOK'
    BY <1>1, <2>1, <2>5, <2>8, <2>9 DEF Login!TypeOK, Panes
  <2> QED BY <2>6, <2>8, <2>10 DEF Settled
<1> QED BY <1>2, <1>3, <1>4, <1>5

LEMMA LoginSettledDiag ==
  ASSUME Settled, Login!Dated, NEW m \in inbox, Login!Loop, Login!HandleAuthDiag(m)
  PROVE  Settled'
<1>1. Login!TypeOK /\ pane \in Panes /\ m.of \in Login!Failure /\ inbox' \subseteq Login!Message
  BY LoginMessages DEF Settled, Login!TypeOK, Panes, Login!HandleAuthDiag, Login!Take
<1>2. UNCHANGED <<cluster, gen, latch, diags, covered, login, keys, runs, diagnosed, overlaid, stderr>>
  BY DEF Login!HandleAuthDiag, Login!Loop
<1>3. /\ Login!Told(m) \in Login!Notice /\ Login!Told(m).gen = m.of.gen /\ Login!Told(m).cluster = m.of.cluster
      /\ Login!Told(m).type = "told"
      /\ Login!Asking(m) \in Login!Notice /\ Login!Asking(m).gen = m.of.gen /\ Login!Asking(m).cluster = m.of.cluster
      /\ Login!Asking(m).type = "asking"
  BY <1>1, LoginNotices
<1>4. Login!Explains(m) => m.of.gen = gen /\ m.of.cluster = cluster
  BY <1>1 DEF Login!Explains, Login!Dated, Login!Known, Login!HandleAuthDiag
<1>5. CASE UNCHANGED <<pane, armed, offer, modal>>
  BY <1>1, <1>2, <1>5 DEF Settled, Login!TypeOK, Login!Noticed, Login!Latched, Login!AskingMeansAsked
<1>6. CASE Login!Explains(m) /\ pane' = [pane EXCEPT !.notice = Login!Told(m)] /\ UNCHANGED modal
           /\ (UNCHANGED <<armed, offer>> \/ Login!Disarm)
  <2>1. pane' \in Panes /\ pane'.notice = Login!Told(m)
    BY <1>1, <1>3, <1>6, LoginPane
  <2>2. Login!Noticed' /\ Login!Latched'
    BY <1>2, <1>3, <1>4, <1>6, <2>1 DEF Settled, Login!Noticed, Login!Latched, Login!AskingMeansAsked
  <2>3. armed' \in Login!Failure \cup {Login!None} /\ offer' \in Login!Notice \cup {Login!None} /\ modal' \in {"none", "reauth", "other"}
    BY <1>1, <1>6 DEF Login!Disarm, Login!TypeOK
  <2>4. Login!TypeOK'
    BY <1>1, <1>2, <2>1, <2>3 DEF Login!TypeOK, Panes
  <2> QED BY <2>2, <2>4 DEF Settled
<1>7. CASE Login!Explains(m) /\ pane' = [pane EXCEPT !.notice = Login!Asking(m)] /\ armed' = m.of
           /\ offer' = Login!Asking(m) /\ modal' = "reauth"
  <2>1. pane' \in Panes /\ pane'.notice = Login!Asking(m)
    BY <1>1, <1>3, <1>7, LoginPane
  <2>2. Login!Noticed' /\ Login!Latched'
    BY <1>2, <1>3, <1>4, <1>7, <2>1 DEF Settled, Login!Noticed, Login!Latched, Login!AskingMeansAsked
  <2>3. Login!TypeOK'
    BY <1>1, <1>2, <1>3, <1>7, <2>1 DEF Login!TypeOK, Panes
  <2> QED BY <2>2, <2>3 DEF Settled
<1> QED BY <1>5, <1>6, <1>7 DEF Login!HandleAuthDiag

LEMMA LoginSettledAnswer ==
  ASSUME Settled, NEW m \in inbox, Login!Loop, Login!Accept(m) \/ Login!Decline(m)
  PROVE  Settled'
<1>1. Login!TypeOK /\ inbox' \subseteq Login!Message
  BY DEF Settled, Login!TypeOK, Login!Accept, Login!Decline, Login!Take
<1>2. UNCHANGED <<cluster, gen, latch, diags, covered, keys, diagnosed, overlaid, stderr>>
      /\ armed' = Login!None /\ offer' = Login!None /\ modal' = "none" /\ pane' = Login!Restored
  BY DEF Login!Accept, Login!Decline, Login!Loop, Login!Disarm
<1>3. /\ Login!Restored \in Panes /\ Login!Restored.notice.type # "asking"
      /\ Login!Restored.notice # Login!None => Login!Restored.notice.gen = gen /\ Login!Restored.notice.cluster = cluster
  BY LoginRestored DEF Settled
<1>4. login' \in [at : {"queued", "running"}, of : Login!Failure] \cup {Login!NoLogin}
  BY <1>1 DEF Login!Accept, Login!Decline, Login!TypeOK
<1>5. runs' \subseteq [of : Login!Failure, on : Login!Cluster, again : BOOLEAN]
  <2> DEFINE r == [of |-> armed, on |-> cluster, again |-> \E q \in runs : q.of = armed]
  <2>1. armed # Login!None => r \in [of : Login!Failure, on : Login!Cluster, again : BOOLEAN]
    BY <1>1 DEF Login!TypeOK
  <2>2. runs' = runs \/ (armed # Login!None /\ runs' = runs \cup {r})
    BY DEF Login!Accept, Login!Decline
  <2> HIDE DEF r
  <2> QED BY <1>1, <2>1, <2>2 DEF Login!TypeOK
<1>6. Login!TypeOK'
  BY <1>1, <1>2, <1>3, <1>4, <1>5 DEF Login!TypeOK, Panes
<1>7. Login!Noticed' /\ Login!Latched'
  BY <1>2, <1>3 DEF Settled, Login!Noticed, Login!Latched, Login!AskingMeansAsked
<1> QED BY <1>6, <1>7 DEF Settled

LEMMA LoginSettledDone ==
  ASSUME Settled, NEW m \in inbox, Login!Loop, Login!HandleReauthDone(m)
  PROVE  Settled'
<1>1. Login!TypeOK /\ inbox' \subseteq Login!Message
  BY DEF Settled, Login!TypeOK, Login!HandleReauthDone, Login!Take
<1>2. UNCHANGED <<cluster, latch, diags, armed, offer, modal, covered, login, keys, runs, diagnosed, overlaid, stderr>>
  BY DEF Login!HandleReauthDone, Login!Loop
<1>3. CASE Login!WatchResource
  <2>1. gen' = gen + 1 /\ gen < MaxSelections /\ pane' = [Login!Blank EXCEPT !.live = TRUE]
    BY <1>3 DEF Login!WatchResource
  <2>2. Login!Noticed' /\ Login!Latched' /\ gen' \in Login!Gen
    BY <1>1, <1>2, <2>1, LoginRewatched, LoginBlank DEF Settled, Login!TypeOK
  <2>3. Login!TypeOK'
    BY <1>1, <1>2, <2>1, <2>2, LoginBlank DEF Login!TypeOK, Panes
  <2> QED BY <2>2, <2>3 DEF Settled
<1>4. CASE UNCHANGED <<gen, pane>>
  BY <1>1, <1>2, <1>4 DEF Settled, Login!TypeOK, Login!Noticed, Login!Latched, Login!AskingMeansAsked
<1> QED BY <1>3, <1>4 DEF Login!HandleReauthDone

LEMMA LoginInit == Login!Init => Login!Inv
<1> SUFFICES ASSUME Login!Init PROVE Login!Inv
  OBVIOUS
<1>1. Login!TypeOK
  <2>1. 1 \in Login!Cluster /\ 0 \in Login!Gen /\ 0 \in 0 .. MaxKeys
    BY DEF Login!Cluster, Login!Gen
  <2>2. [g \in Login!Gen |-> 0] \in [Login!Gen -> Nat]
    OBVIOUS
  <2> QED BY <2>1, <2>2, LoginBlank DEF Login!Init, Login!TypeOK, Panes
<1>2. Login!Traced
  BY DEF Login!Init, Login!Traced, Login!Dated, Login!Apart, Login!Armed, Login!LoginsStayHome, Login!Known
<1>3. Login!Noticed /\ Login!Latched
  BY LoginBlank DEF Login!Init, Login!Noticed, Login!Latched, Login!AskingMeansAsked
<1> QED BY <1>1, <1>2, <1>3 DEF Login!Inv

LEMMA LoginStep == Login!Inv /\ [Login!Next]_loginVars => Login!Inv'
<1> SUFFICES ASSUME Login!Inv, [Login!Next]_loginVars PROVE Login!Inv'
  OBVIOUS
<1>1. Login!TypeOK /\ Login!Traced /\ Settled /\ Login!Dated
  BY DEF Login!Inv, Settled, Login!Traced
<1>2. Login!Traced'
  BY <1>1, LoginKeys, LoginFailing, LoginDiagnosing, LoginHandling DEF Login!Next, Login!Handle
<1>3. Settled'
  BY <1>1, LoginSettledKeys, LoginSettledWatch, LoginSettledDiag, LoginSettledAnswer, LoginSettledDone
     DEF Login!Next, Login!Handle
<1> QED BY <1>2, <1>3 DEF Login!Inv, Settled

LEMMA LoginInv ==
  Login!Inv => Login!TypeOK /\ Login!LoginsStayHome /\ Login!PaneExplainsItself /\ Login!AskingMeansAskedIfAnswered
BY DEF Login!Inv, Login!Traced, Login!Noticed, Login!Latched, Login!PaneExplainsItself, Login!AskingMeansAskedIfAnswered


---------------------------- (* all of it *) --------------------------------
HIDE BehindAssumption DEF Login!ReauthAssumption
Inv ==
  /\ part = "sweep" => Sweep!Inv
  /\ part = "broken" => Broken!Inv
  /\ part = "stream" => Stream!Inv
  /\ part = "forward" => Forward!Inv
  /\ part = "login" => Login!Inv

LEMMA InitInv == Init => Inv
BY SweepInit, BrokenInit, StreamInit, ForwardInit, LoginInit DEF Init, Inv

LEMMA InvStep == Inv /\ [Next]_v => Inv'
<1> SUFFICES ASSUME Inv, [Next]_v PROVE Inv'
  OBVIOUS
<1>1. CASE part = "sweep"
  <2>1. part' = part /\ [Sweep!Next]_sweepVars
    BY <1>1 DEF Next, v
  <2> QED BY <1>1, <2>1, SweepStep DEF Inv
<1>2. CASE part = "broken"
  <2>1. part' = part /\ [Broken!Next]_brokenVars
    BY <1>2 DEF Next, v
  <2> QED BY <1>2, <2>1, BrokenStep DEF Inv
<1>3. CASE part = "stream"
  <2>1. part' = part /\ [Stream!Next]_streamVars
    BY <1>3 DEF Next, v
  <2> QED BY <1>3, <2>1, StreamStep DEF Inv
<1>4. CASE part = "forward"
  <2>1. part' = part /\ [Forward!Next]_forwardVars
    BY <1>4 DEF Next, v
  <2> QED BY <1>4, <2>1, ForwardStep DEF Inv
<1>5. CASE part = "login"
  <2>1. part' = part /\ [Login!Next]_loginVars
    BY <1>5 DEF Next, v
  <2> QED BY <1>5, <2>1, LoginStep DEF Inv
<1> QED BY <1>1, <1>2, <1>3, <1>4, <1>5 DEF Next, v, Inv

LEMMA InvHolds == Spec => []Inv
BY InitInv, InvStep, PTL DEF Spec

(* search.go's searchRows and unhealthy.go's handleScanMsg: the end a view  *)
(* is shown is true, whatever the lists answer and whoever is cut short;    *)
(* every step of a sweep is one its channel promises; and a list that is    *)
(* done is one sweep's whole answer, one that scans has it to come.         *)
THEOREM EndsCorrect == Spec => EndIsTrue
<1> DEFINE Told == part = "sweep" => Sweep!TypeOK /\ Sweep!EndIsTrue
           Shown == part = "broken" =>
                      Broken!TypeOK /\ Broken!DoneIsOneSweep /\ Broken!ScanningMeansScanningHere
           First == part = "sweep" => Sweep!Channel!Init
           Step == part = "sweep" => Sweep!Promised
<1>1. Inv => Told
  BY SweepInv DEF Inv
<1>2. Inv => Shown
  BY BrokenInv DEF Inv
<1>3. Init => First
  BY SweepPromises DEF Init
<1>4. Inv /\ [Next]_v => [Step]_v
  <2> SUFFICES ASSUME Inv, Next, part = "sweep" PROVE Sweep!Promised
    OBVIOUS
  <2>1. Sweep!Inv /\ [Sweep!Next]_sweepVars
    BY DEF Inv, Next
  <2> QED BY <2>1, SweepPromised
<1> HIDE DEF Told, Shown, First, Step
<1>5. Spec => []Told /\ []Shown /\ First /\ [][Step]_v
  BY <1>1, <1>2, <1>3, <1>4, InvHolds, PTL DEF Spec
<1> QED BY <1>5 DEF EndIsTrue, Told, Shown, First, Step

(* logs.go's logResumer: however often the connection drops, the stream     *)
(* repeats no line of the log and skips none.                               *)
THEOREM StreamsCorrect == Spec => []TailedStreamIsTheLog
<1>1. Inv => TailedStreamIsTheLog
  BY StreamInv DEF Inv, TailedStreamIsTheLog
<1> QED BY <1>1, InvHolds, PTL

(* forwards.go's waitForward and handleForwardDone: every forward is shown  *)
(* until its end was told, once, and the cursor is on one that is shown.    *)
THEOREM ForwardsCorrect == Spec => []ForwardsAreAccountedFor
<1>1. Inv => ForwardsAreAccountedFor
  BY ForwardInv DEF Inv, ForwardsAreAccountedFor
<1> QED BY <1>1, InvHolds, PTL

(* reauth.go's handleAuthDiagMsg and acceptReauth: a login approved for one *)
(* cluster runs on that cluster, once, and the pane that explains a failure *)
(* explains its own.                                                        *)
THEOREM LoginsCorrect == Spec => []LoginsStayHome
<1>1. Inv => LoginsStayHome
  BY LoginInv DEF Inv, LoginsStayHome
<1> QED BY <1>1, InvHolds, PTL
=============================================================================
