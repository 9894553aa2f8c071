---------------------------- MODULE DrainProofs ----------------------------
(***************************************************************************)
(* Proofs about Drain, for any nodes, pods, options and bounds.            *)
(*                                                                         *)
(* "drained" is reported when the channel of the newest drain is found     *)
(* closed.  A channel also closes when its drain is cancelled; but the     *)
(* cancel that is kept is always the newest drain's (LiveDrain), so that   *)
(* one, while it is received from, was never cancelled, and a drain that   *)
(* was not cancelled only closes once the wait has seen every candidate    *)
(* gone (Progress).  Gone is for good: uids are never given twice.         *)
(***************************************************************************)
EXTENDS Drain, FiniteSetTheorems, TLAPS

USE DrainBoundAssumption

(* The pod a candidate stood for no longer exists.                          *)
Gone(r) == pods[r.name].uid # r.uid

(* No uid in use, or once settled on, is still to be given.                 *)
UidsAreOld ==
  /\ \A p \in Pod : pods[p].uid <= made
  /\ \A g \in Gen : \A r \in cands[g] : r.uid <= made

(* A generation not reached yet is untouched, and a drain that began has a  *)
(* node.                                                                    *)
NotStarted ==
  \A g \in Gen :
    /\ g > drainGen =>
         pc[g] = "off" /\ pump[g] = "off" /\ why[g] = None /\ told[g] = {} /\ ~dead[g]
    /\ pc[g] # "off" => node[g] \in Node

(* The newest drain, as long as it is listened to, is the live one.         *)
LiveDrain ==
  /\ live <= drainGen
  /\ \A g \in Gen : g = drainGen /\ pump[g] # "off" =>
       live = g /\ ~dead[g] /\ label = node[g]

(* What a drain that was not cancelled has seen gone: in the second pass,   *)
(* the pods it has dealt with, and once its channel is closed with no error *)
(* sent, all of them.  An outcome in the pump means a closed channel.       *)
Progress ==
  \A g \in Gen :
    /\ pc[g] \in {"off", "list"} => left[g] = {}
    /\ pump[g] \in Outcome => pc[g] = "closed"
    /\ ~dead[g] =>
         /\ pc[g] \in {"wait", "tellRemoved"} => \A r \in cands[g] \ left[g] : Gone(r)
         /\ pc[g] = "closed" /\ pump[g] \in {"receiving", "step", "drained"} =>
              \A r \in cands[g] : Gone(r)

(* A refusal is decided before the cordon, and only a refused drain's pump  *)
(* says so.                                                                 *)
Refusals ==
  \A g \in Gen :
    /\ pc[g] = "tellError" => why[g] # None
    /\ pc[g] \in {"off", "list"} => told[g] = {}
    /\ why[g] = "refused" => told[g] = {} /\ pc[g] \in {"tellError", "closed"}
    /\ pump[g] = "refused" => why[g] = "refused"

(* The last report is of a drain that is over, and it is true.              *)
Reports ==
  /\ report # Unheard => report.gen <= drainGen /\ pc[report.gen] = "closed"
  /\ DrainedMeansGone
  /\ RefusalLeavesNoCordon

Inv == TypeOK /\ UidsAreOld /\ NotStarted /\ LiveDrain /\ Progress /\ Refusals
       /\ Reports

-----------------------------------------------------------------------------
USE DEF None, Gen

(* The first pods take the first uids.                                      *)
LEMMA FirstUids ==
  ASSUME NEW p \in Pod
  PROVE  /\ Cardinality(Pod) \in Nat
         /\ Cardinality({q \in Pod : q <= p}) \in 1..Cardinality(Pod)
<1> DEFINE Q == {q \in Pod : q <= p}
<1>1. IsFiniteSet(Pod) /\ Q \subseteq Pod /\ p \in Q
  BY PodAssumption
<1>2. IsFiniteSet(Q) /\ Cardinality(Q) <= Cardinality(Pod)
  BY <1>1, FS_Subset
<1>3. Cardinality(Pod) \in Nat /\ Cardinality(Q) \in Nat
  BY <1>1, <1>2, FS_CardinalityType
<1>4. Cardinality(Q) # 0
  BY <1>1, <1>2, FS_EmptySet
<1> QED
  BY <1>2, <1>3, <1>4

(* Nothing is under way in the beginning.                                   *)
LEMMA InitInv == Init => Inv
<1> SUFFICES ASSUME Init PROVE Inv
  OBVIOUS
<1>1. Cardinality(Pod) \in 0..MaxUid
  BY PodAssumption, FS_CardinalityType
<1>2. /\ pods \in [Pod -> Running \cup {Absent}]
      /\ \A p \in Pod : pods[p].uid <= made
  <2>1. PICK up \in SUBSET Pod, n \in [Pod -> Node], t \in [Pod -> Template] :
          pods = [p \in Pod |->
                   IF p \in up
                   THEN [uid |-> Cardinality({q \in Pod : q <= p}), node |-> n[p],
                         spec |-> t[p], dying |-> FALSE]
                   ELSE Absent]
    BY DEF Init
  <2>2. ASSUME NEW p \in Pod
        PROVE pods[p] \in Running \cup {Absent} /\ pods[p].uid <= made
    <3>1. Cardinality({q \in Pod : q <= p}) \in 1..Cardinality(Pod)
      BY FirstUids
    <3>2. made = Cardinality(Pod)
      BY DEF Init
    <3>3. CASE p \in up
      BY <1>1, <2>1, <3>1, <3>2, <3>3 DEF Running
    <3>4. CASE p \notin up
      BY <1>1, <2>1, <3>2, <3>4 DEF Absent
    <3> QED BY <3>3, <3>4
  <2> QED BY <2>1, <2>2
<1>3. TypeOK
  BY <1>1, <1>2 DEF Init, TypeOK, PCs, Outcome, Ref
<1>4. UidsAreOld /\ NotStarted /\ LiveDrain
  <2>1. UidsAreOld
    BY <1>2 DEF Init, UidsAreOld
  <2> QED BY <2>1 DEF Init, NotStarted, LiveDrain
<1>5. Progress /\ Refusals
  BY DEF Init, Progress, Refusals, Outcome
<1>6. Reports
  BY DEF Init, Reports, DrainedMeansGone, RefusalLeavesNoCordon, Unheard
<1> QED
  BY <1>2, <1>3, <1>4, <1>5, <1>6 DEF Inv

-----------------------------------------------------------------------------
(* No uid is given twice, so what is gone stays gone.                       *)
NoUidAgain == \A p \in Pod : pods'[p].uid \in {pods[p].uid, 0, made + 1}

LEMMA GoneForGood ==
  ASSUME TypeOK, UidsAreOld, NoUidAgain, NEW g \in Gen, NEW r \in cands[g], Gone(r)
  PROVE  Gone(r)'
<1>1. r.name \in Pod /\ r.uid \in 1..MaxUid /\ r.uid <= made /\ made \in Nat
  BY DEF TypeOK, UidsAreOld, Ref
<1>2. pods'[r.name].uid \in {pods[r.name].uid, 0, made + 1}
  BY <1>1 DEF NoUidAgain
<1> QED
  BY <1>1, <1>2 DEF Gone

(* What was reported stays true: the drain is closed, and no step touches   *)
(* what a closed drain saw and did.                                         *)
ClosedIsDone ==
  \A g \in Gen : g <= drainGen /\ pc[g] = "closed" =>
    /\ pc'[g] = "closed"
    /\ node'[g] = node[g] /\ cands'[g] = cands[g] /\ told'[g] = told[g]

LEMMA ReportsStay ==
  ASSUME TypeOK, UidsAreOld, Reports, NoUidAgain, ClosedIsDone,
         report' = report, drainGen <= drainGen', drainGen' \in Nat
  PROVE  Reports'
<1>1. CASE report = Unheard
  BY <1>1 DEF Reports, DrainedMeansGone, RefusalLeavesNoCordon, Unheard
<1>2. CASE report # Unheard
  <2> DEFINE g == report.gen
  <2>1. g \in Gen /\ g <= drainGen /\ pc[g] = "closed" /\ drainGen \in Nat
    BY <1>2 DEF TypeOK, Report, Reports
  <2>2. /\ pc'[g] = "closed" /\ g <= drainGen'
        /\ node'[g] = node[g] /\ cands'[g] = cands[g] /\ told'[g] = told[g]
    BY <2>1 DEF ClosedIsDone
  <2>3. DrainedMeansGone'
    BY <2>1, <2>2, GoneForGood DEF Reports, DrainedMeansGone, Gone
  <2>4. RefusalLeavesNoCordon'
    BY <2>2 DEF Reports, RefusalLeavesNoCordon
  <2> QED
    BY <2>2, <2>3, <2>4 DEF Reports
<1> QED
  BY <1>1, <1>2

(* A pod begins to terminate.                                               *)
LEMMA DyingPod ==
  ASSUME TypeOK, UidsAreOld, NEW p \in Pod, pods[p] # Absent,
         pods' = [pods EXCEPT ![p].dying = TRUE]
  PROVE  /\ pods' \in [Pod -> Running \cup {Absent}]
         /\ NoUidAgain
         /\ \A q \in Pod : pods'[q].uid <= made
<1>1. pods' = [pods EXCEPT ![p] = [pods[p] EXCEPT !.dying = TRUE]]
  OBVIOUS
<1>2. pods[p] \in Running
  BY DEF TypeOK
<1>3. /\ [pods[p] EXCEPT !.dying = TRUE] \in Running
      /\ [pods[p] EXCEPT !.dying = TRUE].uid = pods[p].uid
  BY <1>2 DEF Running
<1> QED
  BY <1>1, <1>3 DEF TypeOK, UidsAreOld, NoUidAgain

(* A step of the cluster.                                                   *)
LEMMA WorldInv ==
  ASSUME Inv, World
  PROVE  Inv'
<1> USE DEF Inv
<1>1. /\ UNCHANGED <<cordoned, faults, node, pc, cands, left, why, dead, pump, shell, told>>
      /\ made' \in {made, made + 1} /\ made' <= MaxUid
      /\ pods' \in [Pod -> Running \cup {Absent}]
      /\ NoUidAgain
      /\ \A p \in Pod : pods'[p].uid <= made'
  <2>1. ASSUME NEW p \in Pod, NEW n \in Node, NEW t \in Template, Create(p, n, t)
        PROVE  <1>1!:
    BY <2>1 DEF Create, TypeOK, UidsAreOld, NoUidAgain, Running, Absent
  <2>2. ASSUME NEW p \in Pod, Delete(p)
        PROVE  <1>1!:
    <3>1. pods[p] # Absent /\ pods' = [pods EXCEPT ![p].dying = TRUE]
      BY <2>2 DEF Delete
    <3>2. /\ pods' \in [Pod -> Running \cup {Absent}]
          /\ NoUidAgain
          /\ \A q \in Pod : pods'[q].uid <= made
      BY <3>1, DyingPod
    <3> QED
      BY <2>2, <3>2 DEF Delete, TypeOK
  <2>3. ASSUME NEW p \in Pod, Remove(p)
        PROVE  <1>1!:
    BY <2>3 DEF Remove, cluster, TypeOK, UidsAreOld, NoUidAgain, Running, Absent
  <2> QED
    BY <2>1, <2>2, <2>3 DEF World
<1>2. TypeOK'
  BY <1>1 DEF TypeOK, shell
<1>3. UidsAreOld'
  BY <1>1 DEF UidsAreOld, TypeOK, Ref
<1>4. NotStarted' /\ LiveDrain' /\ Refusals'
  BY <1>1 DEF NotStarted, LiveDrain, Refusals, shell
<1>5. Progress'
  BY <1>1, GoneForGood DEF Progress, TypeOK
<1>6. Reports'
  <2>1. ClosedIsDone /\ NoUidAgain
    BY <1>1 DEF ClosedIsDone, NoUidAgain, TypeOK
  <2>2. report' = report /\ drainGen <= drainGen' /\ drainGen' \in Nat
    BY <1>1 DEF TypeOK, shell
  <2> QED BY <2>1, <2>2, ReportsStay
<1> QED
  BY <1>2, <1>3, <1>4, <1>5, <1>6

(* One step of DrainStream: the listing settles the candidates, or refuses. *)
LEMMA ListInv ==
  ASSUME Inv, NEW g \in Gen, List(g)
  PROVE  Inv'
<1> USE DEF Inv
<1> DEFINE found == {[name |-> p, uid |-> pods[p].uid] :
                       p \in {q \in On(node[g]) : Evicts(pods[q].spec)}}
<1>1. /\ pc[g] = "list" /\ left[g] = {} /\ told[g] = {} /\ why[g] # "refused"
      /\ pump[g] \notin Outcome
  BY DEF List, TypeOK, Progress, Refusals
<1>2. UNCHANGED <<pods, cordoned, made, node, left, dead, pump, shell, told>>
  BY DEF List, Settle, SettleThenCordon
<1>3. faults' \in 0..MaxFaults
  BY DEF List, Fail, Served, TypeOK
<1>4. cands' \in {cands, [cands EXCEPT ![g] = found]}
  BY DEF List
<1>5. \/ pc' = [pc EXCEPT ![g] = "cordon"] /\ why' = why
      \/ /\ pc' = [pc EXCEPT ![g] = "tellError"]
         /\ \E w \in {"refused", "failed"} : why' = [why EXCEPT ![g] = w]
  BY DEF List, Settle, SettleThenCordon, Error, Goto
<1>6. found \subseteq Ref /\ \A r \in found : r.uid <= made
  BY DEF On, TypeOK, Running, Ref, UidsAreOld
<1> HIDE DEF found
<1>7. TypeOK'
  <2>1. cands' \in [Gen -> SUBSET Ref] /\ \A f \in Gen : left'[f] \subseteq cands'[f]
    <3>1. CASE cands' = cands
      BY <1>2, <3>1 DEF TypeOK
    <3>2. CASE cands' = [cands EXCEPT ![g] = found]
      BY <1>1, <1>2, <1>6, <3>2 DEF TypeOK
    <3> QED BY <1>4, <3>1, <3>2
  <2>2. pc' \in [Gen -> PCs] /\ why' \in [Gen -> {None, "refused", "failed"}]
    <3>1. pc' \in [Gen -> PCs]
      BY <1>5 DEF TypeOK, PCs, Telling
    <3>2. why' \in [Gen -> {None, "refused", "failed"}]
      BY <1>5 DEF TypeOK
    <3> QED BY <3>1, <3>2
  <2> QED
    BY <1>2, <1>3, <2>1, <2>2 DEF TypeOK, shell
<1>8. UidsAreOld'
  BY <1>2, <1>4, <1>6 DEF UidsAreOld, TypeOK
<1>9. NotStarted' /\ LiveDrain'
  BY <1>1, <1>2, <1>5 DEF NotStarted, LiveDrain, TypeOK, shell
<1>10. Progress'
  <2>1. pc'[g] \in {"cordon", "tellError"}
    BY <1>5 DEF TypeOK
  <2>2. \A f \in Gen : f # g => pc'[f] = pc[f] /\ cands'[f] = cands[f]
    BY <1>4, <1>5 DEF TypeOK
  <2> QED
    BY <1>1, <1>2, <2>1, <2>2 DEF Progress, TypeOK, Gone
<1>11. Refusals'
  <2>1. CASE pc' = [pc EXCEPT ![g] = "cordon"] /\ why' = why
    BY <1>1, <1>2, <2>1 DEF Refusals, TypeOK
  <2>2. ASSUME pc' = [pc EXCEPT ![g] = "tellError"], NEW w \in {"refused", "failed"},
               why' = [why EXCEPT ![g] = w]
        PROVE  Refusals'
    BY <1>1, <1>2, <2>2 DEF Refusals, TypeOK
  <2> QED BY <1>5, <2>1, <2>2
<1>12. Reports'
  <2>1. ClosedIsDone /\ NoUidAgain
    BY <1>1, <1>2, <1>4, <1>5 DEF ClosedIsDone, NoUidAgain, TypeOK
  <2>2. report' = report /\ drainGen <= drainGen' /\ drainGen' \in Nat
    BY <1>1, <1>2, <1>4, <1>5 DEF TypeOK, shell
  <2> QED BY <2>1, <2>2, ReportsStay
<1> QED
  BY <1>7, <1>8, <1>9, <1>10, <1>11, <1>12

(* The cordon.                                                              *)
LEMMA CordonInv ==
  ASSUME Inv, NEW g \in Gen, Cordon(g)
  PROVE  Inv'
<1> USE DEF Inv
<1>1. pc[g] = "cordon" /\ why[g] # "refused" /\ pump[g] \notin Outcome
  BY DEF Cordon, TypeOK, Progress, Refusals
<1>2. /\ UNCHANGED <<pods, made, node, cands, left, dead, pump, shell>>
      /\ faults' \in 0..MaxFaults
      /\ cordoned' \in {cordoned, cordoned \cup {node[g]}}
      /\ told' = [told EXCEPT ![g] = {node[g]}]
      /\ \/ pc' = [pc EXCEPT ![g] = "tellCordoned"] /\ why' = why
         \/ pc' = [pc EXCEPT ![g] = "tellError"] /\ why' = [why EXCEPT ![g] = "failed"]
  BY DEF Cordon, Error, Goto, Fail, Served, TypeOK
<1>3. node[g] \in Node
  BY <1>1 DEF NotStarted
<1>4. TypeOK'
  BY <1>1, <1>2, <1>3 DEF TypeOK, shell, PCs, Telling
<1>5. UidsAreOld' /\ NotStarted' /\ LiveDrain'
  BY <1>1, <1>2 DEF UidsAreOld, NotStarted, LiveDrain, TypeOK, shell
<1>6. Progress'
  BY <1>1, <1>2 DEF Progress, TypeOK, Gone, Outcome
<1>7. Refusals'
  BY <1>1, <1>2 DEF Refusals, TypeOK
<1>8. Reports'
  <2>1. ClosedIsDone /\ NoUidAgain
    BY <1>1, <1>2 DEF ClosedIsDone, NoUidAgain, TypeOK
  <2>2. report' = report /\ drainGen <= drainGen' /\ drainGen' \in Nat
    BY <1>1, <1>2 DEF TypeOK, shell
  <2> QED BY <2>1, <2>2, ReportsStay
<1> QED
  BY <1>4, <1>5, <1>6, <1>7, <1>8

(* A pass deals with candidates only.                                       *)
LEMMA LeftOfCands ==
  ASSUME TypeOK, cands' = cands, NEW g \in Gen, NEW S \in SUBSET cands[g],
         left' = [left EXCEPT ![g] = S]
  PROVE  left' \in [Gen -> SUBSET Ref] /\ \A f \in Gen : left'[f] \subseteq cands'[f]
<1>1. cands[g] \in SUBSET Ref
  BY DEF TypeOK
<1>2. S \in SUBSET Ref
  BY <1>1
<1>3. left' \in [Gen -> SUBSET Ref]
  BY <1>2 DEF TypeOK
<1>4. \A f \in Gen : left'[f] = IF f = g THEN S ELSE left[f]
  BY DEF TypeOK
<1> QED
  BY <1>3, <1>4 DEF TypeOK

(* An eviction.                                                             *)
LEMMA EvictInv ==
  ASSUME Inv, NEW g \in Gen, Evict(g)
  PROVE  Inv'
<1> USE DEF Inv
<1>1. pc[g] = "evict" /\ why[g] # "refused" /\ pump[g] \notin Outcome
  BY DEF Evict, TypeOK, Progress, Refusals
<1>2. UNCHANGED <<cordoned, made, node, cands, dead, pump, shell, told>>
  BY DEF Evict
<1>3. faults' \in 0..MaxFaults
  BY DEF Evict, Fail, Served, TypeOK
<1>4. /\ pods' \in [Pod -> Running \cup {Absent}]
      /\ NoUidAgain
      /\ \A p \in Pod : pods'[p].uid <= made
  <2>1. \/ pods' = pods
        \/ /\ pods[First(g).name] # Absent
           /\ pods' = [pods EXCEPT ![First(g).name].dying = TRUE]
    BY DEF Evict
  <2>2. CASE pods' = pods
    BY <2>2 DEF TypeOK, UidsAreOld, NoUidAgain
  <2>3. CASE pods' # pods
    <3>1. First(g).name \in Pod
      BY <2>1, <2>3 DEF TypeOK
    <3> QED
      BY <2>1, <2>3, <3>1, DyingPod
  <2> QED BY <2>2, <2>3
<1>5. \/ /\ pc' = [pc EXCEPT ![g] = "tellEvicted"] /\ why' = why
         /\ left' = [left EXCEPT ![g] = @ \ {First(g)}]
      \/ /\ pc' = [pc EXCEPT ![g] = "tellError"] /\ why' = [why EXCEPT ![g] = "failed"]
         /\ left' = left
  BY DEF Evict, Error, Goto, Dealt
<1>6. /\ pc'[g] \in {"tellEvicted", "tellError"}
      /\ \A f \in Gen : f # g => pc'[f] = pc[f] /\ left'[f] = left[f]
  BY <1>5 DEF TypeOK
<1>7. TypeOK'
  <2>1. left' \in [Gen -> SUBSET Ref] /\ \A f \in Gen : left'[f] \subseteq cands'[f]
    <3>1. left' = left \/ left' = [left EXCEPT ![g] = left[g] \ {First(g)}]
      BY <1>5
    <3>2. left[g] \ {First(g)} \in SUBSET cands[g]
      BY DEF TypeOK
    <3>3. CASE left' = left
      BY <1>2, <3>3 DEF TypeOK
    <3>4. CASE left' = [left EXCEPT ![g] = left[g] \ {First(g)}]
      BY <1>2, <3>2, <3>4, LeftOfCands
    <3> QED BY <3>1, <3>3, <3>4
  <2>2. pc' \in [Gen -> PCs] /\ why' \in [Gen -> {None, "refused", "failed"}]
    BY <1>5 DEF TypeOK, PCs, Telling
  <2> QED
    BY <1>2, <1>3, <1>4, <2>1, <2>2 DEF TypeOK, shell
<1>8. UidsAreOld'
  BY <1>2, <1>4 DEF UidsAreOld
<1>9. NotStarted' /\ LiveDrain'
  BY <1>1, <1>2, <1>5 DEF NotStarted, LiveDrain, TypeOK, shell
<1>10. Progress'
  BY <1>1, <1>2, <1>4, <1>6, GoneForGood DEF Progress, TypeOK
<1>11. Refusals'
  BY <1>1, <1>2, <1>5 DEF Refusals, TypeOK
<1>12. Reports'
  <2>1. ClosedIsDone /\ NoUidAgain
    BY <1>1, <1>2, <1>4, <1>6 DEF ClosedIsDone, NoUidAgain, TypeOK
  <2>2. report' = report /\ drainGen <= drainGen' /\ drainGen' \in Nat
    BY <1>1, <1>2, <1>4, <1>6 DEF TypeOK, shell
  <2> QED BY <2>1, <2>2, ReportsStay
<1> QED
  BY <1>7, <1>8, <1>9, <1>10, <1>11, <1>12

(* The wait sees one more candidate gone, or fails.                         *)
LEMMA WaitInv ==
  ASSUME Inv, NEW g \in Gen, Wait(g)
  PROVE  Inv'
<1> USE DEF Inv
<1>1. pc[g] = "wait" /\ why[g] # "refused" /\ pump[g] \notin Outcome
  BY DEF Wait, TypeOK, Progress, Refusals
<1>2. UNCHANGED <<pods, cordoned, made, node, cands, dead, pump, shell, told>>
  BY DEF Wait, cluster
<1>3. faults' \in 0..MaxFaults
  BY DEF Wait, Fail, Served, TypeOK
<1>4. \/ /\ pc' = [pc EXCEPT ![g] = "tellRemoved"] /\ why' = why
         /\ left' = [left EXCEPT ![g] = @ \ {First(g)}]
         /\ SeenGone(First(g))
      \/ /\ pc' = [pc EXCEPT ![g] = "tellError"] /\ why' = [why EXCEPT ![g] = "failed"]
         /\ left' = left
  BY DEF Wait, Error, Goto, Dealt
<1>5. TypeOK'
  <2>1. left' \in [Gen -> SUBSET Ref] /\ \A f \in Gen : left'[f] \subseteq cands'[f]
    <3>1. left' = left \/ left' = [left EXCEPT ![g] = left[g] \ {First(g)}]
      BY <1>4
    <3>2. left[g] \ {First(g)} \in SUBSET cands[g]
      BY DEF TypeOK
    <3>3. CASE left' = left
      BY <1>2, <3>3 DEF TypeOK
    <3>4. CASE left' = [left EXCEPT ![g] = left[g] \ {First(g)}]
      BY <1>2, <3>2, <3>4, LeftOfCands
    <3> QED BY <3>1, <3>3, <3>4
  <2>2. pc' \in [Gen -> PCs] /\ why' \in [Gen -> {None, "refused", "failed"}]
    BY <1>4 DEF TypeOK, PCs, Telling
  <2> QED
    BY <1>2, <1>3, <2>1, <2>2 DEF TypeOK, shell
<1>6. UidsAreOld' /\ NotStarted' /\ LiveDrain'
  BY <1>1, <1>2, <1>4 DEF UidsAreOld, NotStarted, LiveDrain, TypeOK, shell
<1>7. Progress'
  <2>1. ASSUME pc'[g] = "tellRemoved", ~dead[g], NEW r \in cands[g] \ left'[g]
        PROVE  Gone(r)
    <3>1. CASE r = First(g)
      BY <1>4, <2>1, <3>1 DEF SeenGone, Gone, Absent, TypeOK, Ref
    <3>2. CASE r # First(g)
      BY <1>1, <1>4, <2>1, <3>2 DEF Progress, TypeOK
    <3> QED BY <3>1, <3>2
  <2>2. /\ pc'[g] \in {"tellRemoved", "tellError"}
        /\ \A f \in Gen : f # g => pc'[f] = pc[f] /\ left'[f] = left[f]
    BY <1>4 DEF TypeOK
  <2> QED
    <3>1. ASSUME NEW f \in Gen, f # g PROVE Progress!(f)'
      BY <1>2, <2>2, <3>1 DEF Progress, Gone
    <3>2. Progress!(g)'
      BY <1>1, <1>2, <2>1, <2>2 DEF Progress, Gone
    <3> QED BY <3>1, <3>2 DEF Progress
<1>8. Refusals'
  BY <1>1, <1>2, <1>4 DEF Refusals, TypeOK
<1>9. Reports'
  <2>1. ClosedIsDone /\ NoUidAgain
    BY <1>1, <1>2, <1>4 DEF ClosedIsDone, NoUidAgain, TypeOK
  <2>2. report' = report /\ drainGen <= drainGen' /\ drainGen' \in Nat
    BY <1>1, <1>2, <1>4 DEF TypeOK, shell
  <2> QED BY <2>1, <2>2, ReportsStay
<1> QED
  BY <1>5, <1>6, <1>7, <1>8, <1>9

(* The end of a pass: after the second, nothing is left to wait for.        *)
LEMMA EndPassInv ==
  ASSUME Inv, NEW g \in Gen, EndPass(g)
  PROVE  Inv'
<1> USE DEF Inv
<1>1. /\ pc[g] \in {"evict", "wait"} /\ why[g] # "refused"
      /\ pump[g] \notin Outcome /\ left[g] = {}
  BY DEF EndPass, TypeOK, Progress, Refusals
<1>2. UNCHANGED <<pods, cordoned, made, faults, node, cands, why, dead, pump, shell, told>>
  BY DEF EndPass, cluster
<1>3. \/ /\ pc' = [pc EXCEPT ![g] = "wait"]
         /\ left' = [left EXCEPT ![g] = cands[g]]
      \/ /\ pc[g] = "wait" /\ pc' = [pc EXCEPT ![g] = "closed"]
         /\ left' = left
  BY DEF EndPass, Goto
<1>4. TypeOK'
  <2>1. left' \in [Gen -> SUBSET Ref] /\ \A f \in Gen : left'[f] \subseteq cands'[f]
    <3>1. CASE left' = left
      BY <1>2, <3>1 DEF TypeOK
    <3>2. CASE left' = [left EXCEPT ![g] = cands[g]]
      BY <1>2, <3>2, LeftOfCands
    <3> QED BY <1>3, <3>1, <3>2
  <2>2. pc' \in [Gen -> PCs]
    BY <1>3 DEF TypeOK, PCs
  <2> QED
    BY <1>2, <2>1, <2>2 DEF TypeOK, shell
<1>5. UidsAreOld' /\ NotStarted' /\ LiveDrain'
  BY <1>1, <1>2, <1>3 DEF UidsAreOld, NotStarted, LiveDrain, TypeOK, shell
<1>6. Progress'
  <2>1. CASE pc' = [pc EXCEPT ![g] = "wait"] /\ left' = [left EXCEPT ![g] = cands[g]]
    BY <1>1, <1>2, <2>1 DEF Progress, TypeOK, Gone
  <2>2. CASE pc[g] = "wait" /\ pc' = [pc EXCEPT ![g] = "closed"] /\ left' = left
    BY <1>1, <1>2, <2>2 DEF Progress, TypeOK, Gone
  <2> QED BY <1>3, <2>1, <2>2
<1>7. Refusals'
  BY <1>1, <1>2, <1>3 DEF Refusals, TypeOK
<1>8. Reports'
  <2>1. ClosedIsDone /\ NoUidAgain
    BY <1>1, <1>2, <1>3 DEF ClosedIsDone, NoUidAgain, TypeOK
  <2>2. report' = report /\ drainGen <= drainGen' /\ drainGen' \in Nat
    BY <1>1, <1>2, <1>3 DEF TypeOK, shell
  <2> QED BY <2>1, <2>2, ReportsStay
<1> QED
  BY <1>4, <1>5, <1>6, <1>7, <1>8

(* An event reaches the pump; an error is the last one.                     *)
LEMMA EmitInv ==
  ASSUME Inv, NEW g \in Gen, Emit(g)
  PROVE  Inv'
<1> USE DEF Inv
<1>1. /\ pc[g] \in {"tellCordoned", "tellEvicted", "tellRemoved", "tellError"}
      /\ pump[g] = "receiving"
  BY DEF Emit, Telling
<1>2. UNCHANGED <<pods, cordoned, made, faults, node, cands, why, dead, shell, told>>
  BY DEF Emit, cluster
<1>3. CASE pc[g] = "tellError"
  <2>1. pc' = [pc EXCEPT ![g] = "closed"] /\ pump' = [pump EXCEPT ![g] = why[g]] /\ left' = left
    BY <1>3 DEF Emit, Goto, TypeOK
  <2>2. why[g] \in {"refused", "failed"}
    BY <1>3 DEF Refusals, TypeOK
  <2>3. TypeOK'
    BY <1>2, <2>1, <2>2 DEF TypeOK, shell, PCs, Outcome
  <2>4. UidsAreOld' /\ NotStarted' /\ LiveDrain'
    BY <1>1, <1>2, <2>1 DEF UidsAreOld, NotStarted, LiveDrain, TypeOK, shell
  <2>5. Progress'
    BY <1>2, <2>1, <2>2 DEF Progress, TypeOK, Gone, Outcome
  <2>6. Refusals'
    BY <1>1, <1>2, <2>1, <2>2 DEF Refusals, TypeOK
  <2>7. Reports'
    <3>1. ClosedIsDone /\ NoUidAgain
      BY <1>1, <1>2, <2>1 DEF ClosedIsDone, NoUidAgain, TypeOK
    <3>2. report' = report /\ drainGen <= drainGen' /\ drainGen' \in Nat
      BY <1>1, <1>2, <2>1 DEF TypeOK, shell
    <3> QED BY <3>1, <3>2, ReportsStay
  <2> QED
    BY <2>3, <2>4, <2>5, <2>6, <2>7
<1>4. CASE pc[g] # "tellError"
  <2>1. /\ pump' = [pump EXCEPT ![g] = "step"]
        /\ \/ /\ pc' = [pc EXCEPT ![g] = "evict"]
              /\ left' = left \/ left' = [left EXCEPT ![g] = cands[g]]
           \/ pc[g] = "tellRemoved" /\ pc' = [pc EXCEPT ![g] = "wait"] /\ left' = left
    BY <1>1, <1>4 DEF Emit, Goto, TypeOK
  <2>2. pc'[g] \in {"evict", "wait"} /\ \A f \in Gen : f # g => pc'[f] = pc[f]
    BY <2>1 DEF TypeOK
  <2>3. TypeOK'
    <3>1. left' \in [Gen -> SUBSET Ref] /\ \A f \in Gen : left'[f] \subseteq cands'[f]
      <4>1. CASE left' = left
        BY <1>2, <4>1 DEF TypeOK
      <4>2. CASE left' = [left EXCEPT ![g] = cands[g]]
        BY <1>2, <4>2, LeftOfCands
      <4> QED BY <2>1, <4>1, <4>2
    <3>2. pc' \in [Gen -> PCs] /\ pump' \in [Gen -> {"off", "receiving", "step"} \cup Outcome]
      BY <2>1 DEF TypeOK, PCs
    <3> QED
      BY <1>2, <3>1, <3>2 DEF TypeOK, shell
  <2>4. UidsAreOld' /\ NotStarted' /\ LiveDrain'
    BY <1>1, <1>2, <2>1 DEF UidsAreOld, NotStarted, LiveDrain, TypeOK, shell
  <2>5. Progress'
    <3>1. ASSUME NEW f \in Gen, f # g PROVE Progress!(f)'
      BY <1>2, <2>1, <2>2, <3>1 DEF Progress, TypeOK, Gone
    <3>2. Progress!(g)'
      BY <1>1, <1>2, <2>1 DEF Progress, TypeOK, Gone, Outcome
    <3> QED BY <3>1, <3>2 DEF Progress
  <2>6. Refusals'
    BY <1>1, <1>2, <1>4, <2>1 DEF Refusals, TypeOK
  <2>7. Reports'
    <3>1. ClosedIsDone /\ NoUidAgain
      BY <1>1, <1>2, <2>2 DEF ClosedIsDone, NoUidAgain, TypeOK
    <3>2. report' = report /\ drainGen <= drainGen' /\ drainGen' \in Nat
      BY <1>1, <1>2, <2>2 DEF TypeOK, shell
    <3> QED BY <3>1, <3>2, ReportsStay
  <2> QED
    BY <2>3, <2>4, <2>5, <2>6, <2>7
<1> QED
  BY <1>3, <1>4

(* Only a cancelled drain closes its channel early.                         *)
LEMMA GiveUpInv ==
  ASSUME Inv, NEW g \in Gen, GiveUp(g)
  PROVE  Inv'
<1> USE DEF Inv
<1>1. pc[g] \in Telling /\ dead[g] /\ pc' = [pc EXCEPT ![g] = "closed"]
  BY DEF GiveUp, MayGiveUp, Goto
<1>2. UNCHANGED <<pods, cordoned, made, faults, node, cands, left, why, dead, pump, shell, told>>
  BY DEF GiveUp, cluster
<1>3. TypeOK'
  BY <1>1, <1>2 DEF TypeOK, shell, PCs
<1>4. UidsAreOld' /\ NotStarted' /\ LiveDrain'
  BY <1>1, <1>2 DEF UidsAreOld, NotStarted, LiveDrain, TypeOK, shell, Telling
<1>5. Progress' /\ Refusals'
  BY <1>1, <1>2 DEF Progress, Refusals, TypeOK, Gone
<1>6. Reports'
  <2>1. ClosedIsDone /\ NoUidAgain
    BY <1>1, <1>2 DEF ClosedIsDone, NoUidAgain, TypeOK, Telling
  <2>2. report' = report /\ drainGen <= drainGen' /\ drainGen' \in Nat
    BY <1>1, <1>2 DEF TypeOK, shell
  <2> QED BY <2>1, <2>2, ReportsStay
<1> QED
  BY <1>3, <1>4, <1>5, <1>6

(* A close without an error is an outcome.                                  *)
LEMMA ReceiveCloseInv ==
  ASSUME Inv, NEW g \in Gen, ReceiveClose(g)
  PROVE  Inv'
<1> USE DEF Inv
<1>1. pump[g] = "receiving" /\ pc[g] = "closed" /\ pump' = [pump EXCEPT ![g] = "drained"]
  BY DEF ReceiveClose
<1>2. UNCHANGED <<pods, cordoned, made, faults, node, pc, cands, left, why, dead, shell, told>>
  BY DEF ReceiveClose, cluster
<1>3. TypeOK'
  BY <1>1, <1>2 DEF TypeOK, shell, Outcome
<1>4. UidsAreOld' /\ NotStarted' /\ LiveDrain'
  BY <1>1, <1>2 DEF UidsAreOld, NotStarted, LiveDrain, TypeOK, shell
<1>5. Progress' /\ Refusals'
  BY <1>1, <1>2 DEF Progress, Refusals, TypeOK, Gone
<1>6. Reports'
  <2>1. ClosedIsDone /\ NoUidAgain
    BY <1>1, <1>2 DEF ClosedIsDone, NoUidAgain, TypeOK
  <2>2. report' = report /\ drainGen <= drainGen' /\ drainGen' \in Nat
    BY <1>1, <1>2 DEF TypeOK, shell
  <2> QED BY <2>1, <2>2, ReportsStay
<1> QED
  BY <1>3, <1>4, <1>5, <1>6

(* A new drain becomes the live one, and the former is cancelled.           *)
LEMMA RunDrainInv ==
  ASSUME Inv, NEW n \in Node, RunDrain(n)
  PROVE  Inv'
<1> USE DEF Inv
<1> DEFINE d == drainGen + 1
<1>1. d \in Gen /\ d > drainGen /\ drainGen \in 0..MaxGen /\ d # live /\ live <= drainGen
  BY DEF RunDrain, TypeOK, LiveDrain
<1>2. pc[d] = "off" /\ pump[d] = "off" /\ why[d] = None /\ told[d] = {} /\ ~dead[d]
  BY <1>1 DEF NotStarted
<1>3. /\ drainGen' = d /\ live' = d /\ label' = n
      /\ node' = [node EXCEPT ![d] = n]
      /\ pc' = [pc EXCEPT ![d] = "list"]
      /\ pump' = [pump EXCEPT ![d] = "receiving"]
      /\ dead' = [g \in Gen |-> dead[g] \/ g = live]
      /\ UNCHANGED <<pods, cordoned, made, faults, cands, left, why, report, told>>
  BY DEF RunDrain, StopDrain, cluster
<1> HIDE DEF d
<1>4. TypeOK'
  BY <1>1, <1>3 DEF TypeOK, PCs
<1>5. UidsAreOld'
  BY <1>3 DEF UidsAreOld
<1>6. NotStarted'
  BY <1>1, <1>2, <1>3 DEF NotStarted, TypeOK, d
<1>7. LiveDrain'
  BY <1>1, <1>2, <1>3 DEF LiveDrain, TypeOK, d
<1>8. Progress' /\ Refusals'
  BY <1>1, <1>2, <1>3 DEF Progress, Refusals, TypeOK, Gone, Outcome
<1>9. Reports'
  <2>1. ClosedIsDone /\ NoUidAgain
    BY <1>1, <1>3 DEF ClosedIsDone, NoUidAgain, TypeOK
  <2>2. report' = report /\ drainGen <= drainGen' /\ drainGen' \in Nat
    BY <1>1, <1>3 DEF TypeOK
  <2> QED BY <2>1, <2>2, ReportsStay
<1> QED
  BY <1>4, <1>5, <1>6, <1>7, <1>8, <1>9

(* A context switch leaves no drain live.                                   *)
LEMMA StopClusterInv ==
  ASSUME Inv, StopClusterAsync
  PROVE  Inv'
<1> USE DEF Inv
<1>1. /\ drainGen < MaxGen /\ drainGen' = drainGen + 1 /\ live' = 0
      /\ dead' = [g \in Gen |-> dead[g] \/ g = live]
      /\ UNCHANGED <<pods, cordoned, made, faults, node, pc, cands, left, why, pump,
                     label, report, told>>
  BY DEF StopClusterAsync, StopDrain, NextGen, cluster
<1>2. TypeOK'
  BY <1>1 DEF TypeOK
<1>3. UidsAreOld'
  BY <1>1 DEF UidsAreOld
<1>4. NotStarted' /\ LiveDrain'
  BY <1>1 DEF NotStarted, LiveDrain, TypeOK
<1>5. Progress' /\ Refusals'
  BY <1>1 DEF Progress, Refusals, TypeOK, Gone
<1>6. Reports'
  <2>1. ClosedIsDone /\ NoUidAgain
    BY <1>1 DEF ClosedIsDone, NoUidAgain, TypeOK
  <2>2. report' = report /\ drainGen <= drainGen' /\ drainGen' \in Nat
    BY <1>1 DEF TypeOK
  <2> QED BY <2>1, <2>2, ReportsStay
<1> QED
  BY <1>2, <1>3, <1>4, <1>5, <1>6

(* The newest drain's outcome is reported; any other message ends its pump. *)
LEMMA HandleDrainMsgInv ==
  ASSUME Inv, NEW g \in Gen, HandleDrainMsg(g)
  PROVE  Inv'
<1> USE DEF Inv
<1>1. pump[g] # "off" /\ pump[g] # "receiving"
  BY DEF HandleDrainMsg, Outcome
<1>2. UNCHANGED <<pods, cordoned, made, faults, node, pc, cands, left, why, drainGen, label, told>>
  BY DEF HandleDrainMsg, cluster
<1>3. CASE g = drainGen /\ pump[g] \in Outcome
  <2>1. /\ dead' = [f \in Gen |-> dead[f] \/ f = live] /\ live' = 0
        /\ report' = [what |-> pump[g], gen |-> g, label |-> label]
        /\ pump' = [pump EXCEPT ![g] = "off"]
    BY <1>3 DEF HandleDrainMsg, StopDrain, Current, Outcome
  <2>2. /\ pc[g] = "closed" /\ ~dead[g] /\ label = node[g] /\ node[g] \in Node
        /\ g <= drainGen
    BY <1>1, <1>3 DEF Progress, LiveDrain, NotStarted
  <2>3. TypeOK'
    <3>1. report' \in Report
      BY <1>3, <2>1, <2>2 DEF Report, Outcome
    <3>2. pump' \in [Gen -> {"off", "receiving", "step"} \cup Outcome]
      BY <2>1 DEF TypeOK
    <3> QED
      BY <1>2, <2>1, <3>1, <3>2 DEF TypeOK
  <2>4. UidsAreOld'
    BY <1>2 DEF UidsAreOld
  <2>5. NotStarted'
    BY <1>2, <2>1 DEF NotStarted, LiveDrain, TypeOK
  <2>6. LiveDrain'
    BY <1>2, <1>3, <2>1 DEF LiveDrain, TypeOK
  <2>7. Progress' /\ Refusals'
    BY <1>2, <2>1 DEF Progress, Refusals, TypeOK, Gone, Outcome
  <2>8. DrainedMeansGone'
    BY <1>2, <1>3, <2>1, <2>2 DEF DrainedMeansGone, Progress, Gone
  <2>9. RefusalLeavesNoCordon'
    BY <1>2, <2>1 DEF RefusalLeavesNoCordon, Refusals
  <2> QED
    BY <1>2, <2>1, <2>2, <2>3, <2>4, <2>5, <2>6, <2>7, <2>8, <2>9 DEF Reports
<1>4. CASE ~(g = drainGen /\ pump[g] \in Outcome)
  <2>1. UNCHANGED <<dead, live, report>>
    BY <1>4 DEF HandleDrainMsg, Current
  <2>2. \/ pump' = [pump EXCEPT ![g] = "off"]
        \/ pump[g] = "step" /\ pump' = [pump EXCEPT ![g] = "receiving"]
    BY DEF HandleDrainMsg
  <2>3. TypeOK'
    BY <1>2, <2>1, <2>2 DEF TypeOK
  <2>4. UidsAreOld' /\ NotStarted' /\ LiveDrain'
    BY <1>1, <1>2, <2>1, <2>2 DEF UidsAreOld, NotStarted, LiveDrain, TypeOK
  <2>5. Progress' /\ Refusals'
    BY <1>2, <2>1, <2>2 DEF Progress, Refusals, TypeOK, Gone, Outcome
  <2>6. Reports'
    <3>1. ClosedIsDone /\ NoUidAgain
      BY <1>2, <2>1 DEF ClosedIsDone, NoUidAgain, TypeOK
    <3>2. report' = report /\ drainGen <= drainGen' /\ drainGen' \in Nat
      BY <1>2, <2>1 DEF TypeOK
    <3> QED BY <3>1, <3>2, ReportsStay
  <2> QED
    BY <2>3, <2>4, <2>5, <2>6
<1> QED
  BY <1>3, <1>4

-----------------------------------------------------------------------------
(* Every step keeps the invariant.                                          *)
LEMMA NextInv == Inv /\ [Next]_vars => Inv'
<1> SUFFICES ASSUME Inv, [Next]_vars PROVE Inv'
  OBVIOUS
<1>1. CASE World
  BY <1>1, WorldInv
<1>2. ASSUME NEW g \in Gen, Stream(g) PROVE Inv'
  BY <1>2, ListInv, CordonInv, EvictInv, WaitInv, EndPassInv, EmitInv, GiveUpInv DEF Stream
<1>3. ASSUME NEW g \in Gen, ReceiveClose(g) \/ HandleDrainMsg(g) PROVE Inv'
  BY <1>3, ReceiveCloseInv, HandleDrainMsgInv
<1>4. CASE Shell
  BY <1>4, RunDrainInv, StopClusterInv DEF Shell
<1>5. CASE UNCHANGED vars
  BY <1>5 DEF vars, Inv, TypeOK, UidsAreOld, NotStarted, LiveDrain, Progress, Refusals,
     Reports, DrainedMeansGone, RefusalLeavesNoCordon, Gone
<1> QED
  BY <1>1, <1>2, <1>3, <1>4, <1>5 DEF Next

(* The invariant the theorems below are read off from: what a drain that   *)
(* was not cancelled has seen, and which drain the cancel is for.           *)
THEOREM SpecInv == Spec => []Inv
  BY InitInv, NextInv, PTL DEF Spec

(* Every state keeps the shape its Go types and its protocol give it.       *)
THEOREM TypeCorrect == Spec => []TypeOK
<1>1. Inv => TypeOK
  BY DEF Inv
<1> QED
  BY <1>1, SpecInv, PTL

(* The status bar says "drained" only of the drain asked for last, under    *)
(* its own node's name, and once every pod that drain settled on is gone.   *)
THEOREM DrainedCorrect == Spec => []DrainedMeansGone
<1>1. Inv => DrainedMeansGone
  BY DEF Inv, Reports
<1> QED
  BY <1>1, SpecInv, PTL

(* A drain that was refused never cordoned its node.                        *)
THEOREM RefusalsCorrect == Spec => []RefusalLeavesNoCordon
<1>1. Inv => RefusalLeavesNoCordon
  BY DEF Inv, Reports
<1> QED
  BY <1>1, SpecInv, PTL
=============================================================================
