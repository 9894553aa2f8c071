------------------------------- MODULE Drain -------------------------------
(***************************************************************************)
(* Draining a node: the goroutine that lists, cordons, evicts and waits    *)
(* (kube/drain.go DrainStream), the pump that carries its progress to the  *)
(* update loop (tui/msg.go drainPump), and the shell that starts, replaces *)
(* and cancels drains and reports how they ended (tui/app.go).             *)
(*                                                                         *)
(* A drain is known by its drainGen.  A replaced or cancelled drain goes   *)
(* on until it notices its context, beside the one that replaced it.  The  *)
(* cluster is external: pods come, go and take the name of one that went.  *)
(***************************************************************************)
EXTENDS Integers, FiniteSets

CONSTANTS
  Node,
  Pod,          \* pod names, numbers: the API lists them in order
  Template,     \* what a pod may be: [skip, ctrl, local] records
  ForceDrain, IgnoreDaemonSets, DeleteEmptyDirData,    \* DrainOptions
  MaxUid,       \* bound: pods ever created
  MaxGen,       \* bound: drains started and clusters left
  MaxFaults     \* bound: failed requests

ASSUME PodAssumption == Pod \subseteq Nat /\ IsFiniteSet(Pod) /\ Cardinality(Pod) <= MaxUid
ASSUME TemplateAssumption ==
  Template \subseteq [skip : BOOLEAN, ctrl : {"none", "DaemonSet", "other"},
                      local : BOOLEAN]
ASSUME OptionAssumption ==
  {ForceDrain, IgnoreDaemonSets, DeleteEmptyDirData} \subseteq BOOLEAN
ASSUME DrainBoundAssumption == MaxUid \in Nat /\ MaxGen \in Nat /\ MaxFaults \in Nat

None == "none"
Gen  == 1..MaxGen

VARIABLES
  \* the cluster
  pods,       \* the pod each name stands for, or Absent
  cordoned,   \* nodes the scheduler leaves alone
  made,       \* pods created so far; a pod's uid is its number
  faults,
  \* drain g
  node,       \* the node it drains
  pc,
  cands,      \* the candidates it settled on: [name, uid]
  left,       \* those the current pass has still to deal with
  why,        \* the error its last event carries
  dead,       \* its context is cancelled
  pump,       \* its pump: receiving, delivering a message, or off
  \* the shell
  drainGen,
  live,       \* the drain whose cancel is kept, or 0
  label,      \* drainLabel
  report,     \* the last outcome the status bar was given
  told        \* history: the nodes each drain cordoned

cluster == <<pods, cordoned, made>>
shell   == <<drainGen, live, label, report>>
vars    == <<pods, cordoned, made, faults, node, pc, cands, left, why, dead, pump,
             drainGen, live, label, report, told>>

Absent  == [uid |-> 0, node |-> None, spec |-> None, dying |-> FALSE]
Running == [uid : 1..MaxUid, node : Node, spec : Template, dying : BOOLEAN]
Ref     == [name : Pod, uid : 1..MaxUid]
Unheard == [what |-> None, gen |-> 0, label |-> None]
Report  == [what : {"drained", "refused", "failed"}, gen : Gen, label : Node]

(* A progress event, or the error that ends the stream, about to be sent.   *)
Telling  == {"tellCordoned", "tellEvicted", "tellRemoved", "tellError"}
PCs      == {"off", "list", "cordon", "evict", "wait", "closed"} \cup Telling
Outcome  == {"drained", "refused", "failed"}

TypeOK ==
  /\ pods \in [Pod -> Running \cup {Absent}]
  /\ cordoned \subseteq Node
  /\ made \in 0..MaxUid
  /\ faults \in 0..MaxFaults
  /\ node \in [Gen -> Node \cup {None}]
  /\ pc \in [Gen -> PCs]
  /\ cands \in [Gen -> SUBSET Ref]
  /\ left \in [Gen -> SUBSET Ref]
  /\ \A g \in Gen : left[g] \subseteq cands[g]
  /\ why \in [Gen -> {None, "refused", "failed"}]
  /\ dead \in [Gen -> BOOLEAN]
  /\ pump \in [Gen -> {"off", "receiving", "step"} \cup Outcome]
  /\ drainGen \in 0..MaxGen
  /\ live \in 0..MaxGen
  /\ label \in Node \cup {None}
  /\ report \in Report \cup {Unheard}
  /\ told \in [Gen -> SUBSET Node]

Init ==
  /\ \E up \in SUBSET Pod, n \in [Pod -> Node], t \in [Pod -> Template] :
       pods = [p \in Pod |->
                 IF p \in up
                 THEN [uid |-> Cardinality({q \in Pod : q <= p}), node |-> n[p],
                       spec |-> t[p], dying |-> FALSE]
                 ELSE Absent]
  /\ cordoned = {}
  /\ made = Cardinality(Pod)
  /\ faults = 0
  /\ node = [g \in Gen |-> None]
  /\ pc = [g \in Gen |-> "off"]
  /\ cands = [g \in Gen |-> {}]
  /\ left = [g \in Gen |-> {}]
  /\ why = [g \in Gen |-> None]
  /\ dead = [g \in Gen |-> FALSE]
  /\ pump = [g \in Gen |-> "off"]
  /\ drainGen = 0
  /\ live = 0
  /\ label = None
  /\ report = Unheard
  /\ told = [g \in Gen |-> {}]

-----------------------------------------------------------------------------
(* The cluster *)

(* The scheduler leaves a cordoned node alone; DaemonSet and static pods    *)
(* are placed all the same.                                                 *)
Create(p, n, t) ==
  /\ pods[p] = Absent
  /\ made < MaxUid
  /\ n \notin cordoned \/ t.skip \/ t.ctrl = "DaemonSet"
  /\ made' = made + 1
  /\ pods' = [pods EXCEPT ![p] = [uid |-> made + 1, node |-> n, spec |-> t,
                                  dying |-> FALSE]]
  /\ UNCHANGED <<cordoned, faults, node, pc, cands, left, why, dead, pump, shell, told>>

(* Another client deletes a pod; it lingers through its grace period.       *)
Delete(p) ==
  /\ pods[p] # Absent /\ ~pods[p].dying
  /\ pods' = [pods EXCEPT ![p].dying = TRUE]
  /\ UNCHANGED <<cordoned, made, faults, node, pc, cands, left, why, dead, pump,
                 shell, told>>

Remove(p) ==
  /\ pods[p] # Absent /\ pods[p].dying
  /\ pods' = [pods EXCEPT ![p] = Absent]
  /\ UNCHANGED <<cordoned, made, faults, node, pc, cands, left, why, dead, pump,
                 shell, told>>

(* A request of drain g fails: always once its context is cancelled.        *)
Fail(g) == \/ dead[g] /\ faults' = faults
           \/ faults < MaxFaults /\ faults' = faults + 1
Served(g) == ~dead[g] /\ faults' = faults

-----------------------------------------------------------------------------
(* DrainStream *)

Goto(g, l)  == pc' = [pc EXCEPT ![g] = l]

(* The last event carries the error; and an event that carries none.        *)
BareError(g, w) == Goto(g, "tellError") /\ UNCHANGED why
Error(g, w)     == Goto(g, "tellError") /\ why' = [why EXCEPT ![g] = w]

(* classifyDrainPods: mirror and terminated pods are skipped; a standalone  *)
(* pod, a DaemonSet's or one with an emptyDir may refuse the drain.         *)
Blocks(t) ==
  /\ ~t.skip
  /\ \/ t.ctrl = "none" /\ ~ForceDrain
     \/ t.ctrl = "DaemonSet" /\ ~IgnoreDaemonSets
     \/ t.ctrl # "DaemonSet" /\ t.local /\ ~DeleteEmptyDirData
Evicts(t) == ~t.skip /\ t.ctrl # "DaemonSet" /\ ~Blocks(t)

On(n) == {p \in Pod : pods[p] # Absent /\ pods[p].node = n}

(* The candidates are settled before the cordon; and cordoning first, as    *)
(* kubectl does.                                                            *)
SettleThenCordon(g) ==
  IF \E p \in On(node[g]) : Blocks(pods[p].spec)
  THEN Error(g, "refused") /\ UNCHANGED <<cordoned, told>>
  ELSE Goto(g, "cordon") /\ UNCHANGED <<why, cordoned, told>>
SettleCordoned(g) ==
  /\ cordoned' = cordoned \cup {node[g]}
  /\ told' = [told EXCEPT ![g] = {node[g]}]
  /\ IF \E p \in On(node[g]) : Blocks(pods[p].spec)
     THEN Error(g, "refused")
     ELSE Goto(g, "cordon") /\ UNCHANGED why
Settle(g) == SettleThenCordon(g)

List(g) ==
  /\ pc[g] = "list"
  /\ \/ /\ Served(g)
        /\ Settle(g)
        /\ cands' = [cands EXCEPT ![g] =
             {[name |-> p, uid |-> pods[p].uid] :
                p \in {q \in On(node[g]) : Evicts(pods[q].spec)}}]
     \/ Fail(g) /\ Error(g, "failed") /\ UNCHANGED <<cands, cordoned, told>>
  /\ UNCHANGED <<pods, made, node, left, dead, pump, shell>>

(* A cordon whose answer is lost may have been carried out.                 *)
Cordon(g) ==
  /\ pc[g] = "cordon"
  /\ \/ Served(g) /\ Goto(g, "tellCordoned") /\ UNCHANGED why
        /\ cordoned' = cordoned \cup {node[g]}
     \/ Fail(g) /\ Error(g, "failed")
        /\ (cordoned' = cordoned \/ cordoned' = cordoned \cup {node[g]})
  /\ told' = [told EXCEPT ![g] = {node[g]}]
  /\ UNCHANGED <<pods, made, node, cands, left, dead, pump, shell>>

(* The passes take the pods in the order listed.                            *)
First(g) == CHOOSE r \in left[g] : \A s \in left[g] : r.name <= s.name
Dealt(g) == left' = [left EXCEPT ![g] = @ \ {First(g)}]

(* evictPod: the name decides.  A pod already gone is as good as evicted; a *)
(* disruption budget that is spent (429) makes it try again, which is a     *)
(* stutter here.  A failed request may have been carried out.               *)
Evict(g) ==
  /\ pc[g] = "evict" /\ left[g] # {}
  /\ LET p == First(g).name
         gone    == pods[p] = Absent /\ UNCHANGED pods
         evicted == pods[p] # Absent /\ pods' = [pods EXCEPT ![p].dying = TRUE]
     IN \/ /\ Served(g) /\ (gone \/ evicted)
           /\ Goto(g, "tellEvicted") /\ Dealt(g) /\ UNCHANGED why
        \/ /\ Fail(g) /\ (UNCHANGED pods \/ evicted)
           /\ Error(g, "failed") /\ UNCHANGED left
  /\ UNCHANGED <<cordoned, made, node, cands, dead, pump, shell, told>>

(* waitPodDeleted's poll: a pod is gone when its name is free or stands for *)
(* another pod; and only when its name is free.                             *)
NameIsFree(r) == pods[r.name] = Absent
SeenGone(r)   == pods[r.name] = Absent \/ pods[r.name].uid # r.uid

Wait(g) ==
  /\ pc[g] = "wait" /\ left[g] # {}
  /\ \/ Served(g) /\ SeenGone(First(g)) /\ Goto(g, "tellRemoved") /\ Dealt(g)
        /\ UNCHANGED why
     \/ Fail(g) /\ Error(g, "failed") /\ UNCHANGED left
  /\ UNCHANGED <<cluster, node, cands, dead, pump, shell, told>>

(* A pass that has dealt with every pod; after the second one the drain is  *)
(* over and its channel closes.                                             *)
EndPass(g) ==
  /\ left[g] = {}
  /\ \/ pc[g] = "evict" /\ Goto(g, "wait") /\ left' = [left EXCEPT ![g] = cands[g]]
     \/ pc[g] = "wait" /\ Goto(g, "closed") /\ UNCHANGED left
  /\ UNCHANGED <<cluster, faults, node, cands, why, dead, pump, shell, told>>

(* emit: the channel is unbuffered, so an event is handed to the pump.      *)
Emit(g) ==
  /\ pc[g] \in Telling
  /\ pump[g] = "receiving"
  /\ pump' = [pump EXCEPT ![g] = IF pc[g] = "tellError" THEN why[g] ELSE "step"]
  /\ Goto(g, CASE pc[g] = "tellCordoned" -> "evict"
               [] pc[g] = "tellEvicted"  -> "evict"
               [] pc[g] = "tellRemoved"  -> "wait"
               [] pc[g] = "tellError"    -> "closed")
  /\ left' = [left EXCEPT ![g] = IF pc[g] = "tellCordoned" THEN cands[g] ELSE @]
  /\ UNCHANGED <<cluster, faults, node, cands, why, dead, shell, told>>

(* emit gives up once the context is cancelled; and a bare send.            *)
NeverGivesUp(g) == FALSE
MayGiveUp(g)    == dead[g]

GiveUp(g) ==
  /\ pc[g] \in Telling
  /\ MayGiveUp(g)
  /\ Goto(g, "closed")
  /\ UNCHANGED <<cluster, faults, node, cands, left, why, dead, pump, shell, told>>

(* drainPump: a channel closed without an error is a success.               *)
ReceiveClose(g) ==
  /\ pump[g] = "receiving" /\ pc[g] = "closed"
  /\ pump' = [pump EXCEPT ![g] = "drained"]
  /\ UNCHANGED <<cluster, faults, node, pc, cands, left, why, dead, shell, told>>

-----------------------------------------------------------------------------
(* The shell *)

(* The cancel that is kept is the live drain's.                             *)
StopDrain == dead' = [g \in Gen |-> dead[g] \/ g = live]

(* The confirmed drain of n replaces the one under way.                     *)
RunDrain(n) ==
  /\ drainGen < MaxGen
  /\ StopDrain
  /\ drainGen' = drainGen + 1
  /\ live' = drainGen + 1
  /\ label' = n
  /\ node' = [node EXCEPT ![drainGen + 1] = n]
  /\ pc' = [pc EXCEPT ![drainGen + 1] = "list"]
  /\ pump' = [pump EXCEPT ![drainGen + 1] = "receiving"]
  /\ UNCHANGED <<cluster, faults, cands, left, why, report, told>>

(* stopClusterAsync, on a context switch and on quit, moves the generation  *)
(* on; and leaving it alone.                                                *)
SameGen == drainGen
NextGen == drainGen + 1

StopClusterAsync ==
  /\ drainGen < MaxGen
  /\ StopDrain
  /\ drainGen' = NextGen
  /\ live' = 0
  /\ UNCHANGED <<cluster, faults, node, pc, cands, left, why, pump, label, report, told>>

(* A message of a replaced drain ends its pump and is not reported.         *)
Current(g) == g = drainGen

HandleDrainMsg(g) ==
  /\ pump[g] \in {"step"} \cup Outcome
  /\ IF Current(g) /\ pump[g] \in Outcome
     THEN /\ StopDrain
          /\ live' = 0
          /\ report' = [what |-> pump[g], gen |-> g, label |-> label]
     ELSE UNCHANGED <<dead, live, report>>
  /\ pump' = [pump EXCEPT ![g] =
                IF Current(g) /\ pump[g] = "step" THEN "receiving" ELSE "off"]
  /\ UNCHANGED <<cluster, faults, node, pc, cands, left, why, drainGen, label, told>>

-----------------------------------------------------------------------------
World == \E p \in Pod : \/ \E n \in Node, t \in Template : Create(p, n, t)
                        \/ Delete(p) \/ Remove(p)

Stream(g) == List(g) \/ Cordon(g) \/ Evict(g) \/ Wait(g) \/ EndPass(g) \/ Emit(g)
             \/ GiveUp(g)

Shell == \/ \E n \in Node : RunDrain(n)
         \/ StopClusterAsync

Next == \/ World
        \/ \E g \in Gen : Stream(g) \/ ReceiveClose(g) \/ HandleDrainMsg(g)
        \/ Shell

(* Requests are answered, goroutines and commands run, messages are         *)
(* handled.  Of the cluster: a terminating pod is removed in the end, and a *)
(* disruption budget that refuses does not refuse for ever.                 *)
Fairness ==
  /\ \A g \in Gen : WF_vars(Stream(g)) /\ WF_vars(ReceiveClose(g))
                    /\ WF_vars(HandleDrainMsg(g))
  /\ \A p \in Pod : WF_vars(Remove(p))

Spec     == Init /\ [][Next]_vars
FairSpec == Spec /\ Fairness

-----------------------------------------------------------------------------
(* "drained X" is only ever reported of the drain that was asked for last,  *)
(* under its own node's name, and every pod it settled on is gone: no       *)
(* cancelled or replaced drain, whose channel closes as quietly, passes for *)
(* a success.                                                               *)
DrainedMeansGone ==
  report.what = "drained" =>
    /\ report.label = node[report.gen]
    /\ \A r \in cands[report.gen] : pods[r.name].uid # r.uid

(* Drain: a cordon is never left behind on a node that refuses to drain.    *)
RefusalLeavesNoCordon == report.what = "refused" => told[report.gen] = {}

(* A cancelled drain ends, though nobody receives from it any more, and its *)
(* pump ends with it.                                                       *)
Dead(g)  == dead[g]
Ended(g) == pc[g] = "closed" /\ pump[g] = "off"
CancelledDrainsEnd == \A g \in Gen : Dead(g) ~> Ended(g)

(* A drain nobody cancels comes to an outcome.                              *)
Started(g)  == pc[g] = "list"
Answered(g) == dead[g] \/ report.gen = g
DrainsAreReported == \A g \in Gen : Started(g) ~> Answered(g)

(* Drain: "empties a node so it can be taken out of service".               *)
DrainedMeansEmpty ==
  report.what = "drained" =>
    \A p \in On(report.label) :
      Evicts(pods[p].spec) => pods[p].dying
=============================================================================
