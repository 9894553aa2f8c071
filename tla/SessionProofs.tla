--------------------------- MODULE SessionProofs ---------------------------
(***************************************************************************)
(* Proofs about Session, for every set of contexts and every bound.        *)
(*                                                                         *)
(* The invariant says that whatever is still accepted, kept or shown       *)
(* belongs to the cluster the shell is on.  Every step but a completed     *)
(* switch leaves the context alone and only adds what belongs to it        *)
(* (StaysOnCluster); a completed switch moves every generation on, past    *)
(* everything under way, and clears the rest.                              *)
(***************************************************************************)
EXTENDS Session, TLAPS

USE ContextAssumption, SessionBoundAssumption

Inv == /\ TypeOK
       /\ LiveIsCurrent
       /\ StashIsCurrent
       /\ SurfacesShowCurrent
       /\ PromptedWritesStayHome

(* A step of the shell on its current cluster.                              *)
StaysOnCluster ==
  /\ context' = context
  /\ \A g \in Gate : gen'[g] >= gen[g]
  /\ \A m \in inbox' \ inbox :
       Gated(m) => m.gen <= gen'[GateOf(m.kind)] /\ m.at = context
  /\ \A s \in Surface \ {"unhealthy", "palette"} :
       view'[s] \in {view[s], context, Down, Idle, Waiting}
  /\ \A s \in Slot : stash'[s] = stash[s] \/ stash'[s].at = context
  /\ did'.how \in {"confirmed", "exec", "forward"} => did'.at = did'.client

LEMMA GateOfIsGate == \A k : GateOf(k) \in Gate
BY DEF GateOf, Gate

LEMMA StayingKeepsInv ==
  ASSUME Inv, StaysOnCluster, TypeOK'
  PROVE  Inv'
<1>1. LiveIsCurrent'
  <2> SUFFICES ASSUME NEW m \in inbox', Gated(m)
               PROVE  /\ m.gen <= gen'[GateOf(m.kind)]
                      /\ m.gen = gen'[GateOf(m.kind)] => m.at = context
    BY DEF StaysOnCluster, LiveIsCurrent, Live, Gated
  <2> DEFINE g == GateOf(m.kind)
  <2>1. g \in Gate /\ gen[g] \in Nat /\ gen'[g] \in Nat /\ gen'[g] >= gen[g]
    BY GateOfIsGate DEF Inv, TypeOK, StaysOnCluster
  <2>2. CASE m \in inbox
    <3>1. m.gen \in Nat
      BY <2>2 DEF Inv, TypeOK, Message, Gated, GatedKind
    <3>2. m.gen <= gen[g] /\ (m.gen = gen[g] => m.at = context)
      BY <2>2 DEF Inv, LiveIsCurrent, Live
    <3> QED BY <2>1, <3>1, <3>2
  <2>3. CASE m \notin inbox
    BY <2>3 DEF StaysOnCluster
  <2> QED BY <2>2, <2>3
<1>2. StashIsCurrent'
  BY DEF Inv, StaysOnCluster, StashIsCurrent
<1>3. SurfacesShowCurrent'
  BY DEF Inv, StaysOnCluster, SurfacesShowCurrent, Shows, Down, Idle, Waiting
<1>4. PromptedWritesStayHome'
  BY DEF StaysOnCluster, PromptedWritesStayHome
<1> QED BY <1>1, <1>2, <1>3, <1>4 DEF Inv

-----------------------------------------------------------------------------
(* The vocabulary: finite sets of names, message constructors and one-line   *)
(* helpers, expanded in every leaf below.                                   *)
USE DEF Down, Idle, Waiting, None, Gate, Overlay, Surface, Slot, Modal, Purpose,
        RowAction, GatedKind, LooseKind, Target, T, NoTarget, Write, Nothing,
        Message, M, Loose, Note, Quiet, Did, Show, Take, Post, Bump, Ask, link,
        dialog, browse, Held

(* The numbers and sets a step leaves behind when it starts a watch.        *)
WatchStays(v, g) ==
  /\ gen' \in [Gate -> Nat]
  /\ view' \in [Surface -> Context \cup {Down, Idle, Waiting}]
  /\ current' \in BOOLEAN
  /\ inbox' \subseteq Message
  /\ \A m \in inbox' : m.kind = "containers" => m.to \in Purpose
  /\ \A k \in Gate : gen'[k] >= g[k]
  /\ \A m \in inbox' \ inbox :
       Gated(m) => m.gen <= gen'[GateOf(m.kind)] /\ m.at = context
  /\ \A s \in Surface : view'[s] \in {v[s], Down, Idle, Waiting}

LEMMA WatchResourceStays ==
  ASSUME Inv,
         NEW v \in [Surface -> Context \cup {Down, Idle, Waiting}],
         NEW g \in [Gate -> Nat], NEW used, WatchResource(v, g, used)
  PROVE  WatchStays(v, g)
<1> DEFINE g2 == [g EXCEPT !["watch"] = @ + 1, !["metrics"] = @ + 1]
           msgs == {M("watch", g2["watch"], context, context, None),
                    M("metrics", g2["metrics"], context, context, None)}
<1>1. CASE /\ gen' = g2
           /\ view' = [v EXCEPT !["table"] = Waiting, !["usage"] = Down]
           /\ current' = TRUE
           /\ inbox' \subseteq inbox \cup msgs
  <2>1. /\ gen' \in [Gate -> Nat]
        /\ \A k \in Gate : gen'[k] >= g[k]
    BY <1>1
  <2>2. msgs \subseteq Message
    BY <2>1 DEF Inv, TypeOK
  <2>3. \A m \in inbox' \ inbox : m.gen <= gen'[GateOf(m.kind)] /\ m.at = context
    BY <1>1, <2>1 DEF GateOf
  <2>4. /\ view' \in [Surface -> Context \cup {Down, Idle, Waiting}]
        /\ \A s \in Surface : view'[s] \in {v[s], Down, Idle, Waiting}
    BY <1>1
  <2>5. /\ inbox' \subseteq Message
        /\ \A m \in inbox' : m.kind = "containers" => m.to \in Purpose
    BY <1>1, <2>2 DEF Inv, TypeOK
  <2> HIDE DEF msgs, g2
  <2> QED BY <1>1, <2>1, <2>3, <2>4, <2>5 DEF WatchStays
<1>2. CASE /\ gen' = [g EXCEPT !["watch"] = @ + 1]
           /\ view' = [v EXCEPT !["table"] = Idle, !["usage"] = Down]
           /\ current' = current
           /\ inbox' = inbox \ used
  BY <1>2 DEF WatchStays, Inv, TypeOK
<1> QED BY <1>1, <1>2 DEF WatchResource

LEMMA SelectResourceStays ==
  ASSUME Inv,
         NEW v \in [Surface -> Context \cup {Down, Idle, Waiting}],
         NEW g \in [Gate -> Nat], NEW used, SelectResource(v, g, used)
  PROVE  WatchStays(v, g)
<1> DEFINE w == [v EXCEPT !["scope"] = Down]
<1>1. w \in [Surface -> Context \cup {Down, Idle, Waiting}] /\ WatchResource(w, g, used)
  BY DEF SelectResource
<1>2. WatchStays(w, g)
  BY <1>1, WatchResourceStays
<1> QED BY <1>2 DEF WatchStays


(* Handling a message that starts no watch.                                 *)
LEMMA MessageStays ==
  ASSUME Inv, NEW m \in inbox
  PROVE  /\ HandleWatchMsg(m) => TypeOK' /\ StaysOnCluster
         /\ HandleMetricsMsg(m) => TypeOK' /\ StaysOnCluster
         /\ HandleMetricsTick(m) => TypeOK' /\ StaysOnCluster
         /\ HandleViewerLoaded(m) => TypeOK' /\ StaysOnCluster
         /\ HandleContainersLoaded(m) => TypeOK' /\ StaysOnCluster
         /\ HandleContainerSelected(m) => TypeOK' /\ StaysOnCluster
         /\ HandleLogMsg(m) => TypeOK' /\ StaysOnCluster
         /\ HandleModalConfirmed(m) => TypeOK' /\ StaysOnCluster
         /\ HandlePortsLoaded(m) => TypeOK' /\ StaysOnCluster
         /\ HandlePortSelected(m) => TypeOK' /\ StaysOnCluster
         /\ HandleEditFetched(m) => TypeOK' /\ StaysOnCluster
         /\ HandleRelations(m) => TypeOK' /\ StaysOnCluster
         /\ HandleSearchDebounced(m) => TypeOK' /\ StaysOnCluster
         /\ HandleSearchMsg(m) => TypeOK' /\ StaysOnCluster
         /\ HandleScanMsg(m) => TypeOK' /\ StaysOnCluster
         /\ HandleNamespacesLoaded(m) => TypeOK' /\ StaysOnCluster
         /\ HandleClosed(m) => TypeOK' /\ StaysOnCluster
<1>1. ASSUME HandleWatchMsg(m) PROVE TypeOK' /\ StaysOnCluster
  <2>1. TypeOK'
    BY <1>1 DEF HandleWatchMsg, Inv, TypeOK
  <2>2. StaysOnCluster
    BY <1>1, GateOfIsGate
       DEF HandleWatchMsg, Inv, TypeOK, StaysOnCluster, Gated, GateOf,
           Live, LiveIsCurrent
  <2> QED BY <2>1, <2>2
<1>2. ASSUME HandleMetricsMsg(m) PROVE TypeOK' /\ StaysOnCluster
  <2>1. TypeOK'
    BY <1>2 DEF HandleMetricsMsg, Inv, TypeOK
  <2>2. StaysOnCluster
    BY <1>2, GateOfIsGate
       DEF HandleMetricsMsg, Inv, TypeOK, StaysOnCluster, Gated, GateOf,
           Live, LiveIsCurrent
  <2> QED BY <2>1, <2>2
<1>3. ASSUME HandleMetricsTick(m) PROVE TypeOK' /\ StaysOnCluster
  <2>1. TypeOK'
    BY <1>3 DEF HandleMetricsTick, Inv, TypeOK
  <2>2. StaysOnCluster
    BY <1>3, GateOfIsGate
       DEF HandleMetricsTick, Inv, TypeOK, StaysOnCluster, Gated, GateOf
  <2> QED BY <2>1, <2>2
<1>4. ASSUME HandleViewerLoaded(m) PROVE TypeOK' /\ StaysOnCluster
  <2>1. TypeOK'
    BY <1>4 DEF HandleViewerLoaded, Inv, TypeOK
  <2>2. StaysOnCluster
    BY <1>4, GateOfIsGate
       DEF HandleViewerLoaded, Inv, TypeOK, StaysOnCluster, Gated, GateOf,
           Live, LiveIsCurrent
  <2> QED BY <2>1, <2>2
<1>5. ASSUME HandleContainersLoaded(m) PROVE TypeOK' /\ StaysOnCluster
  <2>1. /\ stash' \in [Slot -> Target \cup {NoTarget}]
        /\ ctrPurpose' \in Purpose
        /\ did' \in Write \cup {Nothing}
    BY <1>5 DEF HandleContainersLoaded, StreamOrExec, Inv, TypeOK
  <2>2. /\ inbox' \subseteq Message
        /\ \A k \in inbox' : k.kind = "containers" => k.to \in Purpose
    BY <1>5 DEF HandleContainersLoaded, StreamOrExec, Inv, TypeOK
  <2>3. view' \in [Surface -> Context \cup {Down, Idle, Waiting}]
    BY <1>5 DEF HandleContainersLoaded, StreamOrExec, Inv, TypeOK
  <2>4. TypeOK'
    BY <1>5, <2>1, <2>2, <2>3 DEF HandleContainersLoaded, Inv, TypeOK
  <2>5. StaysOnCluster
    BY <1>5, GateOfIsGate DEF HandleContainersLoaded, StreamOrExec, Inv, TypeOK,
           StaysOnCluster, Gated, GateOf, Live, LiveIsCurrent
  <2> QED BY <2>4, <2>5
<1>6. ASSUME HandleContainerSelected(m) PROVE TypeOK' /\ StaysOnCluster
  <2>1. TypeOK'
    BY <1>6 DEF HandleContainerSelected, StreamOrExec, Inv, TypeOK
  <2>2. StaysOnCluster
    BY <1>6, GateOfIsGate
       DEF HandleContainerSelected, StreamOrExec, Inv, TypeOK,
           StaysOnCluster, Gated, GateOf, StashIsCurrent
  <2> QED BY <2>1, <2>2
<1>7. ASSUME HandleLogMsg(m) PROVE TypeOK' /\ StaysOnCluster
  <2>1. TypeOK'
    BY <1>7 DEF HandleLogMsg, Inv, TypeOK
  <2>2. StaysOnCluster
    BY <1>7, GateOfIsGate
       DEF HandleLogMsg, Inv, TypeOK, StaysOnCluster, Gated, GateOf, Live,
           LiveIsCurrent
  <2> QED BY <2>1, <2>2
<1>8. ASSUME HandleModalConfirmed(m) PROVE TypeOK' /\ StaysOnCluster
  <2>1. TypeOK'
    BY <1>8 DEF HandleModalConfirmed, SlotOf, Inv, TypeOK
  <2>2. StaysOnCluster
    BY <1>8, GateOfIsGate
       DEF HandleModalConfirmed, SlotOf, Inv, TypeOK, StaysOnCluster,
           Gated, GateOf, StashIsCurrent
  <2> QED BY <2>1, <2>2
<1>9. ASSUME HandlePortsLoaded(m) PROVE TypeOK' /\ StaysOnCluster
  <2>1. TypeOK'
    BY <1>9 DEF HandlePortsLoaded, Inv, TypeOK
  <2>2. StaysOnCluster
    BY <1>9, GateOfIsGate
       DEF HandlePortsLoaded, Inv, TypeOK, StaysOnCluster, Gated, GateOf,
           Live, LiveIsCurrent
  <2> QED BY <2>1, <2>2
<1>10. ASSUME HandlePortSelected(m) PROVE TypeOK' /\ StaysOnCluster
  <2>1. TypeOK'
    BY <1>10 DEF HandlePortSelected, Inv, TypeOK
  <2>2. StaysOnCluster
    BY <1>10, GateOfIsGate
       DEF HandlePortSelected, Inv, TypeOK, StaysOnCluster, Gated, GateOf,
           StashIsCurrent
  <2> QED BY <2>1, <2>2
<1>11. ASSUME HandleEditFetched(m) PROVE TypeOK' /\ StaysOnCluster
  <2>1. TypeOK'
    BY <1>11 DEF HandleEditFetched, Inv, TypeOK
  <2>2. StaysOnCluster
    BY <1>11, GateOfIsGate
       DEF HandleEditFetched, Inv, TypeOK, StaysOnCluster, Gated, GateOf
  <2> QED BY <2>1, <2>2
<1>12. ASSUME HandleRelations(m) PROVE TypeOK' /\ StaysOnCluster
  <2>1. TypeOK'
    BY <1>12 DEF HandleRelations, Inv, TypeOK
  <2>2. StaysOnCluster
    BY <1>12, GateOfIsGate
       DEF HandleRelations, Inv, TypeOK, StaysOnCluster, Gated, GateOf,
           Live, LiveIsCurrent
  <2> QED BY <2>1, <2>2
<1>13. ASSUME HandleSearchDebounced(m) PROVE TypeOK' /\ StaysOnCluster
  <2>1. TypeOK'
    BY <1>13 DEF HandleSearchDebounced, Inv, TypeOK
  <2>2. StaysOnCluster
    BY <1>13, GateOfIsGate
       DEF HandleSearchDebounced, Inv, TypeOK, StaysOnCluster, Gated,
           GateOf, Live
  <2> QED BY <2>1, <2>2
<1>14. ASSUME HandleSearchMsg(m) PROVE TypeOK' /\ StaysOnCluster
  <2>1. TypeOK'
    BY <1>14 DEF HandleSearchMsg, Inv, TypeOK
  <2>2. StaysOnCluster
    BY <1>14, GateOfIsGate
       DEF HandleSearchMsg, Inv, TypeOK, StaysOnCluster, Gated, GateOf,
           Live, LiveIsCurrent
  <2> QED BY <2>1, <2>2
<1>15. ASSUME HandleScanMsg(m) PROVE TypeOK' /\ StaysOnCluster
  <2>1. TypeOK'
    BY <1>15 DEF HandleScanMsg, Inv, TypeOK
  <2>2. StaysOnCluster
    BY <1>15, GateOfIsGate
       DEF HandleScanMsg, Inv, TypeOK, StaysOnCluster, Gated, GateOf
  <2> QED BY <2>1, <2>2
<1>16. ASSUME HandleNamespacesLoaded(m) PROVE TypeOK' /\ StaysOnCluster
  <2>1. TypeOK'
    BY <1>16 DEF HandleNamespacesLoaded, Inv, TypeOK
  <2>2. StaysOnCluster
    BY <1>16, GateOfIsGate
       DEF HandleNamespacesLoaded, Inv, TypeOK, StaysOnCluster, Gated,
           GateOf
  <2> QED BY <2>1, <2>2
<1>17. ASSUME HandleClosed(m) PROVE TypeOK' /\ StaysOnCluster
  <2>1. gen' \in [Gate -> Nat] /\ \A g \in Gate : gen'[g] >= gen[g]
    BY <1>17 DEF HandleClosed, Inv, TypeOK
  <2>2. m.to \in Overlay \cup {"modal"}
    BY <1>17 DEF HandleClosed, Inv, TypeOK
  <2>3. TypeOK'
    BY <1>17, <2>1, <2>2 DEF HandleClosed, Inv, TypeOK
  <2>4. StaysOnCluster
    BY <1>17, <2>1, <2>2 DEF HandleClosed, Inv, TypeOK, StaysOnCluster
  <2> QED BY <2>3, <2>4
<1> QED BY <1>1, <1>2, <1>3, <1>4, <1>5, <1>6, <1>7, <1>8, <1>9, <1>10, <1>11, <1>12, <1>13, <1>14, <1>15, <1>16, <1>17

LEMMA WatchStaysSuffices ==
  ASSUME Inv, NEW v, NEW g \in [Gate -> Nat], WatchStays(v, g),
         \A k \in Gate : g[k] >= gen[k],
         \A s \in Surface \ {"unhealthy", "palette"} :
           v[s] \in {view[s], context, Down, Idle, Waiting},
         UNCHANGED <<link, dialog>>, Quiet, restore' \in BOOLEAN,
         opens' \in 0..MaxOpens
  PROVE  TypeOK' /\ StaysOnCluster
<1>1. TypeOK'
  BY DEF WatchStays, Inv, TypeOK
<1>2. \A k \in Gate : gen'[k] >= gen[k]
  BY DEF WatchStays, Inv, TypeOK
<1>3. \A s \in Surface \ {"unhealthy", "palette"} :
        view'[s] \in {view[s], context, Down, Idle, Waiting}
  BY DEF WatchStays
<1> QED BY <1>1, <1>2, <1>3 DEF WatchStays, StaysOnCluster, Inv, TypeOK

LEMMA StartingStays ==
  ASSUME Inv,
         NEW v \in [Surface -> Context \cup {Down, Idle, Waiting}],
         NEW g \in [Gate -> Nat], NEW used,
         \A k \in Gate : g[k] >= gen[k],
         \A s \in Surface \ {"unhealthy", "palette"} :
           v[s] \in {view[s], context, Down, Idle, Waiting},
         UNCHANGED <<link, dialog>>, Quiet, restore' \in BOOLEAN,
         opens' \in 0..MaxOpens,
         WatchResource(v, g, used) \/ SelectResource(v, g, used)
  PROVE  TypeOK' /\ StaysOnCluster
BY WatchResourceStays, SelectResourceStays, WatchStaysSuffices


(* Handling a message that may start a watch.                               *)
LEMMA MessageFields ==
  ASSUME TypeOK, NEW m \in inbox, m.kind \in GatedKind \cup LooseKind
  PROVE  m.gen \in Nat /\ m.obj \in Context /\ m.at \in Context
BY DEF TypeOK

LEMMA WatchingStays ==
  ASSUME Inv, NEW m \in inbox
  PROVE  /\ HandleDiscovery(m) => TypeOK' /\ StaysOnCluster
         /\ HandleChildScope(m) => TypeOK' /\ StaysOnCluster
         /\ HandleRestoreDrill(m) => TypeOK' /\ StaysOnCluster
         /\ HandleRelationSelected(m) => TypeOK' /\ StaysOnCluster
         /\ HandleSearchSelected(m) => TypeOK' /\ StaysOnCluster
         /\ HandleUnhealthySelected(m) => TypeOK' /\ StaysOnCluster
<1>1. ASSUME HandleDiscovery(m) PROVE TypeOK' /\ StaysOnCluster
  <2> DEFINE v == [view EXCEPT !["menu"] = m.at]
  <2>1. CASE Live(m) /\ SelectResource(v, gen, {m})
    <3>1. /\ v \in [Surface -> Context \cup {Down, Idle, Waiting}]
          /\ \A s \in Surface \ {"unhealthy", "palette"} :
               v[s] \in {view[s], context, Down, Idle, Waiting}
          /\ gen \in [Gate -> Nat] /\ \A k \in Gate : gen[k] >= gen[k]
      BY <1>1, <2>1 DEF HandleDiscovery, Inv, TypeOK, LiveIsCurrent, Gated
    <3>2. /\ UNCHANGED <<link, dialog>> /\ Quiet
          /\ restore' \in BOOLEAN /\ opens' \in 0..MaxOpens
      BY <1>1, <2>1 DEF HandleDiscovery, Inv, TypeOK
    <3>3. SelectResource(v, gen, {m})
      BY <2>1 DEF HandleDiscovery
    <3> HIDE DEF v
    <3> QED BY <3>1, <3>2, <3>3, StartingStays
  <2>2. CASE /\ Live(m)
             /\ view' = v
             /\ gen' = [gen EXCEPT !["child"] = @ + 1]
             /\ inbox' = (inbox \ {m}) \cup
                           {M("restore", gen["child"] + 1, context, context, None)}
             /\ UNCHANGED current
    <3>1. /\ inbox' \subseteq Message
          /\ \A k \in inbox' : k.kind = "containers" => k.to \in Purpose
      BY <1>1, <2>2 DEF Inv, TypeOK
    <3>2. view' \in [Surface -> Context \cup {Down, Idle, Waiting}]
      <4>1. m.at \in Context
        BY <1>1, MessageFields DEF HandleDiscovery, Inv
      <4> QED BY <2>2, <4>1 DEF Inv, TypeOK
    <3>3. TypeOK'
      BY <1>1, <2>2, <3>1, <3>2 DEF HandleDiscovery, Inv, TypeOK
    <3>4. StaysOnCluster
      BY <1>1, <2>2 DEF HandleDiscovery, Inv, TypeOK, StaysOnCluster, GateOf,
                        LiveIsCurrent, Gated
    <3> QED BY <3>3, <3>4
  <2>3. CASE /\ (view' = v /\ Live(m)) \/ UNCHANGED view
             /\ inbox' = inbox \ {m}
             /\ UNCHANGED <<gen, current>>
    <3>1. TypeOK'
      BY <1>1, <2>3 DEF HandleDiscovery, Inv, TypeOK
    <3>2. StaysOnCluster
      BY <1>1, <2>3 DEF HandleDiscovery, Inv, TypeOK, StaysOnCluster,
                        LiveIsCurrent, Gated
    <3> QED BY <3>1, <3>2
  <2> QED BY <1>1, <2>1, <2>2, <2>3 DEF HandleDiscovery
<1>2. ASSUME HandleChildScope(m) PROVE TypeOK' /\ StaysOnCluster
  <2> DEFINE v == [view EXCEPT !["scope"] = m.at]
  <2>1. CASE Live(m) /\ WatchResource(v, gen, {m})
    <3>1. /\ v \in [Surface -> Context \cup {Down, Idle, Waiting}]
          /\ \A s \in Surface \ {"unhealthy", "palette"} :
               v[s] \in {view[s], context, Down, Idle, Waiting}
          /\ gen \in [Gate -> Nat] /\ \A k \in Gate : gen[k] >= gen[k]
      BY <1>2, <2>1 DEF HandleChildScope, Inv, TypeOK, LiveIsCurrent, Gated
    <3>2. /\ UNCHANGED <<link, dialog>> /\ Quiet
          /\ restore' \in BOOLEAN /\ opens' \in 0..MaxOpens
      BY <1>2, <2>1 DEF HandleChildScope, Inv, TypeOK
    <3>3. WatchResource(v, gen, {m})
      BY <2>1 DEF HandleChildScope
    <3> HIDE DEF v
    <3> QED BY <3>1, <3>2, <3>3, StartingStays
  <2>2. CASE Take(m, {}) /\ UNCHANGED <<gen, view, current>>
    BY <1>2, <2>2 DEF HandleChildScope, Inv, TypeOK, StaysOnCluster
  <2> QED BY <1>2, <2>1, <2>2 DEF HandleChildScope
<1>3. ASSUME HandleRestoreDrill(m) PROVE TypeOK' /\ StaysOnCluster
  <2> DEFINE v == [view EXCEPT !["scope"] = m.at]
  <2>1. CASE Live(m) /\ WatchResource(v, gen, {m})
    <3>1. /\ v \in [Surface -> Context \cup {Down, Idle, Waiting}]
          /\ \A s \in Surface \ {"unhealthy", "palette"} :
               v[s] \in {view[s], context, Down, Idle, Waiting}
          /\ gen \in [Gate -> Nat] /\ \A k \in Gate : gen[k] >= gen[k]
      BY <1>3, <2>1 DEF HandleRestoreDrill, Inv, TypeOK, LiveIsCurrent, Gated
    <3>2. /\ UNCHANGED <<link, dialog>> /\ Quiet
          /\ restore' \in BOOLEAN /\ opens' \in 0..MaxOpens
      BY <1>3, <2>1 DEF HandleRestoreDrill, Inv, TypeOK
    <3>3. WatchResource(v, gen, {m})
      BY <2>1 DEF HandleRestoreDrill
    <3> HIDE DEF v
    <3> QED BY <3>1, <3>2, <3>3, StartingStays
  <2>2. CASE SelectResource(view, gen, {m})
    <3>1. /\ view \in [Surface -> Context \cup {Down, Idle, Waiting}]
          /\ \A s \in Surface \ {"unhealthy", "palette"} :
               view[s] \in {view[s], context, Down, Idle, Waiting}
          /\ gen \in [Gate -> Nat] /\ \A k \in Gate : gen[k] >= gen[k]
      BY <1>3, <2>2 DEF HandleRestoreDrill, Inv, TypeOK
    <3>2. /\ UNCHANGED <<link, dialog>> /\ Quiet
          /\ restore' \in BOOLEAN /\ opens' \in 0..MaxOpens
      BY <1>3, <2>2 DEF HandleRestoreDrill, Inv, TypeOK
    <3>3. SelectResource(view, gen, {m})
      BY <2>2 DEF HandleRestoreDrill
    <3> QED BY <3>1, <3>2, <3>3, StartingStays
  <2>3. CASE Take(m, {}) /\ UNCHANGED <<gen, view, current>>
    BY <1>3, <2>3 DEF HandleRestoreDrill, Inv, TypeOK, StaysOnCluster
  <2> QED BY <1>3, <2>1, <2>2, <2>3 DEF HandleRestoreDrill
<1>4. ASSUME HandleRelationSelected(m) PROVE TypeOK' /\ StaysOnCluster
  <2> DEFINE v == [view EXCEPT !["relPicker"] = Down]
             w == [v EXCEPT !["scope"] = view["relPicker"]]
  <2>1. CASE WatchResource(w, gen, {m})
    <3>1. /\ w \in [Surface -> Context \cup {Down, Idle, Waiting}]
          /\ \A s \in Surface \ {"unhealthy", "palette"} :
               w[s] \in {view[s], context, Down, Idle, Waiting}
          /\ gen \in [Gate -> Nat] /\ \A k \in Gate : gen[k] >= gen[k]
      BY <1>4, <2>1
         DEF HandleRelationSelected, Inv, TypeOK, SurfacesShowCurrent,
             Shows
    <3>2. /\ UNCHANGED <<link, dialog>> /\ Quiet
          /\ restore' \in BOOLEAN /\ opens' \in 0..MaxOpens
      BY <1>4, <2>1 DEF HandleRelationSelected, Inv, TypeOK
    <3>3. WatchResource(w, gen, {m})
      BY <2>1 DEF HandleRelationSelected
    <3> HIDE DEF w
    <3> QED BY <3>1, <3>2, <3>3, StartingStays
  <2>2. CASE SelectResource(v, gen, {m})
    <3>1. /\ v \in [Surface -> Context \cup {Down, Idle, Waiting}]
          /\ \A s \in Surface \ {"unhealthy", "palette"} :
               v[s] \in {view[s], context, Down, Idle, Waiting}
          /\ gen \in [Gate -> Nat] /\ \A k \in Gate : gen[k] >= gen[k]
      BY <1>4, <2>2 DEF HandleRelationSelected, Inv, TypeOK
    <3>2. /\ UNCHANGED <<link, dialog>> /\ Quiet
          /\ restore' \in BOOLEAN /\ opens' \in 0..MaxOpens
      BY <1>4, <2>2 DEF HandleRelationSelected, Inv, TypeOK
    <3>3. SelectResource(v, gen, {m})
      BY <2>2 DEF HandleRelationSelected
    <3> HIDE DEF v
    <3> QED BY <3>1, <3>2, <3>3, StartingStays
  <2>3. CASE Take(m, {}) /\ UNCHANGED <<gen, view, current>>
    BY <1>4, <2>3 DEF HandleRelationSelected, Inv, TypeOK, StaysOnCluster
  <2> QED BY <1>4, <2>1, <2>2, <2>3 DEF HandleRelationSelected
<1>5. ASSUME HandleSearchSelected(m) PROVE TypeOK' /\ StaysOnCluster
  <2> DEFINE v == [view EXCEPT !["search"] = Down]
             g == [gen EXCEPT !["search"] = @ + 1]
  <2>1. /\ v \in [Surface -> Context \cup {Down, Idle, Waiting}]
        /\ \A s \in Surface \ {"unhealthy", "palette"} :
             v[s] \in {view[s], context, Down, Idle, Waiting}
        /\ g \in [Gate -> Nat] /\ \A k \in Gate : g[k] >= gen[k]
    BY <1>5 DEF HandleSearchSelected, Inv, TypeOK
  <2>2. /\ UNCHANGED <<link, dialog>> /\ Quiet
        /\ restore' \in BOOLEAN /\ opens' \in 0..MaxOpens
    BY <1>5 DEF HandleSearchSelected, Inv, TypeOK
  <2>3. SelectResource(v, g, {m})
    BY <1>5 DEF HandleSearchSelected
  <2> HIDE DEF v, g
  <2> QED BY <2>1, <2>2, <2>3, StartingStays
<1>6. ASSUME HandleUnhealthySelected(m) PROVE TypeOK' /\ StaysOnCluster
  <2> DEFINE v == [view EXCEPT !["unhealthy"] = Down]
             g == [gen EXCEPT !["scan"] = @ + 1]
  <2>1. /\ v \in [Surface -> Context \cup {Down, Idle, Waiting}]
        /\ \A s \in Surface \ {"unhealthy", "palette"} :
             v[s] \in {view[s], context, Down, Idle, Waiting}
        /\ g \in [Gate -> Nat] /\ \A k \in Gate : g[k] >= gen[k]
    BY <1>6 DEF HandleUnhealthySelected, Inv, TypeOK
  <2>2. /\ UNCHANGED <<link, dialog>> /\ Quiet
        /\ restore' \in BOOLEAN /\ opens' \in 0..MaxOpens
    BY <1>6 DEF HandleUnhealthySelected, Inv, TypeOK
  <2>3. SelectResource(v, g, {m})
    BY <1>6 DEF HandleUnhealthySelected
  <2> HIDE DEF v, g
  <2> QED BY <2>1, <2>2, <2>3, StartingStays
<1> QED BY <1>1, <1>2, <1>3, <1>4, <1>5, <1>6


(* Carrying out a row action.                                              *)
LEMMA RowActionStays ==
  ASSUME Inv, NEW m \in inbox
  PROVE  /\ OpenViewer(m) => TypeOK' /\ StaysOnCluster
         /\ RunCordon(m) => TypeOK' /\ StaysOnCluster
         /\ ResolvePorts(m) => TypeOK' /\ StaysOnCluster
         /\ OpenEdit(m) => TypeOK' /\ StaysOnCluster
         /\ OpenChildren(m) => TypeOK' /\ StaysOnCluster
         /\ OpenRelations(m) => TypeOK' /\ StaysOnCluster
         /\ (\E p \in Purpose : ResolveContainers(m, p)) => TypeOK' /\ StaysOnCluster
         /\ (\E k \in {"delete", "scale", "drain"} : OpenModal(m, k)) => TypeOK' /\ StaysOnCluster
<1>1. ASSUME OpenViewer(m) PROVE TypeOK' /\ StaysOnCluster
  <2>1. TypeOK'
    BY <1>1 DEF OpenViewer, Row, Inv, TypeOK
  <2>2. StaysOnCluster
    BY <1>1, GateOfIsGate
       DEF OpenViewer, Row, Inv, TypeOK, StaysOnCluster, Gated, GateOf
  <2> QED BY <2>1, <2>2
<1>2. ASSUME RunCordon(m) PROVE TypeOK' /\ StaysOnCluster
  <2>1. TypeOK'
    BY <1>2 DEF RunCordon, Row, Inv, TypeOK
  <2>2. StaysOnCluster
    BY <1>2, GateOfIsGate
       DEF RunCordon, Row, Inv, TypeOK, StaysOnCluster, Gated, GateOf
  <2> QED BY <2>1, <2>2
<1>3. ASSUME ResolvePorts(m) PROVE TypeOK' /\ StaysOnCluster
  <2>1. TypeOK'
    BY <1>3 DEF ResolvePorts, Row, Inv, TypeOK
  <2>2. StaysOnCluster
    BY <1>3, GateOfIsGate
       DEF ResolvePorts, Row, Inv, TypeOK, StaysOnCluster, Gated, GateOf
  <2> QED BY <2>1, <2>2
<1>4. ASSUME OpenEdit(m) PROVE TypeOK' /\ StaysOnCluster
  <2>1. TypeOK'
    BY <1>4 DEF OpenEdit, Row, Inv, TypeOK
  <2>2. StaysOnCluster
    BY <1>4, GateOfIsGate
       DEF OpenEdit, Row, Inv, TypeOK, StaysOnCluster, Gated, GateOf
  <2> QED BY <2>1, <2>2
<1>5. ASSUME OpenChildren(m) PROVE TypeOK' /\ StaysOnCluster
  <2>1. TypeOK'
    BY <1>5 DEF OpenChildren, Row, Inv, TypeOK
  <2>2. StaysOnCluster
    BY <1>5, GateOfIsGate
       DEF OpenChildren, Row, Inv, TypeOK, StaysOnCluster, Gated, GateOf
  <2> QED BY <2>1, <2>2
<1>6. ASSUME OpenRelations(m) PROVE TypeOK' /\ StaysOnCluster
  <2>1. TypeOK'
    BY <1>6 DEF OpenRelations, Row, Inv, TypeOK
  <2>2. StaysOnCluster
    BY <1>6, GateOfIsGate
       DEF OpenRelations, Row, Inv, TypeOK, StaysOnCluster, Gated, GateOf
  <2> QED BY <2>1, <2>2
<1>7. ASSUME (\E p \in Purpose : ResolveContainers(m, p)) PROVE TypeOK' /\ StaysOnCluster
  <2>1. TypeOK'
    BY <1>7 DEF ResolveContainers, Row, Inv, TypeOK
  <2>2. StaysOnCluster
    BY <1>7, GateOfIsGate
       DEF ResolveContainers, Row, Inv, TypeOK, StaysOnCluster, Gated,
           GateOf
  <2> QED BY <2>1, <2>2
<1>8. ASSUME (\E k \in {"delete", "scale", "drain"} : OpenModal(m, k)) PROVE TypeOK' /\ StaysOnCluster
  <2>1. TypeOK'
    BY <1>8 DEF OpenModal, Row, SlotOf, Inv, TypeOK
  <2>2. StaysOnCluster
    BY <1>8, GateOfIsGate
       DEF OpenModal, Row, SlotOf, Inv, TypeOK, StaysOnCluster, Gated,
           GateOf
  <2> QED BY <2>1, <2>2
<1> QED BY <1>1, <1>2, <1>3, <1>4, <1>5, <1>6, <1>7, <1>8

(* What the reader does, apart from switching context.                     *)
LEMMA ReaderStays ==
  ASSUME Inv
  PROVE  /\ (\E c \in Context : SwitchContext(c)) => TypeOK' /\ StaysOnCluster
         /\ (\E a \in RowAction : DispatchRowAction(a)) => TypeOK' /\ StaysOnCluster
         /\ Accept => TypeOK' /\ StaysOnCluster
         /\ OpenSearch => TypeOK' /\ StaysOnCluster
         /\ RestartSearch => TypeOK' /\ StaysOnCluster
         /\ OpenUnhealthy => TypeOK' /\ StaysOnCluster
         /\ OpenNamespaces => TypeOK' /\ StaysOnCluster
         /\ (\E s \in Overlay : Pick(s)) => TypeOK' /\ StaysOnCluster
         /\ (\E s \in Overlay \cup {"modal"} : Close(s)) => TypeOK' /\ StaysOnCluster
<1>1. ASSUME (\E c \in Context : SwitchContext(c)) PROVE TypeOK' /\ StaysOnCluster
  <2>1. TypeOK'
    BY <1>1 DEF SwitchContext, Inv, TypeOK
  <2>2. StaysOnCluster
    BY <1>1, GateOfIsGate
       DEF SwitchContext, Inv, TypeOK, StaysOnCluster, Gated, GateOf
  <2> QED BY <2>1, <2>2
<1>2. ASSUME (\E a \in RowAction : DispatchRowAction(a)) PROVE TypeOK' /\ StaysOnCluster
  <2>1. TypeOK'
    BY <1>2 DEF DispatchRowAction, Shows, Inv, TypeOK
  <2>2. StaysOnCluster
    BY <1>2, GateOfIsGate
       DEF DispatchRowAction, Shows, Inv, TypeOK, StaysOnCluster, Gated,
           GateOf
  <2> QED BY <2>1, <2>2
<1>3. ASSUME Accept PROVE TypeOK' /\ StaysOnCluster
  <2>1. TypeOK'
    BY <1>3 DEF Accept, HasKeys, OnScreen, Ladder, Inv, TypeOK
  <2>2. StaysOnCluster
    BY <1>3, GateOfIsGate
       DEF Accept, HasKeys, OnScreen, Ladder, Inv, TypeOK, StaysOnCluster,
           Gated, GateOf
  <2> QED BY <2>1, <2>2
<1>5. ASSUME OpenSearch PROVE TypeOK' /\ StaysOnCluster
  <2>1. TypeOK'
    BY <1>5 DEF OpenSearch, Inv, TypeOK
  <2>2. StaysOnCluster
    BY <1>5, GateOfIsGate
       DEF OpenSearch, Inv, TypeOK, StaysOnCluster, Gated, GateOf
  <2> QED BY <2>1, <2>2
<1>6. ASSUME RestartSearch PROVE TypeOK' /\ StaysOnCluster
  <2>1. TypeOK'
    BY <1>6 DEF RestartSearch, Inv, TypeOK
  <2>2. StaysOnCluster
    BY <1>6, GateOfIsGate
       DEF RestartSearch, Inv, TypeOK, StaysOnCluster, Gated, GateOf
  <2> QED BY <2>1, <2>2
<1>7. ASSUME OpenUnhealthy PROVE TypeOK' /\ StaysOnCluster
  <2>1. TypeOK'
    BY <1>7 DEF OpenUnhealthy, Inv, TypeOK
  <2>2. StaysOnCluster
    BY <1>7, GateOfIsGate
       DEF OpenUnhealthy, Inv, TypeOK, StaysOnCluster, Gated, GateOf
  <2> QED BY <2>1, <2>2
<1>8. ASSUME OpenNamespaces PROVE TypeOK' /\ StaysOnCluster
  <2>1. TypeOK'
    BY <1>8 DEF OpenNamespaces, Inv, TypeOK
  <2>2. StaysOnCluster
    BY <1>8, GateOfIsGate
       DEF OpenNamespaces, Inv, TypeOK, StaysOnCluster, Gated, GateOf
  <2> QED BY <2>1, <2>2
<1>9. ASSUME (\E s \in Overlay : Pick(s)) PROVE TypeOK' /\ StaysOnCluster
  <2>1. TypeOK'
    BY <1>9 DEF Pick, PickKind, Shows, Inv, TypeOK
  <2>2. StaysOnCluster
    BY <1>9, GateOfIsGate
       DEF Pick, PickKind, Shows, Inv, TypeOK, StaysOnCluster, Gated,
           GateOf
  <2> QED BY <2>1, <2>2
<1>10. ASSUME NEW s \in Overlay \cup {"modal"}, Close(s)
       PROVE  TypeOK' /\ StaysOnCluster
  <2>1. TypeOK'
    BY <1>10 DEF Close, Inv, TypeOK
  <2>2. StaysOnCluster
    BY <1>10 DEF Close, Inv, TypeOK, StaysOnCluster, Gated
  <2> QED BY <2>1, <2>2
<1> QED BY <1>1, <1>2, <1>3, <1>5, <1>6, <1>7, <1>8, <1>9, <1>10

LEMMA ReaderWatchingStays ==
  ASSUME Inv
  PROVE  /\ PickResource => TypeOK' /\ StaysOnCluster
         /\ ApplyNamespace => TypeOK' /\ StaysOnCluster
<1>1. ASSUME PickResource PROVE TypeOK' /\ StaysOnCluster
  <2>1. /\ view \in [Surface -> Context \cup {Down, Idle, Waiting}]
        /\ \A s \in Surface \ {"unhealthy", "palette"} :
             view[s] \in {view[s], context, Down, Idle, Waiting}
        /\ gen \in [Gate -> Nat] /\ \A k \in Gate : gen[k] >= gen[k]
    BY <1>1 DEF PickResource, Inv, TypeOK
  <2>2. /\ UNCHANGED <<link, dialog>> /\ Quiet
        /\ restore' \in BOOLEAN /\ opens' \in 0..MaxOpens
    BY <1>1 DEF PickResource, Inv, TypeOK
  <2>3. SelectResource(view, gen, {})
    BY <1>1 DEF PickResource
  <2> QED BY <2>1, <2>2, <2>3, StartingStays
<1>2. ASSUME ApplyNamespace PROVE TypeOK' /\ StaysOnCluster
  <2> DEFINE v == [view EXCEPT !["palette"] = Down]
  <2>1. CASE SelectResource(v, gen, {})
    <3>1. /\ v \in [Surface -> Context \cup {Down, Idle, Waiting}]
          /\ \A s \in Surface \ {"unhealthy", "palette"} :
               v[s] \in {view[s], context, Down, Idle, Waiting}
          /\ gen \in [Gate -> Nat] /\ \A k \in Gate : gen[k] >= gen[k]
      BY <1>2, <2>1 DEF ApplyNamespace, Inv, TypeOK
    <3>2. /\ UNCHANGED <<link, dialog>> /\ Quiet
          /\ restore' \in BOOLEAN /\ opens' \in 0..MaxOpens
      BY <1>2, <2>1 DEF ApplyNamespace, Inv, TypeOK
    <3>3. SelectResource(v, gen, {})
      BY <2>1 DEF ApplyNamespace
    <3> HIDE DEF v
    <3> QED BY <3>1, <3>2, <3>3, StartingStays
  <2>2. CASE view' = v /\ UNCHANGED <<gen, inbox, current>>
    BY <1>2, <2>2 DEF ApplyNamespace, Inv, TypeOK, StaysOnCluster
  <2> QED BY <1>2, <2>1, <2>2 DEF ApplyNamespace
<1> QED BY <1>1, <1>2

-----------------------------------------------------------------------------
(* A completed switch: what is under way falls behind its generation.       *)
LEMMA ConnectedKeepsInv ==
  ASSUME Inv, NEW c \in connecting, HandleClusterConnected(c)
  PROVE  Inv'
<1>1. CASE UNCHANGED <<context, gen, inbox, view, dialog, browse>>
  BY <1>1 DEF HandleClusterConnected, Inv, TypeOK, LiveIsCurrent, Live,
              StashIsCurrent, SurfacesShowCurrent, Shows, PromptedWritesStayHome
<1>2. CASE /\ context' = c.to
           /\ gen' = [g \in Gate |-> gen[g] + 1]
           /\ view' = [s \in Surface |-> AfterReset(s)]
           /\ modal' = None
           /\ stash' = [s \in Slot |-> NoTarget]
           /\ UNCHANGED ctrPurpose
           /\ current' = FALSE
           /\ restore' = TRUE
           /\ inbox' = inbox \cup
                {M("discovery", gen["discovery"] + 1, c.to, c.to, None)}
  <2>1. TypeOK'
    <3>1. c.to \in Context
      BY DEF Inv, TypeOK
    <3>2. gen' \in [Gate -> Nat]
      BY <1>2 DEF Inv, TypeOK
    <3>3. /\ inbox' \subseteq Message
          /\ \A m \in inbox' : m.kind = "containers" => m.to \in Purpose
      BY <1>2, <3>1 DEF Inv, TypeOK
    <3>4. view' \in [Surface -> Context \cup {Down, Idle, Waiting}]
      BY <1>2 DEF Inv, TypeOK, AfterReset
    <3>5. stash' \in [Slot -> Target \cup {NoTarget}]
      BY <1>2
    <3> QED BY <1>2, <3>1, <3>2, <3>3, <3>4, <3>5
            DEF HandleClusterConnected, Inv, TypeOK
  <2>2. LiveIsCurrent'
    <3> SUFFICES ASSUME NEW m \in inbox', Gated(m)
                 PROVE  /\ m.gen <= gen'[GateOf(m.kind)]
                        /\ m.gen = gen'[GateOf(m.kind)] => m.at = context'
      BY DEF LiveIsCurrent, Live, Gated
    <3>1. /\ gen[GateOf(m.kind)] \in Nat
          /\ gen'[GateOf(m.kind)] = gen[GateOf(m.kind)] + 1
      BY <1>2, GateOfIsGate DEF Inv, TypeOK
    <3>2. CASE m \in inbox
      <4>1. m.gen \in Nat
        BY <3>2, MessageFields DEF Inv, Gated
      <4>2. m.gen <= gen[GateOf(m.kind)]
        BY <3>2 DEF Inv, LiveIsCurrent
      <4> QED BY <3>1, <4>1, <4>2
    <3>3. CASE m = M("discovery", gen["discovery"] + 1, c.to, c.to, None)
      BY <1>2, <3>1, <3>3 DEF GateOf
    <3> QED BY <1>2, <3>2, <3>3
  <2>3. StashIsCurrent'
    BY <1>2 DEF StashIsCurrent
  <2>4. SurfacesShowCurrent'
    BY <1>2 DEF SurfacesShowCurrent, Shows, AfterReset
  <2>5. PromptedWritesStayHome'
    BY DEF HandleClusterConnected, PromptedWritesStayHome
  <2> QED BY <2>1, <2>2, <2>3, <2>4, <2>5 DEF Inv
<1> QED BY <1>1, <1>2 DEF HandleClusterConnected, StopClusterAsync, ResetStash

-----------------------------------------------------------------------------
LEMMA InitInv == Init => Inv
<1> SUFFICES ASSUME Init PROVE Inv
  OBVIOUS
<1>1. TypeOK
  <2>1. /\ inbox \subseteq Message
        /\ \A m \in inbox : m.kind = "containers" => m.to \in Purpose
    BY DEF Init
  <2>2. /\ gen \in [Gate -> Nat]
        /\ view \in [Surface -> Context \cup {Down, Idle, Waiting}]
        /\ stash \in [Slot -> Target \cup {NoTarget}]
    BY DEF Init
  <2>3. opens \in 0..MaxOpens /\ ctxGen \in Nat /\ did \in Write \cup {Nothing}
    BY DEF Init
  <2>4. /\ context \in Context /\ asked \in Context
        /\ connecting \subseteq [gen : Nat, to : Context]
        /\ modal \in Modal \cup {None} /\ ctrPurpose \in Purpose
        /\ current \in BOOLEAN /\ restore \in BOOLEAN
    BY DEF Init
  <2> QED BY <2>1, <2>2, <2>3, <2>4 DEF TypeOK
<1>2. LiveIsCurrent
  BY DEF Init, LiveIsCurrent, Gated, GateOf
<1> QED BY <1>1, <1>2 DEF Init, Inv, StashIsCurrent, SurfacesShowCurrent, Shows,
                          PromptedWritesStayHome

LEMMA NextInv == Inv /\ [Next]_vars => Inv'
<1> SUFFICES ASSUME Inv, [Next]_vars PROVE Inv'
  OBVIOUS
<1>1. ASSUME NEW m \in inbox, Handle(m) PROVE TypeOK' /\ StaysOnCluster
  BY <1>1, MessageStays, WatchingStays, RowActionStays
     DEF Handle, HandleRowAction
<1>2. ASSUME Reader PROVE TypeOK' /\ StaysOnCluster
  BY <1>2, ReaderStays, ReaderWatchingStays DEF Reader
<1>3. ASSUME NEW c \in connecting, HandleClusterConnected(c) PROVE Inv'
  BY <1>3, ConnectedKeepsInv
<1>4. CASE UNCHANGED vars
  BY <1>4 DEF vars, Inv, TypeOK, LiveIsCurrent, Gated, Live, StashIsCurrent,
              SurfacesShowCurrent, Shows, PromptedWritesStayHome
<1> QED BY <1>1, <1>2, <1>3, <1>4, StayingKeepsInv DEF Next

LEMMA InvHolds == Spec => []Inv
<1> QED BY InitInv, NextInv, PTL DEF Spec

(* Every variable keeps its type.                                           *)
THEOREM TypeCorrect == Spec => []TypeOK
<1>1. Inv => TypeOK
  BY DEF Inv
<1> QED BY <1>1, InvHolds, PTL

(* The generation checks (LiveIsCurrent): an answer that would still be     *)
(* accepted is of the cluster the shell is on, because a completed switch   *)
(* moves every counter on and no answer is ahead of its own.                *)
THEOREM AnswersCorrect == Spec => []LiveIsCurrent
<1>1. Inv => LiveIsCurrent
  BY DEF Inv
<1> QED BY <1>1, InvHolds, PTL

(* resetCluster, stopClusterAsync: no message from before a switch lands on *)
(* a surface after it, whatever was under way and in whatever order it      *)
(* arrives.                                                                 *)
THEOREM SurfacesCorrect == Spec => []SurfacesShowCurrent
<1>1. Inv => SurfacesShowCurrent
  BY DEF Inv
<1> QED BY <1>1, InvHolds, PTL

(* A modal, picker or resolve of one cluster is never carried out on        *)
(* another.                                                                 *)
THEOREM PromptedWritesCorrect == Spec => []PromptedWritesStayHome
<1>1. Inv => PromptedWritesStayHome
  BY DEF Inv
<1> QED BY <1>1, InvHolds, PTL

-----------------------------------------------------------------------------
(* Only asking for a switch and completing one touch the link.              *)
LinkKept == UNCHANGED <<context, ctxGen, connecting, asked>>

LEMMA LinkOnlyBySwitch ==
  ASSUME [Next]_vars
  PROVE  \/ LinkKept
         \/ \E c \in Context : SwitchContext(c)
         \/ \E c \in connecting : HandleClusterConnected(c)
<1>1. ASSUME NEW m \in inbox, HandleRowAction(m) PROVE LinkKept
  BY <1>1 DEF HandleRowAction, OpenViewer, RunCordon, ResolvePorts, OpenEdit,
              OpenChildren, OpenRelations, ResolveContainers, OpenModal, LinkKept
<1>2. ASSUME NEW m \in inbox, Handle(m) PROVE LinkKept
  BY <1>1, <1>2 DEF Handle, HandleDiscovery, HandleWatchMsg, HandleMetricsMsg,
       HandleMetricsTick, HandleViewerLoaded, HandleContainersLoaded,
       HandleContainerSelected, HandleLogMsg, HandleModalConfirmed,
       HandlePortsLoaded, HandlePortSelected, HandleEditFetched,
       HandleChildScope, HandleRestoreDrill, HandleRelations,
       HandleRelationSelected, HandleSearchDebounced, HandleSearchMsg,
       HandleSearchSelected, HandleScanMsg, HandleUnhealthySelected,
       HandleNamespacesLoaded, HandleClosed, LinkKept
<1>3. ASSUME Reader PROVE LinkKept \/ \E c \in Context : SwitchContext(c)
  BY <1>3 DEF Reader, PickResource, DispatchRowAction, Accept,
       OpenSearch, RestartSearch, OpenUnhealthy, OpenNamespaces, ApplyNamespace,
       Pick, Close, LinkKept
<1>4. CASE UNCHANGED vars
  BY <1>4 DEF vars, LinkKept
<1> QED BY <1>2, <1>3, <1>4 DEF Next

LinkInv == /\ connecting \subseteq [gen : Nat, to : Context]
           /\ ctxGen \in Nat
           /\ asked \in Context
           /\ NewestIsAsked

LEMMA LinkInvStep == LinkInv /\ [Next]_vars => LinkInv'
<1> SUFFICES ASSUME LinkInv, [Next]_vars PROVE LinkInv'
  OBVIOUS
<1> USE DEF LinkInv, NewestIsAsked
<1>1. CASE LinkKept
  BY <1>1 DEF LinkKept
<1>2. ASSUME NEW c \in Context, SwitchContext(c) PROVE LinkInv'
  BY <1>2 DEF SwitchContext
<1>3. ASSUME NEW c \in connecting, HandleClusterConnected(c) PROVE LinkInv'
  BY <1>3 DEF HandleClusterConnected
<1> QED BY <1>1, <1>2, <1>3, LinkOnlyBySwitch

(* switchContext, handleClusterConnected: however many connects are under   *)
(* way and in whatever order they finish, the shell lands only on the       *)
(* context asked for last.                                                  *)
THEOREM SwitchesCorrect == Spec => LastAskedWins
<1>1. Init => LinkInv
  BY DEF Init, LinkInv, NewestIsAsked
<1>2. ASSUME LinkInv, [Next]_vars PROVE context' # context => context' = asked
  <2>1. CASE LinkKept
    BY <2>1 DEF LinkKept
  <2>2. ASSUME NEW c \in Context, SwitchContext(c) PROVE context' = context
    BY <2>2 DEF SwitchContext
  <2>3. ASSUME NEW c \in connecting, HandleClusterConnected(c)
        PROVE  context' # context => context' = asked
    <3>1. \/ context' = context
          \/ c.gen = ctxGen /\ context' = c.to
      BY <2>3 DEF HandleClusterConnected, Newest
    <3>2. c.gen = ctxGen => c.to = asked
      BY <1>2 DEF LinkInv, NewestIsAsked
    <3>3. asked' = asked
      BY <2>3 DEF HandleClusterConnected
    <3> QED BY <3>1, <3>2, <3>3
  <2> QED BY <1>2, <2>1, <2>2, <2>3, LinkOnlyBySwitch
<1> QED BY <1>1, <1>2, LinkInvStep, PTL DEF Spec, LastAskedWins

=============================================================================
