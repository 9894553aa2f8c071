---------------------------- MODULE FilesProofs ----------------------------
(***************************************************************************)
(* Proofs about Files, for any contexts, kinds, themes and updaters and    *)
(* any bounds: one part of the invariant for each part of Files.           *)
(***************************************************************************)
EXTENDS Files, FiniteSetTheorems, SequenceTheorems, TLAPS

----------------------------- (* Store *) -----------------------------------
USE FilesAssumption DEF States!StoreAssumption

(* Store's own instance of FiniteSets says what FiniteSets says.            *)
LEMMA StatesFinite == \A S : /\ States!IsFiniteSet(S) = IsFiniteSet(S)
                             /\ States!Cardinality(S) = Cardinality(S)
BY DEF States!IsFiniteSet, IsFiniteSet, States!Cardinality, Cardinality

LEMMA StatesZero == States!Zero \in States!State /\ States!Zero.pins = {}
BY DEF States!Zero, States!State

LEMMA StatesPlain ==
  ASSUME NEW k \in Kind
  PROVE  /\ States!Plain(k) \in States!Pane
         /\ States!Plain(k).kind = k /\ States!Plain(k) # States!NoPane
BY DEF States!Plain, States!Pane, States!NoPane

LEMMA StatesLoad ==
  ASSUME NEW d \in States!State \cup {States!Malformed}
  PROVE  /\ States!Load(d) \in States!State
         /\ d \in States!State => States!Load(d) = d
<1>1. ASSUME d \in States!State PROVE d # States!Malformed
  <2>1. DOMAIN d = {"ns", "pins", "pane"} /\ DOMAIN States!Malformed = {"broken"}
    BY <1>1 DEF States!State, States!Malformed
  <2>2. "ns" \notin {"broken"}
    OBVIOUS
  <2> QED BY <2>1, <2>2
<1> QED BY <1>1, StatesZero DEF States!Load

(* Two changes of one field or one pin are one.                             *)
LEMMA StatesChanged ==
  ASSUME NEW st \in States!State, NEW s \in States!SaveRec
  PROVE  /\ States!Changed(st, s) \in States!State
         /\ LET s1 == [s EXCEPT !.seen = st.pins]
                st1 == States!Changed(st, s1)
            IN  States!Changed(st1, [s EXCEPT !.seen = st1.pins]) = st1
<1>1. \/ s.fact[1] = "ns" /\ s.fact[2] \in Namespace \cup {States!None}
      \/ s.fact[1] = "pane" /\ s.fact[2] \in States!Pane
      \/ s.fact[1] = "pin" /\ s.fact[2] \in Kind
      \/ s.fact[1] = "unpin" /\ s.fact[2] \in Kind
  BY DEF States!SaveRec, States!Fact
<1>2. s.seen \subseteq Kind
  BY DEF States!SaveRec
<1>3. States!Changed(st, s) \in States!State
  BY <1>1, <1>2 DEF States!Changed, States!State
<1>4. ASSUME NEW p \in SUBSET Kind
      PROVE  LET t == [s EXCEPT !.seen = p] IN t.fact = s.fact /\ t.seen = p
  BY DEF States!SaveRec
<1> DEFINE s1 == [s EXCEPT !.seen = st.pins]
           st1 == States!Changed(st, s1)
           s2 == [s EXCEPT !.seen = st1.pins]
<1>5. st.pins \in SUBSET Kind /\ s1.fact = s.fact /\ s1.seen = st.pins
  BY <1>4 DEF States!State
<1>6. st1 \in States!State /\ st1.pins \in SUBSET Kind
  BY <1>1, <1>5 DEF States!Changed, States!State
<1>7. s2.fact = s.fact /\ s2.seen = st1.pins
  BY <1>4, <1>6
<1>8. States!Changed(st1, s2) = st1
  <2> HIDE DEF s1, s2
  <2>1. CASE s.fact[1] = "ns" \/ s.fact[1] = "pane"
    BY <1>5, <1>7, <2>1 DEF States!Changed, States!State
  <2>2. CASE s.fact[1] = "pin"
    <3>1. st1.pins = st.pins \cup {s.fact[2]}
      BY <1>5, <2>2 DEF States!Changed, States!State
    <3>2. st1.pins \cup {s.fact[2]} = st1.pins
      BY <3>1
    <3>3. States!Changed(st1, s2) = [st1 EXCEPT !.pins = st1.pins]
      BY <1>7, <2>2, <3>2 DEF States!Changed
    <3> QED BY <1>6, <3>3 DEF States!State
  <2>3. CASE s.fact[1] = "unpin"
    <3>1. st1.pins = st.pins \ {s.fact[2]}
      BY <1>5, <2>3 DEF States!Changed, States!State
    <3>2. st1.pins \ {s.fact[2]} = st1.pins
      BY <3>1
    <3>3. States!Changed(st1, s2) = [st1 EXCEPT !.pins = st1.pins]
      BY <1>7, <2>3, <3>2 DEF States!Changed
    <3> QED BY <1>6, <3>3 DEF States!State
  <2> QED BY <1>1, <2>1, <2>2, <2>3
<1> QED BY <1>3, <1>8

LEMMA StatesTypes ==
  ASSUME States!TypeOK
  PROVE  /\ DOMAIN retained = 1 .. Len(retained) /\ Len(retained) \in DOMAIN retained
         /\ \A i \in DOMAIN retained : retained[i].ctx \in Context /\ retained[i].st \in States!State
         /\ \A s \in saves : s \in States!SaveRec /\ s.per \in DOMAIN retained
         /\ retained[Len(retained)].ctx = shell.ctx /\ shell.ctx \in Context
         /\ DOMAIN issued = Context
<1>1. retained \in Seq([ctx : Context, st : States!State]) /\ retained # <<>>
  BY DEF States!TypeOK
<1>2. DOMAIN retained = 1 .. Len(retained) /\ Len(retained) \in DOMAIN retained
  BY <1>1
<1>3. ASSUME NEW i \in DOMAIN retained PROVE retained[i] \in [ctx : Context, st : States!State]
  BY <1>1, <1>2, ElementOfSeq
<1>4. \A s \in saves : s \in States!SaveRec /\ s.per \in DOMAIN retained
  BY DEF States!TypeOK, States!SaveRec
<1> QED BY <1>2, <1>3, <1>4 DEF States!TypeOK, States!ShellRec

(* What the shell hands on keeps the soundness of the saves: nothing, one   *)
(* change that it also shows, or several, which are then mixed.             *)
LEMMA StatesHandKeeps ==
  ASSUME States!Inv, NEW new, IsFiniteSet(new), States!Hand(new),
         \A t \in new : /\ t \in States!SaveRec /\ t.per = Len(retained)
                        /\ t.pc = "queued" /\ t.seen = {} /\ t.doc = States!Zero,
         UNCHANGED <<disk, retained, connecting, failed>>, shell'.ctx = shell.ctx,
         \/ new = {} /\ States!Now' = States!Now
         \/ \E t \in new : /\ new = {t}
                           /\ States!Now' = States!Changed(States!Now, [t EXCEPT !.seen = States!Now.pins])
         \/ \E t, u \in new : t # u
  PROVE  States!Sound' /\ saves' \subseteq States!SaveRec /\ DOMAIN issued' = Context
<1> DEFINE c == shell.ctx
<1>1. c \in Context /\ Len(retained) \in DOMAIN retained /\ retained[Len(retained)].ctx = c
  BY StatesTypes DEF States!Inv
<1>2. saves' = saves \cup new /\ saves \subseteq States!SaveRec /\ DOMAIN issued = Context
  BY StatesTypes DEF States!Hand, States!Inv
<1>3. /\ DOMAIN issued' = Context /\ \A d \in Context : issued[d] \subseteq issued'[d]
      /\ \A t \in new : t.fact[1] # "unpin" => t.fact \in issued'[c]
  BY <1>1, <1>2 DEF States!Hand
<1>4. IsFiniteSet(saves')
  <2>1. IsFiniteSet(saves)
    BY StatesFinite DEF States!Inv, States!Sound
  <2>2. IsFiniteSet(saves \cup new)
    BY <2>1, FS_Union
  <2> QED BY <1>2, <2>2
<1>5. States!PicksStayHome'
  BY <1>3 DEF States!Inv, States!Sound, States!PicksStayHome
<1>6. States!Origins'
  <2>1. \A s \in saves : s.per \in DOMAIN retained
    BY StatesTypes DEF States!Inv
  <2>2. \A i \in DOMAIN retained : retained[i].ctx \in Context
    BY StatesTypes DEF States!Inv
  <2> QED BY <1>1, <1>2, <1>3, <2>1, <2>2 DEF States!Inv, States!Sound, States!Origins, States!Home
<1>7. \A d : States!SameFile(d)' = States!SameFile(d) \cup (IF d = c THEN new ELSE {})
  BY <1>1, <1>2 DEF States!SameFile
<1>8. States!Reread'
  BY <1>7 DEF States!Inv, States!Sound, States!Reread
<1>9. ASSUME ~mixed' PROVE States!OneAtATime'
  <2> DEFINE S == States!SameFile(c)
  <2>1. ~mixed /\ Cardinality(S \cup new) \leq 1
    <3>1. IsFiniteSet(S \cup new)
      BY <1>2, <1>4, FS_Subset DEF States!SameFile
    <3>2. Cardinality(S \cup new) \in Nat
      BY <3>1, FS_CardinalityType
    <3>3. ~mixed /\ ~(Cardinality(S \cup new) > 1)
      BY <1>9, StatesFinite DEF States!Hand
    <3> QED BY <3>2, <3>3
  <2>2. S \cup new = {} \/ \E x : S \cup new = {x}
    <3>1. IsFiniteSet(S \cup new) /\ (Cardinality(S \cup new) = 0 \/ Cardinality(S \cup new) = 1)
      <4>1. IsFiniteSet(S \cup new)
        BY <1>2, <1>4, FS_Subset DEF States!SameFile
      <4> QED BY <2>1, <4>1, FS_CardinalityType
    <3> QED BY <3>1, FS_EmptySet, FS_Singleton
  <2>3. UNCHANGED <<States!Held, States!Written>> /\ States!SameFile(shell.ctx)' = S \cup new
    BY <1>7 DEF States!Held, States!Written
  <2>4. States!OneAtATime
    BY <2>1 DEF States!Inv, States!Sound
  <2>5. CASE new = {} /\ States!Now' = States!Now
    BY <1>2, <2>3, <2>4, <2>5 DEF States!OneAtATime
  <2>6. ASSUME NEW t \in new, new = {t},
               States!Now' = States!Changed(States!Now, [t EXCEPT !.seen = States!Now.pins])
        PROVE  States!OneAtATime'
    <3>1. CASE S = {}
      <4>1. States!Held = States!Now /\ States!Written
        BY <2>4, <3>1 DEF States!OneAtATime
      <4>2. States!Now' = States!Changed(States!Held', [t EXCEPT !.seen = States!Held'.pins])
        BY <2>3, <2>6, <4>1
      <4>3. /\ t \in saves' /\ States!SameFile(shell.ctx)' = {t}
            /\ t.per = Len(retained') /\ t.pc = "queued" /\ States!Written'
        BY <1>2, <2>3, <2>6, <3>1, <4>1
      <4> QED BY <4>2, <4>3 DEF States!OneAtATime
    <3>2. CASE S = {t}
      <4>1. /\ States!Now = States!Changed(States!Held, [t EXCEPT !.seen = States!Held.pins])
            /\ States!Written
        BY <2>4, <2>6, <3>2 DEF States!OneAtATime
      <4>2. States!Held \in States!State
        BY StatesTypes DEF States!Inv, States!Held
      <4>3. States!Now' = States!Now
        BY <2>6, <4>1, <4>2, StatesChanged
      <4>4. States!Now' = States!Changed(States!Held', [t EXCEPT !.seen = States!Held'.pins])
        BY <2>3, <4>1, <4>3
      <4>5. /\ t \in saves' /\ States!SameFile(shell.ctx)' = {t}
            /\ t.per = Len(retained') /\ t.pc = "queued" /\ States!Written'
        BY <1>2, <2>3, <2>6, <3>2, <4>1
      <4> QED BY <4>4, <4>5 DEF States!OneAtATime
    <3> QED BY <2>2, <2>6, <3>1, <3>2
  <2>7. ~\E t, u \in new : t # u
    BY <2>2
  <2> QED BY <2>5, <2>6, <2>7
<1> QED BY <1>2, <1>3, <1>4, <1>5, <1>6, <1>8, <1>9, StatesFinite DEF States!Sound

LEMMA StatesSave ==
  ASSUME States!Inv, NEW f, NEW w, <<f, w>> \in States!Fact
  PROVE  LET t == States!Save(f, w)
         IN  /\ t \in States!SaveRec /\ t.per = Len(retained) /\ t.fact = <<f, w>>
             /\ t.pc = "queued" /\ t.seen = {} /\ t.doc = States!Zero
<1>1. acts \in Nat /\ Len(retained) \in DOMAIN retained
  BY StatesTypes DEF States!Inv, States!TypeOK
<1> QED BY <1>1, StatesZero DEF States!Save, States!SaveRec, States!Step

(* recordResource: the pane shown is the pane saved.                        *)
LEMMA StatesOpenKeeps ==
  ASSUME States!Inv, NEW p \in States!Pane, States!Hand(States!PaneSave(p)),
         shell'.ctx = shell.ctx, shell'.ns = shell.ns, shell'.pins = shell.pins, shell'.last = p,
         UNCHANGED <<disk, retained, connecting, failed>>
  PROVE  States!Sound' /\ saves' \subseteq States!SaveRec /\ DOMAIN issued' = Context
<1> DEFINE t == States!Save("pane", p)
<1>1. <<"pane", p>> \in States!Fact
  BY DEF States!Fact
<1>2. /\ t \in States!SaveRec /\ t.per = Len(retained) /\ t.fact = <<"pane", p>>
      /\ t.pc = "queued" /\ t.seen = {} /\ t.doc = States!Zero
  BY <1>1, StatesSave
<1>4. States!PaneSave(p) = IF p = shell.last THEN {} ELSE {t}
  BY DEF States!PaneSave
<1> HIDE DEF t
<1>5. shell.last = p => States!Now' = States!Now
  BY DEF States!Now
<1>6. States!Now' = States!Changed(States!Now, [t EXCEPT !.seen = States!Now.pins])
  BY <1>2 DEF States!Now, States!Changed, States!SaveRec
<1> DEFINE new == States!PaneSave(p)
<1>7. IsFiniteSet(new)
  <2>1. IsFiniteSet({}) /\ IsFiniteSet({t})
    BY FS_EmptySet, FS_Singleton
  <2> QED BY <1>4, <2>1
<1>8. \A u \in new : /\ u \in States!SaveRec /\ u.per = Len(retained)
                     /\ u.pc = "queued" /\ u.seen = {} /\ u.doc = States!Zero
  BY <1>2, <1>4
<1>9. \/ new = {} /\ States!Now' = States!Now
      \/ \E u \in new : /\ new = {u}
                        /\ States!Now' = States!Changed(States!Now, [u EXCEPT !.seen = States!Now.pins])
  BY <1>4, <1>5, <1>6
<1> HIDE DEF new
<1> QED BY <1>7, <1>8, <1>9, StatesHandKeeps DEF new

(* What the soundness of the saves does not depend on.                      *)
LEMMA StatesUntouched ==
  ASSUME States!Sound, UNCHANGED <<disk, retained, shell, connecting, saves, issued, mixed, failed>>
  PROVE  States!Sound'
<1>1. States!PicksStayHome' /\ States!Origins'
  BY DEF States!Sound, States!PicksStayHome, States!Origins, States!Home
<1>2. \A d : States!SameFile(d)' = States!SameFile(d)
  BY DEF States!SameFile
<1>3. UNCHANGED <<States!Now, States!Held, States!Written>>
  BY DEF States!Now, States!Held, States!Written
<1>4. ~mixed' => States!OneAtATime'
  BY <1>2, <1>3 DEF States!Sound, States!OneAtATime
<1>5. States!Reread'
  BY <1>2 DEF States!Sound, States!Reread
<1> QED BY <1>1, <1>4, <1>5 DEF States!Sound

(* A gesture, or an answer, that keeps the saves sound and the shell typed. *)
LEMMA StatesShellKeeps ==
  ASSUME States!Inv, States!Sound', saves' \subseteq States!SaveRec, DOMAIN issued' = Context,
         shell' \in States!ShellRec, shell'.ctx = shell.ctx, mixed' = mixed \/ mixed' \in BOOLEAN,
         scope' \in {scope, States!NoScope} \/ scope' \in [by : {"reader", "restore"}, pane : States!Pane],
         acts' = acts \/ States!Act, discovering' = discovering \/ discovering' = FALSE,
         UNCHANGED <<disk, retained, connecting, failed, starts>>
  PROVE  States!Inv'
<1>1. States!SaveRec' = States!SaveRec
  BY DEF States!SaveRec
<1>2. acts' \in 0 .. MaxActs
  BY DEF States!Inv, States!TypeOK, States!Act
<1> QED BY <1>1, <1>2 DEF States!TypeOK, States!Inv

(* watchResource, by whatever way it was reached.                           *)
LEMMA StatesOpens ==
  ASSUME States!Inv, NEW q \in States!Pane, NEW by \in {"reader", "restore"}, States!Hand(States!PaneSave(q)),
         shell'.pane = q, shell'.last = q, shell'.by = by, shell' \in States!ShellRec,
         shell'.ctx = shell.ctx, shell'.ns = shell.ns, shell'.pins = shell.pins,
         scope' \in {scope, States!NoScope}, acts' = acts \/ States!Act,
         discovering' = discovering \/ discovering' = FALSE,
         UNCHANGED <<disk, retained, connecting, failed, starts>>
  PROVE  States!Inv'
<1>1. States!Sound' /\ saves' \subseteq States!SaveRec /\ DOMAIN issued' = Context
  BY StatesOpenKeeps
<1>2. mixed' \in BOOLEAN
  BY DEF States!Hand, States!Inv, States!TypeOK
<1> QED BY <1>1, <1>2, StatesShellKeeps

LEMMA StatesOpened ==
  ASSUME States!Inv, NEW q \in States!Pane, NEW by \in {"reader", "restore"}, States!Open(q, by)
  PROVE  /\ States!Hand(States!PaneSave(q)) /\ shell' \in States!ShellRec
         /\ shell'.pane = q /\ shell'.last = q /\ shell'.by = by
         /\ shell'.ctx = shell.ctx /\ shell'.ns = shell.ns /\ shell'.pins = shell.pins
BY DEF States!Open, States!ShellRec, States!Inv, States!TypeOK

LEMMA StatesPickKindKeeps ==
  ASSUME States!Inv, NEW k \in Kind, States!PickKind(k)
  PROVE  States!Inv'
<1> DEFINE q == States!Plain(k)
<1>1. /\ States!Open(q, "reader") /\ States!Act
      /\ UNCHANGED <<disk, retained, discovering, scope, connecting, failed, starts>>
  BY DEF States!PickKind
<1>2. q \in States!Pane
  BY StatesPlain
<1> HIDE DEF q
<1> QED BY <1>1, <1>2, StatesOpened, StatesOpens

LEMMA StatesBackKeeps == States!Inv /\ States!Back => States!Inv'
<1> SUFFICES ASSUME States!Inv, States!Back PROVE States!Inv'
  OBVIOUS
<1> DEFINE q == States!Plain(shell.pane.owner)
<1>1. /\ States!Open(q, "reader") /\ States!Act /\ shell.pane.owner # States!None
      /\ UNCHANGED <<disk, retained, discovering, scope, connecting, failed, starts>>
  BY DEF States!Back
<1>2. shell.pane.owner \in Kind
  BY <1>1 DEF States!ShellRec, States!Pane, States!NoPane, States!Inv, States!TypeOK
<1>3. q \in States!Pane
  BY <1>2, StatesPlain
<1> HIDE DEF q
<1> QED BY <1>1, <1>3, StatesOpened, StatesOpens

LEMMA StatesOpenChildrenKeeps ==
  ASSUME States!Inv, NEW k \in Kind, States!OpenChildren(k)
  PROVE  States!Inv'
<1>1. /\ scope' = [by |-> "reader", pane |-> [kind |-> k, owner |-> shell.pane.kind]]
      /\ shell.pane # States!NoPane /\ States!Act
      /\ UNCHANGED <<disk, retained, shell, discovering, connecting, saves, issued, mixed, failed, starts>>
  BY DEF States!OpenChildren
<1>2. shell \in States!ShellRec /\ saves \subseteq States!SaveRec /\ DOMAIN issued = Context
  BY DEF States!Inv, States!TypeOK
<1>3. scope' \in [by : {"reader", "restore"}, pane : States!Pane]
  BY <1>1, <1>2 DEF States!ShellRec, States!Pane
<1>4. States!Sound'
  BY <1>1, StatesUntouched DEF States!Inv
<1> QED BY <1>1, <1>2, <1>3, <1>4, StatesShellKeeps

LEMMA StatesTogglePinKeeps ==
  ASSUME States!Inv, NEW k \in Kind, States!TogglePin(k)
  PROVE  States!Inv'
<1> DEFINE f == IF k \in shell.pins THEN "unpin" ELSE "pin"
           pins == IF k \in shell.pins THEN shell.pins \ {k} ELSE shell.pins \cup {k}
           t == States!Save(f, k)
<1>1. /\ shell' = [shell EXCEPT !.pins = pins] /\ States!Hand({t}) /\ States!Act
      /\ UNCHANGED <<disk, retained, discovering, scope, connecting, failed, starts>>
  BY DEF States!TogglePin
<1>2. <<f, k>> \in States!Fact
  BY DEF States!Fact
<1>3. /\ t \in States!SaveRec /\ t.per = Len(retained) /\ t.fact = <<f, k>>
      /\ t.pc = "queued" /\ t.seen = {} /\ t.doc = States!Zero
  BY <1>2, StatesSave
<1> HIDE DEF t
<1>4. shell \in States!ShellRec /\ pins \subseteq Kind
  BY DEF States!Inv, States!TypeOK, States!ShellRec
<1>5. /\ shell' \in States!ShellRec /\ shell'.ctx = shell.ctx /\ shell'.ns = shell.ns
      /\ shell'.pins = pins /\ shell'.last = shell.last
  <2> HIDE DEF pins
  <2> QED BY <1>1, <1>4 DEF States!ShellRec
<1>6. States!Now' = States!Changed(States!Now, [t EXCEPT !.seen = States!Now.pins])
  <2> DEFINE now == States!Now
             u == [t EXCEPT !.seen = now.pins]
  <2>1. now = [ns |-> shell.ns, pins |-> shell.pins, pane |-> shell.last]
    BY DEF States!Now
  <2>2. u.fact = <<f, k>> /\ u.seen = shell.pins
    BY <1>3, <2>1 DEF States!SaveRec
  <2>3. States!Now' = [ns |-> shell.ns, pins |-> pins, pane |-> shell.last]
    BY <1>5 DEF States!Now
  <2> HIDE DEF now, u
  <2>4. CASE k \in shell.pins
    <3>1. u.fact[1] = "unpin" /\ u.fact[2] = k /\ pins = shell.pins \ {k}
      BY <2>2, <2>4
    <3>2. States!Changed(now, u) = [now EXCEPT !.pins = shell.pins \ {k}]
      BY <2>2, <3>1 DEF States!Changed
    <3>3. States!Now' = States!Changed(now, u)
      BY <2>1, <2>3, <3>1, <3>2
    <3> QED BY <3>3 DEF now, u
  <2>5. CASE k \notin shell.pins
    <3>1. u.fact[1] = "pin" /\ u.fact[2] = k /\ pins = shell.pins \cup {k}
      BY <2>2, <2>5
    <3>2. States!Changed(now, u) = [now EXCEPT !.pins = shell.pins \cup {k}]
      BY <2>2, <3>1 DEF States!Changed
    <3>3. States!Now' = States!Changed(now, u)
      BY <2>1, <2>3, <3>1, <3>2
    <3> QED BY <3>3 DEF now, u
  <2> QED BY <2>4, <2>5
<1>7. IsFiniteSet({t})
  BY FS_Singleton
<1>8. States!Sound' /\ saves' \subseteq States!SaveRec /\ DOMAIN issued' = Context
  <2> DEFINE new == {t}
  <2>1. /\ IsFiniteSet(new) /\ States!Hand(new)
        /\ \A u \in new : /\ u \in States!SaveRec /\ u.per = Len(retained)
                          /\ u.pc = "queued" /\ u.seen = {} /\ u.doc = States!Zero
        /\ \E u \in new : /\ new = {u}
                          /\ States!Now' = States!Changed(States!Now, [u EXCEPT !.seen = States!Now.pins])
    BY <1>1, <1>3, <1>6, <1>7
  <2> HIDE DEF new
  <2> QED BY <1>1, <1>5, <2>1, StatesHandKeeps
<1>9. mixed' \in BOOLEAN
  BY <1>1 DEF States!Hand, States!Inv, States!TypeOK
<1> QED BY <1>1, <1>5, <1>8, <1>9, StatesShellKeeps

LEMMA StatesPickNamespaceKeeps ==
  ASSUME States!Inv, NEW ns \in Namespace \cup {States!None}, States!PickNamespace(ns)
  PROVE  States!Inv'
<1> DEFINE p == States!Plain(shell.pane.kind)
           again == shell.pane # States!NoPane
           t == States!Save("ns", ns)
           q == States!Save("pane", p)
           new == {t} \cup IF again /\ p # shell.last THEN {q} ELSE {}
<1>1. /\ shell' = IF again THEN [shell EXCEPT !.ns = ns, !.pane = p, !.last = p, !.by = "reader"]
                            ELSE [shell EXCEPT !.ns = ns]
      /\ States!Act
      /\ UNCHANGED <<disk, retained, discovering, scope, connecting, failed, starts>>
  BY DEF States!PickNamespace
<1>2. States!Hand(new)
  BY DEF States!PickNamespace, States!PaneSave
<1>3. shell \in States!ShellRec
  BY DEF States!Inv, States!TypeOK
<1>4. again => p \in States!Pane
  BY <1>3, StatesPlain DEF States!ShellRec, States!Pane, States!NoPane
<1>5. <<"ns", ns>> \in States!Fact /\ (again => <<"pane", p>> \in States!Fact)
  BY <1>4 DEF States!Fact
<1>6. /\ t \in States!SaveRec /\ t.per = Len(retained) /\ t.fact = <<"ns", ns>>
      /\ t.pc = "queued" /\ t.seen = {} /\ t.doc = States!Zero
  BY <1>5, StatesSave
<1>7. again => /\ q \in States!SaveRec /\ q.per = Len(retained) /\ q.fact = <<"pane", p>>
               /\ q.pc = "queued" /\ q.seen = {} /\ q.doc = States!Zero
  BY <1>5, StatesSave
<1> HIDE DEF t, q
<1>8. /\ shell' \in States!ShellRec /\ shell'.ctx = shell.ctx /\ shell'.ns = ns /\ shell'.pins = shell.pins
      /\ shell'.last = IF again THEN p ELSE shell.last
  <2> HIDE DEF p, again
  <2> QED BY <1>1, <1>3, <1>4 DEF States!ShellRec
<1>9. \/ new = {t} /\ (again => p = shell.last)
      \/ again /\ new = {t} \cup {q} /\ q # t
  <2>1. CASE again /\ p # shell.last
    <3>1. q.fact[1] # t.fact[1]
      BY <1>6, <1>7, <2>1
    <3>2. new = {t} \cup {q}
      BY <2>1
    <3> QED BY <2>1, <3>1, <3>2
  <2>2. CASE ~(again /\ p # shell.last)
    BY <2>2
  <2> QED BY <2>1, <2>2
<1>10. new = {t} => States!Now' = States!Changed(States!Now, [t EXCEPT !.seen = States!Now.pins])
  <2>1. ASSUME new = {t} PROVE shell'.last = shell.last
    <3> HIDE DEF new, p, again
    <3> QED BY <1>8, <1>9, <2>1
  <2>2. ASSUME shell'.last = shell.last
        PROVE  States!Now' = States!Changed(States!Now, [t EXCEPT !.seen = States!Now.pins])
    BY <1>6, <1>8, <2>2 DEF States!Now, States!Changed, States!SaveRec
  <2> QED BY <2>1, <2>2
<1>11. IsFiniteSet(new)
  <2>1. IsFiniteSet({t}) /\ IsFiniteSet({t} \cup {q})
    BY FS_Singleton, FS_Union
  <2> HIDE DEF new
  <2> QED BY <1>9, <2>1
<1>12. \A u \in new : /\ u \in States!SaveRec /\ u.per = Len(retained)
                      /\ u.pc = "queued" /\ u.seen = {} /\ u.doc = States!Zero
  <2> HIDE DEF new
  <2> QED BY <1>6, <1>7, <1>9
<1>13. \/ \E u \in new : /\ new = {u}
                         /\ States!Now' = States!Changed(States!Now, [u EXCEPT !.seen = States!Now.pins])
       \/ \E u, w \in new : u # w
  <2>1. t \in new
    OBVIOUS
  <2> HIDE DEF new
  <2> QED BY <1>9, <1>10, <2>1
<1> HIDE DEF new
<1>14. States!Sound' /\ saves' \subseteq States!SaveRec /\ DOMAIN issued' = Context
  BY <1>1, <1>2, <1>8, <1>11, <1>12, <1>13, StatesHandKeeps
<1>15. mixed' \in BOOLEAN
  BY <1>2 DEF States!Hand, States!Inv, States!TypeOK
<1> QED BY <1>1, <1>8, <1>14, <1>15, StatesShellKeeps

LEMMA StatesScopeAnsweredKeeps ==
  ASSUME States!Inv, NEW ok \in BOOLEAN, States!ScopeAnswered(ok)
  PROVE  States!Inv'
<1> DEFINE q == IF ok THEN scope.pane ELSE States!Plain(scope.pane.kind)
<1>1. /\ scope # States!NoScope /\ scope' = States!NoScope
      /\ \/ UNCHANGED <<shell, saves, issued, mixed>>
         \/ States!Open(q, scope.by)
      /\ UNCHANGED <<disk, retained, discovering, connecting, failed, acts, starts>>
  BY DEF States!ScopeAnswered
<1>2. scope \in [by : {"reader", "restore"}, pane : States!Pane]
  BY <1>1 DEF States!Inv, States!TypeOK
<1>3. q \in States!Pane
  BY <1>2, StatesPlain DEF States!Pane
<1> HIDE DEF q
<1>4. CASE UNCHANGED <<shell, saves, issued, mixed>>
  <2>1. shell \in States!ShellRec /\ saves \subseteq States!SaveRec /\ DOMAIN issued = Context
    BY DEF States!Inv, States!TypeOK
  <2>2. States!Sound'
    BY <1>1, <1>4, StatesUntouched DEF States!Inv
  <2> QED BY <1>1, <1>4, <2>1, <2>2, StatesShellKeeps
<1>5. CASE States!Open(q, scope.by)
  BY <1>1, <1>2, <1>3, <1>5, StatesOpened, StatesOpens
<1> QED BY <1>1, <1>4, <1>5

LEMMA StatesDiscoveredKeeps ==
  ASSUME States!Inv, NEW served \in Served, States!Discovered(served)
  PROVE  States!Inv'
<1> DEFINE p == IF shell.last = States!NoPane THEN States!Plain(Landing) ELSE shell.last
<1>1. shell \in States!ShellRec /\ p \in States!Pane
  BY StatesPlain DEF States!Inv, States!TypeOK, States!ShellRec
<1>2. /\ discovering' = FALSE /\ UNCHANGED <<disk, retained, connecting, failed, acts, starts>>
      /\ \/ /\ shell' = [shell EXCEPT !.restore = FALSE]
            /\ UNCHANGED <<saves, issued, mixed>>
            /\ scope' = scope \/ scope' = [by |-> "restore", pane |-> p]
         \/ /\ shell' = [[shell EXCEPT !.restore = FALSE] EXCEPT !.pane = p, !.last = p, !.by = "restore"]
            /\ States!Hand(States!PaneSave(p)) /\ UNCHANGED scope
  BY DEF States!Discovered
<1> HIDE DEF p
<1>3. CASE /\ shell' = [shell EXCEPT !.restore = FALSE]
           /\ UNCHANGED <<saves, issued, mixed>>
           /\ scope' = scope \/ scope' = [by |-> "restore", pane |-> p]
  <2>1. /\ shell' \in States!ShellRec /\ shell'.ctx = shell.ctx /\ shell'.ns = shell.ns
        /\ shell'.pins = shell.pins /\ shell'.last = shell.last
    BY <1>1, <1>3 DEF States!ShellRec
  <2>2. UNCHANGED <<States!Now, States!Held, States!Written>> /\ \A d : UNCHANGED States!SameFile(d)
    BY <1>2, <1>3, <2>1 DEF States!Now, States!Held, States!Written, States!SameFile
  <2>3. States!Sound'
    <3>1. States!PicksStayHome' /\ States!Origins'
      BY <1>2, <1>3 DEF States!Inv, States!Sound, States!PicksStayHome, States!Origins, States!Home
    <3>2. ~mixed' => States!OneAtATime'
      BY <1>2, <1>3, <2>1, <2>2 DEF States!Inv, States!Sound, States!OneAtATime
    <3>3. States!Reread'
      BY <1>2, <2>1, <2>2 DEF States!Inv, States!Sound, States!Reread
    <3> QED BY <1>3, <3>1, <3>2, <3>3 DEF States!Inv, States!Sound
  <2>4. saves \subseteq States!SaveRec /\ DOMAIN issued = Context
    BY DEF States!Inv, States!TypeOK
  <2>5. scope' = scope \/ scope' \in [by : {"reader", "restore"}, pane : States!Pane]
    BY <1>1, <1>3
  <2> QED BY <1>2, <1>3, <2>1, <2>3, <2>4, <2>5, StatesShellKeeps
<1>4. CASE /\ shell' = [[shell EXCEPT !.restore = FALSE] EXCEPT !.pane = p, !.last = p, !.by = "restore"]
           /\ States!Hand(States!PaneSave(p)) /\ UNCHANGED scope
  <2>1. /\ shell' \in States!ShellRec /\ shell'.ctx = shell.ctx /\ shell'.ns = shell.ns
        /\ shell'.pins = shell.pins /\ shell'.last = p /\ shell'.pane = p /\ shell'.by = "restore"
    BY <1>1, <1>4 DEF States!ShellRec
  <2> QED BY <1>1, <1>2, <1>4, <2>1, StatesOpens
<1> QED BY <1>2, <1>3, <1>4

(* A switch's own steps leave the saves and the shell alone.                *)
LEMMA StatesConnectingKeeps ==
  ASSUME States!Inv, States!Reread',
         connecting' = States!Idle
           \/ connecting' \in [ctx : Context, doc : States!State, read : BOOLEAN, mixed : BOOLEAN],
         starts' \in 0 .. MaxStarts,
         UNCHANGED <<disk, retained, shell, discovering, scope, saves, issued, mixed, failed, acts>>
  PROVE  States!Inv'
<1>1. States!PicksStayHome' /\ States!Origins'
  BY DEF States!Inv, States!Sound, States!PicksStayHome, States!Origins, States!Home
<1>2. UNCHANGED <<States!Now, States!Held, States!Written, States!SaveRec>> /\ \A d : UNCHANGED States!SameFile(d)
  BY DEF States!Now, States!Held, States!Written, States!SameFile, States!SaveRec
<1>3. ~mixed' => States!OneAtATime'
  BY <1>2 DEF States!Inv, States!Sound, States!OneAtATime
<1>4. States!TypeOK'
  BY <1>2 DEF States!Inv, States!TypeOK
<1> QED BY <1>1, <1>3, <1>4 DEF States!Inv, States!Sound

LEMMA StatesSwitchKeeps ==
  ASSUME States!Inv, NEW c \in Context, States!Switch(c)
  PROVE  States!Inv'
<1>1. /\ c # shell.ctx /\ starts < MaxStarts /\ starts' = starts + 1
      /\ connecting' = [States!Idle EXCEPT !.ctx = c]
      /\ UNCHANGED <<disk, retained, shell, discovering, scope, saves, issued, mixed, failed, acts>>
  BY DEF States!Switch
<1>2. connecting' = [ctx |-> c, doc |-> States!Zero, read |-> FALSE, mixed |-> FALSE]
  BY <1>1 DEF States!Idle
<1>3. connecting' \in [ctx : Context, doc : States!State, read : BOOLEAN, mixed : BOOLEAN]
  BY <1>2, StatesZero
<1>4. States!Reread'
  BY <1>1, <1>2 DEF States!Reread
<1>5. starts' \in 0 .. MaxStarts
  BY <1>1 DEF States!Inv, States!TypeOK
<1> QED BY <1>1, <1>3, <1>4, <1>5, StatesConnectingKeeps

LEMMA StatesReadStateKeeps == States!Inv /\ States!ReadState => States!Inv'
<1> SUFFICES ASSUME States!Inv, States!ReadState PROVE States!Inv'
  OBVIOUS
<1> DEFINE d == States!Load(disk[connecting.ctx])
           m == States!SameFile(connecting.ctx) # {}
<1>1. /\ connecting # States!Idle
      /\ connecting' = [connecting EXCEPT !.read = TRUE, !.doc = d, !.mixed = m]
      /\ UNCHANGED <<disk, retained, shell, discovering, scope, saves, issued, mixed, failed, acts, starts>>
  BY DEF States!ReadState
<1>2. connecting \in [ctx : Context, doc : States!State, read : BOOLEAN, mixed : BOOLEAN]
  BY <1>1 DEF States!Inv, States!TypeOK
<1>3. d \in States!State
  BY <1>2, StatesLoad DEF States!Inv, States!TypeOK
<1> HIDE DEF d, m
<1>4. /\ connecting'.ctx = connecting.ctx /\ connecting'.doc = d /\ connecting'.mixed = m
      /\ connecting' \in [ctx : Context, doc : States!State, read : BOOLEAN, mixed : BOOLEAN]
  BY <1>1, <1>2, <1>3 DEF m
<1>5. \A e : UNCHANGED States!SameFile(e)
  BY <1>1 DEF States!SameFile
<1>6. States!Reread'
  BY <1>1, <1>4, <1>5 DEF States!Inv, States!Sound, States!Reread, d, m
<1> QED BY <1>1, <1>4, <1>6, StatesConnectingKeeps DEF States!Inv, States!TypeOK

LEMMA StatesConnectFailsKeeps == States!Inv /\ States!ConnectFails => States!Inv'
<1> SUFFICES ASSUME States!Inv, States!ConnectFails PROVE States!Inv'
  OBVIOUS
<1>1. States!Reread'
  BY DEF States!ConnectFails, States!Reread
<1> QED BY <1>1, StatesConnectingKeeps DEF States!ConnectFails, States!Inv, States!TypeOK

(* What a shell that starts on a context shows and records.                 *)
LEMMA StatesStarted ==
  ASSUME NEW c \in Context, NEW d \in States!State, States!Started(c, d), DOMAIN issued = Context
  PROVE  /\ shell' \in States!ShellRec /\ shell'.ctx = c /\ States!Now' = d
         /\ discovering' = TRUE /\ scope' = States!NoScope /\ failed' = FALSE
         /\ DOMAIN issued' = Context /\ \A e \in Context : issued[e] \subseteq issued'[e]
         /\ States!Facts(d) \subseteq issued'[c]
<1>1. shell' = States!Shell(c, d)
  BY DEF States!Started
<1>2. shell' \in States!ShellRec /\ shell'.ctx = c
  BY <1>1 DEF States!Shell, States!ShellRec, States!State
<1>3. States!Now' = d
  BY <1>1 DEF States!Shell, States!Now, States!State
<1> QED BY <1>2, <1>3 DEF States!Started

LEMMA StatesConnectedKeeps == States!Inv /\ States!Connected => States!Inv'
<1> SUFFICES ASSUME States!Inv, States!Connected PROVE States!Inv'
  OBVIOUS
<1> DEFINE c == connecting.ctx
           d == connecting.doc
           r == [ctx |-> c, st |-> d]
<1>1. /\ connecting.read /\ retained' = Append(retained, r) /\ States!Started(c, d)
      /\ mixed' = connecting.mixed /\ connecting' = States!Idle /\ UNCHANGED <<disk, saves, acts, starts>>
  BY DEF States!Connected
<1>2. connecting \in [ctx : Context, doc : States!State, read : BOOLEAN, mixed : BOOLEAN] /\ connecting # States!Idle
  BY <1>1 DEF States!Inv, States!TypeOK, States!Idle
<1>3. c \in Context /\ d \in States!State
  BY <1>2
<1>4. DOMAIN issued = Context /\ retained \in Seq([ctx : Context, st : States!State]) /\ r \in [ctx : Context, st : States!State]
  BY <1>3 DEF States!Inv, States!TypeOK
<1>5. States!Reread /\ (~mixed' => States!SameFile(c) = {} /\ d = States!Load(disk[c]))
  BY <1>1, <1>2 DEF States!Inv, States!Sound, States!Reread
<1>6. PICK n \in Nat : n = Len(retained) /\ DOMAIN retained = 1 .. n
  BY <1>4
<1> HIDE DEF c, d, r
<1>7. /\ retained' \in Seq([ctx : Context, st : States!State]) /\ retained' # <<>> /\ Len(retained') = n + 1
      /\ DOMAIN retained' = 1 .. (n + 1) /\ \A i \in 1 .. n : retained'[i] = retained[i]
      /\ retained'[n + 1] = r
  BY <1>1, <1>4, <1>6, AppendProperties
<1>8. r.ctx = c /\ r.st = d
  BY DEF r
<1>9. /\ shell' \in States!ShellRec /\ shell'.ctx = c /\ States!Now' = d
      /\ discovering' = TRUE /\ scope' = States!NoScope /\ failed' = FALSE
      /\ DOMAIN issued' = Context /\ \A e \in Context : issued[e] \subseteq issued'[e]
      /\ States!Facts(d) \subseteq issued'[c]
  BY <1>1, <1>3, <1>4, StatesStarted
<1>10. \A s \in saves : s \in States!SaveRec /\ s.per \in 1 .. n /\ retained[s.per].ctx \in Context
  BY <1>6, StatesTypes DEF States!Inv
<1>11. States!TypeOK'
  <2>1. \A s \in saves : s \in States!SaveRec'
    BY <1>6, <1>7, <1>10 DEF States!SaveRec
  <2>2. mixed' \in BOOLEAN
    BY <1>1, <1>2
  <2> QED BY <1>1, <1>7, <1>8, <1>9, <2>1, <2>2 DEF States!Inv, States!TypeOK
<1>12. States!PicksStayHome'
  BY <1>1, <1>9 DEF States!Inv, States!Sound, States!PicksStayHome
<1>13. States!Origins'
  <2>1. ASSUME NEW i \in DOMAIN retained' PROVE States!Home(retained[i].st, retained[i].ctx)'
    <3>1. CASE i = n + 1
      BY <1>7, <1>8, <1>9, <3>1 DEF States!Home
    <3>2. CASE i # n + 1
      <4>1. i \in DOMAIN retained /\ retained'[i] = retained[i]
        BY <1>6, <1>7, <3>2
      <4>2. retained[i].ctx \in Context /\ States!Home(retained[i].st, retained[i].ctx)
        BY <4>1, StatesTypes DEF States!Inv, States!Sound, States!Origins
      <4> QED BY <1>9, <4>1, <4>2 DEF States!Home
    <3> QED BY <3>1, <3>2
  <2>2. ASSUME NEW s \in saves'
        PROVE  LET e == retained[s.per].ctx
               IN  (/\ s.fact[1] # "unpin" => s.fact \in issued[e]
                    /\ \A k \in s.seen : <<"pin", k>> \in issued[e]
                    /\ States!Home(s.doc, e))'
    <3>1. s \in saves /\ retained'[s.per].ctx = retained[s.per].ctx /\ retained[s.per].ctx \in Context
      BY <1>1, <1>7, <1>10
    <3> QED BY <1>9, <3>1 DEF States!Inv, States!Sound, States!Origins, States!Home
  <2> QED BY <2>1, <2>2 DEF States!Origins
<1>14. \A e : States!SameFile(e)' = States!SameFile(e)
  BY <1>1, <1>7, <1>10 DEF States!SameFile
<1>15. ASSUME ~mixed' PROVE States!OneAtATime'
  <2>1. States!Held' = d
    BY <1>7, <1>8 DEF States!Held
  <2>2. States!Written'
    BY <1>1, <1>5, <1>9, <1>15, <2>1 DEF States!Written
  <2>3. States!SameFile(shell.ctx)' = {}
    BY <1>5, <1>9, <1>14, <1>15
  <2> QED BY <1>9, <2>1, <2>2, <2>3 DEF States!OneAtATime
<1>16. States!Reread'
  BY <1>1 DEF States!Reread
<1> QED BY <1>1, <1>11, <1>12, <1>13, <1>15, <1>16 DEF States!Inv, States!Sound

(* A start: the first, and those over whatever ran before.                  *)
StatesFresh ==
  \E c \in Context : \E d \in States!State :
    /\ retained = <<[ctx |-> c, st |-> d]>>
    /\ shell \in States!ShellRec /\ shell.ctx = c /\ States!Now = d
    /\ DOMAIN issued = Context /\ States!Facts(d) \subseteq issued[c]
    /\ disk \in [Context -> States!State \cup {States!Malformed}] /\ d = States!Load(disk[c])
    /\ States!PicksStayHome /\ saves = {} /\ connecting = States!Idle /\ scope = States!NoScope
    /\ discovering = TRUE /\ mixed = FALSE /\ failed = FALSE
    /\ acts \in 0 .. MaxActs /\ starts \in 0 .. MaxStarts

LEMMA StatesFreshIsSound == StatesFresh => States!Inv
<1> SUFFICES ASSUME NEW c \in Context, NEW d \in States!State,
                    retained = <<[ctx |-> c, st |-> d]>>,
                    shell \in States!ShellRec, shell.ctx = c, States!Now = d,
                    DOMAIN issued = Context, States!Facts(d) \subseteq issued[c],
                    disk \in [Context -> States!State \cup {States!Malformed}], d = States!Load(disk[c]),
                    States!PicksStayHome, saves = {}, connecting = States!Idle, scope = States!NoScope,
                    discovering = TRUE, mixed = FALSE, failed = FALSE,
                    acts \in 0 .. MaxActs, starts \in 0 .. MaxStarts
             PROVE  States!Inv
  BY DEF StatesFresh
<1> DEFINE r == [ctx |-> c, st |-> d]
<1>1. r.ctx = c /\ r.st = d /\ r \in [ctx : Context, st : States!State] /\ retained = <<r>>
  OBVIOUS
<1> HIDE DEF r
<1>2. /\ retained \in Seq([ctx : Context, st : States!State]) /\ retained # <<>>
      /\ Len(retained) = 1 /\ DOMAIN retained = {1} /\ retained[1] = r
  BY <1>1
<1>3. States!TypeOK
  BY <1>1, <1>2 DEF States!TypeOK
<1>4. States!Origins /\ States!Reread
  BY <1>1, <1>2 DEF States!Origins, States!Home, States!Reread
<1>5. States!OneAtATime
  <2>1. States!Held = d /\ States!SameFile(shell.ctx) = {}
    BY <1>1, <1>2 DEF States!Held, States!SameFile
  <2>2. States!Written
    BY <2>1 DEF States!Written
  <2> QED BY <2>1, <2>2 DEF States!OneAtATime
<1>6. States!IsFiniteSet(saves)
  BY FS_EmptySet, StatesFinite
<1> QED BY <1>3, <1>4, <1>5, <1>6 DEF States!Inv, States!Sound

LEMMA StatesFreshKeeps == StatesFresh' => States!Inv'
BY StatesFreshIsSound, PTL

LEMMA StatesRestartKeeps ==
  ASSUME States!Inv, NEW c \in Context, States!Restart(c)
  PROVE  States!Inv'
<1> DEFINE d == States!Load(disk[c])
<1>1. d \in States!State /\ DOMAIN issued = Context
  BY StatesLoad DEF States!Inv, States!TypeOK
<1>2. /\ starts < MaxStarts /\ starts' = starts + 1 /\ retained' = <<[ctx |-> c, st |-> d]>>
      /\ States!Started(c, d) /\ saves' = {} /\ connecting' = States!Idle /\ mixed' = FALSE
      /\ UNCHANGED <<disk, acts>>
  BY DEF States!Restart
<1>3. d = States!Load(disk'[c])
  BY <1>2
<1> HIDE DEF d
<1>4. /\ shell' \in States!ShellRec /\ shell'.ctx = c /\ States!Now' = d
      /\ discovering' = TRUE /\ scope' = States!NoScope /\ failed' = FALSE
      /\ DOMAIN issued' = Context /\ \A e \in Context : issued[e] \subseteq issued'[e]
      /\ States!Facts(d) \subseteq issued'[c]
  BY <1>1, <1>2, StatesStarted
<1>5. States!PicksStayHome'
  BY <1>2, <1>4 DEF States!Inv, States!Sound, States!PicksStayHome
<1>6. acts' \in 0 .. MaxActs /\ starts' \in 0 .. MaxStarts /\ disk' \in [Context -> States!State \cup {States!Malformed}]
  BY <1>2 DEF States!Inv, States!TypeOK
<1>7. StatesFresh'
  BY <1>1, <1>2, <1>3, <1>4, <1>5, <1>6 DEF StatesFresh
<1> QED BY <1>7, StatesFreshKeeps

LEMMA StatesInitInv == States!Init => States!Inv
<1> SUFFICES ASSUME States!Init PROVE States!Inv
  OBVIOUS
<1>1. /\ disk \in [Context -> States!State \cup {States!Malformed}]
      /\ discovering = TRUE /\ scope = States!NoScope /\ connecting = States!Idle /\ saves = {}
      /\ issued = [c \in Context |-> States!Facts(States!Load(disk[c]))]
      /\ mixed = FALSE /\ failed = FALSE /\ acts \in 0 .. MaxActs /\ starts \in 0 .. MaxStarts
  <2>1. disk \in [Context -> Found] /\ acts = 0 /\ starts = 0
    BY DEF States!Init
  <2>2. disk \in [Context -> States!State \cup {States!Malformed}]
    BY <2>1
  <2>3. acts \in 0 .. MaxActs /\ starts \in 0 .. MaxStarts
    BY <2>1
  <2> QED BY <2>2, <2>3 DEF States!Init
<1>2. PICK c \in Context : /\ retained = <<[ctx |-> c, st |-> States!Load(disk[c])]>>
                           /\ shell = States!Shell(c, States!Load(disk[c]))
  BY Zenon DEF States!Init
<1> DEFINE d == States!Load(disk[c])
<1>3. d \in States!State /\ d = States!Load(disk[c])
  BY <1>1, StatesLoad
<1>4. DOMAIN issued = Context /\ \A e \in Context : issued[e] = States!Facts(States!Load(disk[e]))
  BY <1>1
<1>5. States!PicksStayHome
  BY <1>4 DEF States!PicksStayHome
<1>6. retained = <<[ctx |-> c, st |-> d]>> /\ shell = States!Shell(c, d) /\ States!Facts(d) \subseteq issued[c]
  BY <1>2, <1>4
<1> HIDE DEF d
<1>7. shell \in States!ShellRec /\ shell.ctx = c /\ States!Now = d
  <2>1. shell \in States!ShellRec /\ shell.ctx = c
    BY <1>3, <1>6 DEF States!Shell, States!ShellRec, States!State
  <2>2. States!Now = d
    BY <1>3, <1>6 DEF States!Shell, States!Now, States!State
  <2> QED BY <2>1, <2>2
<1>8. StatesFresh
  BY <1>1, <1>3, <1>4, <1>5, <1>6, <1>7 DEF StatesFresh
<1> QED BY <1>8, StatesFreshIsSound

(* A command's step: of its save it leaves nothing or one record of the     *)
(* same persister and field ...                                             *)
StatesLeaves(s, left) ==
  /\ saves' = (saves \ {s}) \cup left
  /\ left = {} \/ \E t \in left : left = {t}
  /\ \A t \in left : /\ t \in States!SaveRec /\ t.per = s.per /\ t.fact = s.fact
                     /\ \A k \in t.seen : <<"pin", k>> \in issued[retained[s.per].ctx]
                     /\ States!Home(t.doc, retained[s.per].ctx)
(* ... and touches that persister's retained copy and its context's file.   *)
StatesWrites(s) ==
  /\ retained' \in Seq([ctx : Context, st : States!State]) /\ Len(retained') = Len(retained)
  /\ \A i \in DOMAIN retained : retained'[i].ctx = retained[i].ctx /\ (i # s.per => retained'[i] = retained[i])
  /\ States!Home(retained'[s.per].st, retained[s.per].ctx)
  /\ disk' \in [Context -> States!State \cup {States!Malformed}]
  /\ \A c \in Context : c # retained[s.per].ctx => disk'[c] = disk[c]
  /\ States!Facts(States!Load(disk'[retained[s.per].ctx]))
       \subseteq issued[retained[s.per].ctx] \cup States!Facts(States!Zero)
  /\ failed' \in BOOLEAN /\ (s.per # Len(retained) => failed' = failed)
  /\ UNCHANGED <<shell, discovering, scope, connecting, issued, mixed, acts, starts>>

(* What is left to show is one thing: where the only save of the shell's    *)
(* context has got to.                                                      *)
LEMMA StatesCommandKeeps ==
  ASSUME States!Inv, NEW s \in saves, NEW left, StatesLeaves(s, left),
         StatesWrites(s),
         /\ ~mixed /\ States!OneAtATime /\ States!SameFile(shell.ctx) = {s} /\ s.per = Len(retained)
         /\ States!SameFile(shell.ctx)' = left
         => States!OneAtATime'
  PROVE  States!Inv'
<1> USE DEF StatesLeaves, StatesWrites
<1> DEFINE e == retained[s.per].ctx
           n == Len(retained)
<1>1. /\ s \in States!SaveRec /\ s.per \in DOMAIN retained /\ e \in Context
      /\ n \in DOMAIN retained /\ retained[n].ctx = shell.ctx
      /\ saves \subseteq States!SaveRec /\ DOMAIN retained = 1 .. n
  BY StatesTypes DEF States!Inv
<1>2. DOMAIN retained' = DOMAIN retained /\ retained' # <<>>
  BY <1>1
<1>3. States!SaveRec' = States!SaveRec
  BY <1>2 DEF States!SaveRec
<1>4. States!TypeOK'
  <2>1. retained'[Len(retained')].ctx = shell'.ctx
    BY <1>1
  <2>2. saves' \subseteq States!SaveRec'
    BY <1>1, <1>3
  <2> QED BY <1>2, <2>1, <2>2 DEF States!Inv, States!TypeOK
<1>5. IsFiniteSet(saves')
  <2>1. IsFiniteSet(saves)
    BY StatesFinite DEF States!Inv, States!Sound
  <2>3. IsFiniteSet(left)
    <3>1. CASE left = {}
      BY <3>1, FS_EmptySet
    <3>2. ASSUME NEW t, left = {t} PROVE IsFiniteSet(left)
      BY <3>2, FS_Singleton
    <3> QED BY <3>1, <3>2
  <2>2. IsFiniteSet(saves \ {s})
    BY <2>1, FS_Difference
  <2> QED BY <2>2, <2>3, FS_Union
<1>6. States!PicksStayHome'
  BY <1>1 DEF States!Inv, States!Sound, States!PicksStayHome
<1>7. States!Origins'
  <2>1. ASSUME NEW i \in DOMAIN retained' PROVE States!Home(retained[i].st, retained[i].ctx)'
    <3>1. i \in DOMAIN retained /\ States!Home(retained[i].st, retained[i].ctx)
      BY <1>2 DEF States!Inv, States!Sound, States!Origins
    <3> QED BY <3>1 DEF States!Home
  <2>2. ASSUME NEW u \in saves'
        PROVE  LET c == retained[u.per].ctx
               IN  (/\ u.fact[1] # "unpin" => u.fact \in issued[c]
                    /\ \A k \in u.seen : <<"pin", k>> \in issued[c]
                    /\ States!Home(u.doc, c))'
    <3>1. CASE u \in left
      <4>1. /\ u.per = s.per /\ u.fact = s.fact /\ retained'[u.per].ctx = e
            /\ \A k \in u.seen : <<"pin", k>> \in issued[e]
            /\ States!Home(u.doc, e)
        BY <1>1, <3>1
      <4>2. s.fact[1] # "unpin" => s.fact \in issued[e]
        BY DEF States!Inv, States!Sound, States!Origins
      <4> QED BY <4>1, <4>2 DEF States!Home
    <3>2. CASE u \in saves
      <4>1. u.per \in DOMAIN retained /\ retained'[u.per].ctx = retained[u.per].ctx
        BY <3>2, StatesTypes DEF States!Inv
      <4> QED BY <3>2, <4>1 DEF States!Inv, States!Sound, States!Origins, States!Home
    <3> QED BY <3>1, <3>2
  <2> QED BY <2>1, <2>2 DEF States!Origins
<1>8. ASSUME NEW u \in saves PROVE u.per \in DOMAIN retained /\ retained'[u.per].ctx = retained[u.per].ctx
  BY StatesTypes DEF States!Inv
<1>9. \A c : c # e => States!SameFile(c)' = States!SameFile(c)
  BY <1>1, <1>8 DEF States!SameFile
<1>10. States!SameFile(e)' = (States!SameFile(e) \ {s}) \cup left
  BY <1>1, <1>8 DEF States!SameFile
<1>11. States!Reread'
  <2> SUFFICES ASSUME connecting # States!Idle
               PROVE  /\ connecting.ctx # shell.ctx
                      /\ connecting.read /\ ~connecting.mixed =>
                           /\ States!SameFile(connecting.ctx)' = {}
                           /\ connecting.doc = States!Load(disk'[connecting.ctx])
    BY DEF States!Reread
  <2>1. connecting.ctx \in Context
    BY DEF States!Inv, States!TypeOK
  <2>2. /\ connecting.ctx # shell.ctx
        /\ connecting.read /\ ~connecting.mixed =>
             /\ States!SameFile(connecting.ctx) = {}
             /\ connecting.doc = States!Load(disk[connecting.ctx])
    BY DEF States!Inv, States!Sound, States!Reread
  <2>3. s \in States!SameFile(e)
    BY DEF States!SameFile
  <2>4. ASSUME connecting.read /\ ~connecting.mixed PROVE e # connecting.ctx
    BY <2>2, <2>3, <2>4
  <2> QED BY <1>9, <2>1, <2>2, <2>4
<1>12. ASSUME ~mixed' PROVE States!OneAtATime'
  <2>1. ~mixed /\ States!OneAtATime
    BY <1>12 DEF States!Inv, States!Sound
  <2>2. CASE e # shell.ctx
    <3>1. s.per # n /\ failed' = failed
      BY <1>1, <2>2
    <3>2. States!SameFile(shell.ctx)' = States!SameFile(shell.ctx) /\ s \notin States!SameFile(shell.ctx)
      <4>1. States!SameFile(shell.ctx)' = {u \in saves' : retained'[u.per].ctx = shell'.ctx}
        BY DEF States!SameFile
      <4>2. \A c : States!SameFile(c)' = {u \in saves' : retained'[u.per].ctx = c}
        BY DEF States!SameFile
      <4>3. s \notin States!SameFile(shell.ctx)
        BY <2>2 DEF States!SameFile
      <4> QED BY <1>9, <2>2, <4>1, <4>2, <4>3
    <3>3. States!Held' = States!Held
      BY <1>1, <3>1 DEF States!Held
    <3>4. UNCHANGED <<States!Now, States!Written>>
      <4>1. shell.ctx \in Context
        BY StatesTypes DEF States!Inv
      <4>2. disk'[shell.ctx] = disk[shell.ctx]
        BY <2>2, <4>1
      <4> QED BY <3>1, <3>3, <4>2 DEF States!Now, States!Written
    <3>5. \A u \in saves : u # s => u \in saves'
      OBVIOUS
    <3> QED BY <2>1, <3>2, <3>3, <3>4, <3>5 DEF States!OneAtATime
  <2>3. CASE e = shell.ctx
    <3>1. s \in States!SameFile(shell.ctx)
      BY <2>3 DEF States!SameFile
    <3>2. States!SameFile(shell.ctx) = {s} /\ s.per = n
      <4>1. States!SameFile(shell.ctx) # {}
        BY <3>1
      <4>2. PICK u \in saves : States!SameFile(shell.ctx) = {u} /\ u.per = n
        BY <2>1, <4>1 DEF States!OneAtATime
      <4> QED BY <3>1, <4>2
    <3>3. States!SameFile(shell.ctx)' = left
      <4>1. States!SameFile(shell.ctx)' = {u \in saves' : retained'[u.per].ctx = shell'.ctx}
        BY DEF States!SameFile
      <4>2. States!SameFile(e)' = {u \in saves' : retained'[u.per].ctx = e}
        BY <1>1 DEF States!SameFile
      <4>3. (States!SameFile(e) \ {s}) \cup left = left
        BY <2>3, <3>2
      <4> QED BY <1>10, <2>3, <4>1, <4>2, <4>3
    <3> QED BY <2>1, <3>2, <3>3
  <2> QED BY <2>2, <2>3
<1>13. States!IsFiniteSet(saves')
  BY <1>5, StatesFinite
<1> QED BY <1>4, <1>6, <1>7, <1>11, <1>12, <1>13 DEF States!Inv, States!Sound

(* Of those, the steps that leave the copies and the files as they are.     *)
LEMMA StatesQuietKeeps ==
  ASSUME States!Inv, NEW s \in saves, NEW left, StatesLeaves(s, left),
         failed' \in BOOLEAN, s.per # Len(retained) => failed' = failed,
         UNCHANGED <<disk, retained, shell, discovering, scope, connecting, issued, mixed, acts, starts>>,
         /\ ~mixed /\ States!OneAtATime /\ States!SameFile(shell.ctx) = {s} /\ s.per = Len(retained)
         /\ States!SameFile(shell.ctx)' = left
         => States!OneAtATime'
  PROVE  States!Inv'
<1>1. s.per \in DOMAIN retained /\ retained[s.per].ctx \in Context
  BY StatesTypes DEF States!Inv
<1>2. States!Home(retained'[s.per].st, retained[s.per].ctx)
  BY <1>1 DEF States!Inv, States!Sound, States!Origins
<1>3. /\ retained' \in Seq([ctx : Context, st : States!State])
      /\ disk' \in [Context -> States!State \cup {States!Malformed}]
  BY DEF States!Inv, States!TypeOK
<1>4. States!Facts(States!Load(disk'[retained[s.per].ctx]))
        \subseteq issued[retained[s.per].ctx] \cup States!Facts(States!Zero)
  BY <1>1 DEF States!Inv, States!Sound, States!PicksStayHome
<1>5. StatesWrites(s)
  BY <1>1, <1>2, <1>3, <1>4 DEF StatesWrites
<1> QED BY <1>5, StatesCommandKeeps

(* What a save is about, whatever its progress.                             *)
LEMMA StatesSaved ==
  ASSUME States!Inv, NEW s \in saves
  PROVE  LET c == retained[s.per].ctx
         IN  /\ s \in States!SaveRec /\ s.per \in DOMAIN retained /\ c \in Context
             /\ retained[s.per].st \in States!State /\ States!Home(retained[s.per].st, c)
             /\ s.fact[1] # "unpin" => s.fact \in issued[c]
             /\ \A k \in s.seen : <<"pin", k>> \in issued[c]
             /\ States!Home(s.doc, c)
             /\ s.per = Len(retained) => retained[s.per].st = States!Held
             /\ \/ s.fact[1] = "ns" /\ s.fact[2] \in Namespace \cup {States!None}
                \/ s.fact[1] = "pane" /\ s.fact[2] \in States!Pane
                \/ s.fact[1] \in {"pin", "unpin"} /\ s.fact[2] \in Kind
             /\ s.fact = <<s.fact[1], s.fact[2]>>
<1>1. s \in States!SaveRec /\ s.per \in DOMAIN retained
  BY StatesTypes DEF States!Inv
<1>2. retained[s.per].ctx \in Context /\ retained[s.per].st \in States!State
  BY <1>1, StatesTypes DEF States!Inv
<1>3. /\ \/ s.fact[1] = "ns" /\ s.fact[2] \in Namespace \cup {States!None}
         \/ s.fact[1] = "pane" /\ s.fact[2] \in States!Pane
         \/ s.fact[1] \in {"pin", "unpin"} /\ s.fact[2] \in Kind
      /\ s.fact = <<s.fact[1], s.fact[2]>>
  BY <1>1 DEF States!SaveRec, States!Fact
<1> QED BY <1>1, <1>2, <1>3 DEF States!Inv, States!Sound, States!Origins, States!Held

(* The pins a state has are facts chosen on its context.                    *)
LEMMA StatesHomePins ==
  ASSUME NEW d, NEW c, States!Home(d, c), NEW k \in d.pins
  PROVE  <<"pin", k>> \in issued[c]
<1>1. <<"pin", k>> \in States!Facts(d)
  BY DEF States!Facts
<1>2. <<"pin", k>> \notin States!Facts(States!Zero)
  <2>1. States!Facts(States!Zero) = {<<"ns", States!Zero.ns>>, <<"pane", States!Zero.pane>>}
    BY StatesZero DEF States!Facts
  <2> QED BY <2>1
<1> QED BY <1>1, <1>2 DEF States!Home

LEMMA StatesFormatKeeps ==
  ASSUME States!Inv, NEW s \in saves, States!Format(s)
  PROVE  States!Inv'
<1> DEFINE doc == retained[s.per].st
           t == [s EXCEPT !.pc = "rename", !.doc = doc]
           left == {t}
<1>1. /\ s.pc = "format" /\ saves' = (saves \ {s}) \cup left
      /\ UNCHANGED <<disk, retained, shell, discovering, scope, connecting, issued, mixed, failed, acts, starts>>
  BY DEF States!Format
<1>2. s \in States!SaveRec /\ doc \in States!State
  BY StatesSaved
<1> HIDE DEF doc
<1>3. /\ t \in States!SaveRec /\ t.per = s.per /\ t.fact = s.fact /\ t.seen = s.seen
      /\ t.pc = "rename" /\ t.doc = doc
  BY <1>2 DEF States!SaveRec, States!Step
<1> HIDE DEF t
<1>5. left = {} \/ \E u \in left : left = {u}
  <2>1. t \in left /\ left = {t}
    OBVIOUS
  <2> HIDE DEF left
  <2> QED BY <2>1
<1>4. \A u \in left : /\ u \in States!SaveRec /\ u.per = s.per /\ u.fact = s.fact
                      /\ \A k \in u.seen : <<"pin", k>> \in issued[retained[s.per].ctx]
                      /\ States!Home(u.doc, retained[s.per].ctx)
  BY <1>3, StatesSaved DEF doc
<1>6. ASSUME States!OneAtATime, States!SameFile(shell.ctx) = {s}, s.per = Len(retained),
             States!SameFile(shell.ctx)' = left
      PROVE  States!OneAtATime'
  <2>1. States!Held = States!Now /\ doc = States!Held
    BY <1>1, <1>6, StatesSaved DEF States!OneAtATime, doc
  <2>2. States!Held' = States!Held /\ States!Now' = States!Now
    BY <1>1 DEF States!Held, States!Now
  <2>3. t \in saves' /\ t.per = Len(retained')
    BY <1>1, <1>3, <1>6
  <2> QED BY <1>3, <1>6, <2>1, <2>2, <2>3 DEF States!OneAtATime
<1>7. failed' \in BOOLEAN /\ failed' = failed
  BY <1>1 DEF States!Inv, States!TypeOK
<1> HIDE DEF left
<1>8. StatesLeaves(s, left)
  BY <1>1, <1>4, <1>5 DEF StatesLeaves
<1> QED BY <1>1, <1>6, <1>7, <1>8, StatesQuietKeeps

LEMMA StatesSaveFailsKeeps ==
  ASSUME States!Inv, NEW s \in saves, States!SaveFails(s)
  PROVE  States!Inv'
<1> DEFINE left == {}
<1>1. /\ s.pc = "rename" /\ saves' = (saves \ {s}) \cup left /\ failed' = (failed \/ s.per = Len(retained))
      /\ UNCHANGED <<disk, retained, shell, discovering, scope, connecting, issued, mixed, acts, starts>>
  BY DEF States!SaveFails
<1>2. failed' \in BOOLEAN /\ (s.per # Len(retained) => failed' = failed)
  BY <1>1 DEF States!Inv, States!TypeOK
<1>3. ASSUME States!OneAtATime, States!SameFile(shell.ctx) = {s}, s.per = Len(retained),
             States!SameFile(shell.ctx)' = left
      PROVE  States!OneAtATime'
  <2>1. States!Held' = States!Now'
    BY <1>1, <1>3 DEF States!OneAtATime, States!Held, States!Now
  <2>2. States!Written'
    BY <1>1, <1>3 DEF States!Written
  <2> QED BY <1>3, <2>1, <2>2 DEF States!OneAtATime
<1>4. StatesLeaves(s, left)
  BY <1>1 DEF StatesLeaves
<1> HIDE DEF left
<1> QED BY <1>1, <1>2, <1>3, <1>4, StatesQuietKeeps

LEMMA StatesRenameKeeps ==
  ASSUME States!Inv, NEW s \in saves, States!Rename(s)
  PROVE  States!Inv'
<1> DEFINE left == {}
           c == retained[s.per].ctx
<1>1. /\ s.pc = "rename" /\ saves' = (saves \ {s}) \cup left
      /\ disk' = [disk EXCEPT ![c] = s.doc] /\ failed' = (failed /\ s.per # Len(retained))
      /\ UNCHANGED <<retained, shell, discovering, scope, connecting, issued, mixed, acts, starts>>
  BY DEF States!Rename
<1>2. c \in Context /\ s.doc \in States!State /\ States!Home(s.doc, c) /\ s.per \in DOMAIN retained
  BY StatesSaved DEF States!SaveRec
<1>3. /\ retained' \in Seq([ctx : Context, st : States!State])
      /\ States!Home(retained'[s.per].st, retained[s.per].ctx)
  BY <1>1, StatesSaved DEF States!Inv, States!TypeOK
<1>4. disk \in [Context -> States!State \cup {States!Malformed}]
  BY DEF States!Inv, States!TypeOK
<1> HIDE DEF c
<1>5. /\ disk' \in [Context -> States!State \cup {States!Malformed}]
      /\ \A e \in Context : e # c => disk'[e] = disk[e]
      /\ disk'[c] = s.doc /\ States!Load(disk'[c]) = s.doc
  BY <1>1, <1>2, <1>4, StatesLoad
<1>6. States!Facts(States!Load(disk'[c])) \subseteq issued[c] \cup States!Facts(States!Zero)
  BY <1>2, <1>5 DEF States!Home
<1>7. failed' \in BOOLEAN /\ (s.per # Len(retained) => failed' = failed)
  BY <1>1 DEF States!Inv, States!TypeOK
<1>8. ASSUME States!OneAtATime, States!SameFile(shell.ctx) = {s}, s.per = Len(retained),
             States!SameFile(shell.ctx)' = left
      PROVE  States!OneAtATime'
  <2>1. States!Held' = States!Now' /\ s.doc = States!Held'
    BY <1>1, <1>8 DEF States!OneAtATime, States!Held, States!Now
  <2>2. c = shell'.ctx
    BY <1>1, <1>8, StatesTypes DEF c, States!Inv
  <2>3. States!Written'
    BY <1>5, <2>1, <2>2 DEF States!Written
  <2> QED BY <1>8, <2>1, <2>3 DEF States!OneAtATime
<1>9. StatesLeaves(s, left)
  BY <1>1 DEF StatesLeaves
<1>10. StatesWrites(s)
  BY <1>1, <1>3, <1>5, <1>6, <1>7 DEF StatesWrites, c
<1> HIDE DEF left
<1> QED BY <1>8, <1>9, <1>10, StatesCommandKeeps

LEMMA StatesLookKeeps ==
  ASSUME States!Inv, NEW s \in saves, States!Look(s)
  PROVE  States!Inv'
<1> DEFINE pins == retained[s.per].st.pins
           said == (s.fact[2] \in pins) = (s.fact[1] = "pin")
           t == [s EXCEPT !.pc = "assign", !.seen = pins]
           left == IF said THEN {} ELSE {t}
<1>1. /\ s.pc = "queued" /\ s.fact[1] \in {"pin", "unpin"} /\ saves' = (saves \ {s}) \cup left
      /\ UNCHANGED <<disk, retained, shell, discovering, scope, connecting, issued, mixed, failed, acts, starts>>
  BY DEF States!Look
<1>2. s \in States!SaveRec /\ pins \subseteq Kind
  BY StatesSaved DEF States!State
<1>3. \A k \in pins : <<"pin", k>> \in issued[retained[s.per].ctx]
  <2>1. States!Home(retained[s.per].st, retained[s.per].ctx)
    BY StatesSaved
  <2>2. ASSUME NEW k \in pins PROVE <<"pin", k>> \in issued[retained[s.per].ctx]
    BY <2>1, StatesHomePins
  <2> QED BY Zenon, <2>2
<1>4. /\ t \in States!SaveRec /\ t.per = s.per /\ t.fact = s.fact /\ t.seen = pins
      /\ t.pc = "assign" /\ t.doc = s.doc
  <2> HIDE DEF pins
  <2> QED BY <1>2 DEF States!SaveRec, States!Step
<1>5. ASSUME States!OneAtATime, States!SameFile(shell.ctx) = {s}, s.per = Len(retained),
             States!SameFile(shell.ctx)' = left
      PROVE  States!OneAtATime'
  <2> DEFINE held == States!Held
             u == [s EXCEPT !.seen = held.pins]
  <2>1. States!Now = States!Changed(held, u) /\ States!Written
    BY <1>1, <1>5 DEF States!OneAtATime
  <2>2. held \in States!State /\ pins = held.pins
    BY <1>5, StatesSaved
  <2>3. u.fact = s.fact /\ u.seen = pins
    BY <1>2, <2>2 DEF States!SaveRec
  <2>4. States!Held' = held /\ States!Now' = States!Now /\ States!Written'
    BY <1>1, <2>1 DEF States!Held, States!Now, States!Written
  <2> HIDE DEF held, u, pins, t
  <2>5. CASE said
    <3>1. States!Changed(held, u) = [held EXCEPT !.pins = pins]
      <4>1. CASE s.fact[1] = "pin"
        <5>1. pins \cup {s.fact[2]} = pins
          BY <2>5, <4>1
        <5> QED BY <2>3, <4>1, <5>1 DEF States!Changed
      <4>2. CASE s.fact[1] = "unpin"
        <5>1. pins \ {s.fact[2]} = pins
          BY <2>5, <4>2
        <5> QED BY <2>3, <4>2, <5>1 DEF States!Changed
      <4> QED BY <1>1, <4>1, <4>2
    <3>2. States!Changed(held, u) = held
      BY <2>2, <3>1 DEF States!State
    <3>3. States!SameFile(shell.ctx)' = {}
      BY <1>5, <2>5
    <3>4. States!Held' = States!Now'
      BY <2>1, <2>4, <3>2
    <3> QED BY <2>4, <3>3, <3>4 DEF States!OneAtATime
  <2>6. CASE ~said
    <3>1. States!Changed(held, u) = States!Changed(held, t)
      BY <1>4, <2>3 DEF States!Changed
    <3>2. left = {t}
      BY <2>6
    <3>3. t \in saves' /\ t.per = Len(retained') /\ t.seen = held.pins
      BY <1>1, <1>4, <1>5, <2>2, <3>2
    <3>4. States!Now' = States!Changed(States!Held', t) /\ t.seen = States!Held'.pins
      BY <2>1, <2>4, <3>1, <3>3
    <3> QED BY <1>4, <1>5, <2>4, <3>2, <3>3, <3>4 DEF States!OneAtATime
  <2> QED BY <2>5, <2>6
<1>6. \A k \in t.seen : <<"pin", k>> \in issued[retained[s.per].ctx]
  <2> HIDE DEF t, pins
  <2> QED BY Zenon, <1>3, <1>4
<1>7. States!Home(t.doc, retained[s.per].ctx)
  BY <1>4, StatesSaved
<1> HIDE DEF t, said
<1>8. \/ left = {}
      \/ left = {t} /\ t \in left
  <2>1. CASE said
    BY <2>1
  <2>2. CASE ~said
    BY <2>2
  <2> QED BY <2>1, <2>2
<1> HIDE DEF left
<1>9. left = {} \/ \E u \in left : left = {u}
  BY <1>8
<1>10. \A u \in left : /\ u \in States!SaveRec /\ u.per = s.per /\ u.fact = s.fact
                       /\ \A k \in u.seen : <<"pin", k>> \in issued[retained[s.per].ctx]
                       /\ States!Home(u.doc, retained[s.per].ctx)
  BY <1>4, <1>6, <1>7, <1>8
<1>11. failed' \in BOOLEAN /\ failed' = failed
  BY <1>1 DEF States!Inv, States!TypeOK
<1>12. StatesLeaves(s, left)
  BY <1>1, <1>9, <1>10 DEF StatesLeaves
<1> QED BY <1>1, <1>5, <1>11, <1>12, StatesQuietKeeps

LEMMA StatesAssignKeeps ==
  ASSUME States!Inv, NEW s \in saves, States!Assign(s)
  PROVE  States!Inv'
<1> DEFINE c == retained[s.per].ctx
           st == retained[s.per].st
           new == States!Changed(st, s)
           t == [s EXCEPT !.pc = "format"]
           left == {t}
<1>1. /\ s.pc = IF s.fact[1] \in {"ns", "pane"} THEN "queued" ELSE "assign"
      /\ retained' = [retained EXCEPT ![s.per].st = new] /\ saves' = (saves \ {s}) \cup left
      /\ UNCHANGED <<disk, shell, discovering, scope, connecting, issued, mixed, failed, acts, starts>>
  BY DEF States!Assign, States!To
<1>2. /\ s \in States!SaveRec /\ s.per \in DOMAIN retained /\ st \in States!State /\ c \in Context
      /\ States!Home(st, c)
  BY StatesSaved
<1>3. new \in States!State
  BY <1>2, StatesChanged
<1>4. /\ t \in States!SaveRec /\ t.per = s.per /\ t.fact = s.fact /\ t.seen = s.seen
      /\ t.pc = "format" /\ t.doc = s.doc
  BY <1>2 DEF States!SaveRec, States!Step
<1>5. States!Home(new, c)
  <2>1. /\ \A k \in st.pins : <<"pin", k>> \in issued[c]
        /\ s.fact[1] # "unpin" => s.fact \in issued[c]
        /\ \A k \in s.seen : <<"pin", k>> \in issued[c]
        /\ s.fact = <<s.fact[1], s.fact[2]>>
    BY <1>2, StatesHomePins, StatesSaved
  <2>2. /\ <<"ns", st.ns>> \in issued[c] \cup States!Facts(States!Zero)
        /\ <<"pane", st.pane>> \in issued[c] \cup States!Facts(States!Zero)
    BY <1>2 DEF States!Home, States!Facts
  <2>3. /\ <<"ns", new.ns>> \in issued[c] \cup States!Facts(States!Zero)
        /\ <<"pane", new.pane>> \in issued[c] \cup States!Facts(States!Zero)
        /\ \A k \in new.pins : <<"pin", k>> \in issued[c]
    <3> HIDE DEF c, st
    <3>1. CASE s.fact[1] = "ns"
      <4>1. new.ns = s.fact[2] /\ new.pane = st.pane /\ new.pins = st.pins
        BY <1>2, <3>1 DEF States!Changed, States!State
      <4> HIDE DEF new
      <4> QED BY <2>1, <2>2, <3>1, <4>1
    <3>2. CASE s.fact[1] = "pane"
      <4>1. new.ns = st.ns /\ new.pane = s.fact[2] /\ new.pins = st.pins
        BY <1>2, <3>2 DEF States!Changed, States!State
      <4> HIDE DEF new
      <4> QED BY <2>1, <2>2, <3>2, <4>1
    <3>3. CASE s.fact[1] = "pin"
      <4>1. new.ns = st.ns /\ new.pane = st.pane /\ new.pins = s.seen \cup {s.fact[2]}
        BY <1>2, <3>3 DEF States!Changed, States!State
      <4> HIDE DEF new
      <4> QED BY <2>1, <2>2, <3>3, <4>1
    <3>4. CASE s.fact[1] = "unpin"
      <4>1. new.ns = st.ns /\ new.pane = st.pane /\ new.pins = s.seen \ {s.fact[2]}
        BY <1>2, <3>4 DEF States!Changed, States!State
      <4> HIDE DEF new
      <4> QED BY <2>1, <2>2, <3>4, <4>1
    <3>5. s.fact[1] \in {"ns", "pane", "pin", "unpin"}
      BY StatesSaved
    <3> QED BY <3>1, <3>2, <3>3, <3>4, <3>5
  <2> HIDE DEF new, c
  <2> QED BY <2>3 DEF States!Home, States!Facts
<1> HIDE DEF new
<1>6. retained \in Seq([ctx : Context, st : States!State])
  BY DEF States!Inv, States!TypeOK
<1>7. /\ retained' \in Seq([ctx : Context, st : States!State]) /\ Len(retained') = Len(retained)
      /\ \A i \in DOMAIN retained : retained'[i].ctx = retained[i].ctx /\ (i # s.per => retained'[i] = retained[i])
      /\ retained'[s.per].st = new
  <2> DEFINE r == [retained[s.per] EXCEPT !.st = new]
  <2>1. retained[s.per] \in [ctx : Context, st : States!State]
    <3>1. s.per \in 1 .. Len(retained)
      BY <1>2, <1>6
    <3> QED BY <1>6, <3>1, ElementOfSeq
  <2>2. r \in [ctx : Context, st : States!State] /\ r.ctx = c /\ r.st = new
    BY <1>3, <2>1
  <2>3. retained' = [retained EXCEPT ![s.per] = r]
    BY <1>1
  <2> HIDE DEF r
  <2>4. /\ Len(retained) \in Nat /\ DOMAIN retained = 1 .. Len(retained)
        /\ s.per \in 1 .. Len(retained)
    BY <1>2, <1>6
  <2>5. DOMAIN retained' = DOMAIN retained /\ retained'[s.per] = r /\ \A i \in DOMAIN retained \ {s.per} : retained'[i] = retained[i]
    BY <1>2, <2>3, <2>4
  <2>6. retained' \in Seq([ctx : Context, st : States!State]) /\ Len(retained') = Len(retained)
    BY <1>6, <2>2, <2>3, <2>4, ExceptSeq
  <2> QED BY <2>2, <2>5, <2>6
<1>8. ASSUME States!OneAtATime, States!SameFile(shell.ctx) = {s}, s.per = Len(retained),
             States!SameFile(shell.ctx)' = left
      PROVE  States!OneAtATime'
  <2> DEFINE held == States!Held
             u == [s EXCEPT !.seen = held.pins]
  <2>1. \/ s.pc = "queued" /\ States!Now = States!Changed(held, u)
        \/ s.pc = "assign" /\ States!Now = States!Changed(held, s)
    BY <1>1, <1>8 DEF States!OneAtATime
  <2>2. u.fact = s.fact
    BY <1>2 DEF States!SaveRec
  <2>3. held = st
    BY <1>8, StatesSaved
  <2> HIDE DEF held, u, st
  <2>4. s.pc = "queued" => States!Changed(held, u) = States!Changed(held, s)
    BY <1>1, <2>2 DEF States!Changed
  <2>5. States!Now = new
    BY <2>1, <2>3, <2>4 DEF new
  <2>6. States!Held' = new /\ States!Now' = States!Now
    BY <1>1, <1>7, <1>8 DEF States!Held, States!Now
  <2>7. t \in saves' /\ t.per = Len(retained')
    BY <1>1, <1>4, <1>7, <1>8
  <2> HIDE DEF t
  <2> QED BY <1>4, <1>8, <2>5, <2>6, <2>7 DEF States!OneAtATime
<1> HIDE DEF t
<1>9. left = {} \/ \E u \in left : left = {u}
  <2>1. t \in left /\ left = {t}
    OBVIOUS
  <2> HIDE DEF left
  <2> QED BY <2>1
<1>10. \A u \in left : /\ u \in States!SaveRec /\ u.per = s.per /\ u.fact = s.fact
                       /\ \A k \in u.seen : <<"pin", k>> \in issued[retained[s.per].ctx]
                       /\ States!Home(u.doc, retained[s.per].ctx)
  BY <1>4, StatesSaved
<1>11. failed' \in BOOLEAN /\ failed' = failed /\ disk' \in [Context -> States!State \cup {States!Malformed}]
  BY <1>1 DEF States!Inv, States!TypeOK
<1>12. States!Facts(States!Load(disk'[c])) \subseteq issued[c] \cup States!Facts(States!Zero)
  BY <1>1, <1>2 DEF States!Inv, States!Sound, States!PicksStayHome
<1>13. \A e \in Context : e # c => disk'[e] = disk[e]
  BY <1>1
<1>14. States!Home(retained'[s.per].st, c)
  BY <1>5, <1>7
<1> HIDE DEF left
<1>15. StatesLeaves(s, left)
  BY <1>1, <1>9, <1>10 DEF StatesLeaves
<1>16. StatesWrites(s)
  BY <1>1, <1>7, <1>11, <1>12, <1>13, <1>14 DEF StatesWrites
<1> QED BY <1>8, <1>15, <1>16, StatesCommandKeeps

LEMMA StatesStutterKeeps == States!Inv /\ UNCHANGED stateVars => States!Inv'
<1> SUFFICES ASSUME States!Inv, UNCHANGED stateVars PROVE States!Inv'
  OBVIOUS
<1>1. UNCHANGED <<disk, retained, shell, discovering, scope, connecting, saves, issued, mixed, failed, acts, starts>>
  BY DEF stateVars
<1>2. States!Sound'
  BY <1>1, StatesUntouched DEF States!Inv
<1>3. States!TypeOK'
  BY <1>1 DEF States!Inv, States!TypeOK, States!SaveRec
<1> QED BY <1>2, <1>3 DEF States!Inv

LEMMA StatesInvStep == States!Inv /\ [States!Next]_stateVars => States!Inv'
<1> SUFFICES ASSUME States!Inv, [States!Next]_stateVars PROVE States!Inv'
  OBVIOUS
<1>1. ASSUME NEW k \in Kind, States!PickKind(k) \/ States!TogglePin(k) \/ States!OpenChildren(k)
      PROVE  States!Inv'
  BY <1>1, StatesPickKindKeeps, StatesTogglePinKeeps, StatesOpenChildrenKeeps
<1>2. ASSUME NEW ns \in Namespace \cup {States!None}, States!PickNamespace(ns) PROVE States!Inv'
  BY <1>2, StatesPickNamespaceKeeps
<1>3. CASE States!Back \/ States!ReadState \/ States!ConnectFails \/ States!Connected
  BY <1>3, StatesBackKeeps, StatesReadStateKeeps, StatesConnectFailsKeeps, StatesConnectedKeeps
<1>4. ASSUME NEW ok \in BOOLEAN, States!ScopeAnswered(ok) PROVE States!Inv'
  BY <1>4, StatesScopeAnsweredKeeps
<1>5. ASSUME NEW served \in Served, States!Discovered(served) PROVE States!Inv'
  BY <1>5, StatesDiscoveredKeeps
<1>6. ASSUME NEW c \in Context, States!Switch(c) \/ States!Restart(c) PROVE States!Inv'
  BY <1>6, StatesSwitchKeeps, StatesRestartKeeps
<1>7. ASSUME NEW s \in saves,
             States!Look(s) \/ States!Assign(s) \/ States!Format(s) \/ States!Rename(s) \/ States!SaveFails(s)
      PROVE  States!Inv'
  BY <1>7, StatesLookKeeps, StatesAssignKeeps, StatesFormatKeeps, StatesRenameKeeps, StatesSaveFailsKeeps
<1>8. CASE UNCHANGED stateVars
  BY <1>8, StatesStutterKeeps
<1> QED BY <1>1, <1>2, <1>3, <1>4, <1>5, <1>6, <1>7, <1>8 DEF States!Next

(* Only handleRestoreDrill and restoreLastResource open for the memory, and *)
(* both look at the pane first.                                             *)
LEMMA StatesYields == States!TypeOK /\ [States!Next]_stateVars => States!Yields \/ UNCHANGED shell
<1> SUFFICES ASSUME States!TypeOK, [States!Next]_stateVars, shell' # shell PROVE States!Yields
  OBVIOUS
<1>1. shell \in States!ShellRec
  BY DEF States!TypeOK
<1>2. ASSUME NEW q, NEW by, States!Open(q, by), by = "restore" => shell.pane = States!NoPane
      PROVE  States!Yields
  BY <1>1, <1>2 DEF States!Open, States!Yields, States!ShellRec
<1>3. ASSUME NEW k \in Kind, States!PickKind(k) \/ States!TogglePin(k) \/ States!OpenChildren(k)
      PROVE  States!Yields
  <2>1. CASE States!PickKind(k)
    BY <1>2, <2>1 DEF States!PickKind
  <2>2. CASE States!TogglePin(k)
    <3>1. PICK pins : shell' = [shell EXCEPT !.pins = pins]
      BY <2>2 DEF States!TogglePin
    <3> QED BY <1>1, <3>1 DEF States!Yields, States!ShellRec
  <2> QED BY <1>3, <2>1, <2>2 DEF States!OpenChildren
<1>4. ASSUME NEW ns \in Namespace \cup {States!None}, States!PickNamespace(ns) PROVE States!Yields
  <2> DEFINE p == States!Plain(shell.pane.kind)
  <2>1. \/ shell' = [shell EXCEPT !.ns = ns, !.pane = p, !.last = p, !.by = "reader"]
        \/ shell' = [shell EXCEPT !.ns = ns]
    BY <1>4 DEF States!PickNamespace
  <2> HIDE DEF p
  <2>2. shell'.by = "reader" \/ shell'.pane = shell.pane
    <3>1. CASE shell' = [shell EXCEPT !.ns = ns, !.pane = p, !.last = p, !.by = "reader"]
      BY <1>1, <3>1 DEF States!ShellRec
    <3>2. CASE shell' = [shell EXCEPT !.ns = ns]
      BY <1>1, <3>2 DEF States!ShellRec
    <3> QED BY <2>1, <3>1, <3>2
  <2> QED BY <2>2 DEF States!Yields
<1>5. CASE States!Back
  BY <1>2, <1>5 DEF States!Back
<1>6. CASE States!Connected \/ \E c \in Context : States!Restart(c)
  <2>1. PICK c, d : States!Started(c, d)
    BY <1>6 DEF States!Connected, States!Restart
  <2>2. shell'.by = States!None
    BY <2>1 DEF States!Started, States!Shell
  <2> QED BY <2>2 DEF States!Yields, States!None
<1>7. ASSUME NEW ok \in BOOLEAN, States!ScopeAnswered(ok) PROVE States!Yields
  <2>1. PICK q : States!Open(q, scope.by) /\ ~States!Outranked(scope)
    BY <1>7 DEF States!ScopeAnswered
  <2> QED BY <1>2, <2>1 DEF States!Outranked
<1>8. ASSUME NEW served \in Served, States!Discovered(served) PROVE States!Yields
  <2>1. \/ shell' = [shell EXCEPT !.restore = FALSE]
        \/ States!Restores(served)
    BY <1>8 DEF States!Discovered
  <2> QED BY <1>1, <2>1 DEF States!Restores, States!Yields, States!ShellRec
<1>9. ASSUME NEW s \in saves,
             States!Look(s) \/ States!Assign(s) \/ States!Format(s) \/ States!Rename(s) \/ States!SaveFails(s)
      PROVE  UNCHANGED shell
  BY <1>9 DEF States!Look, States!Assign, States!Format, States!Rename, States!SaveFails
<1>10. ASSUME NEW c \in Context, States!Switch(c) PROVE UNCHANGED shell
  BY <1>10 DEF States!Switch
<1>11. CASE States!ReadState \/ States!ConnectFails
  BY <1>11 DEF States!ReadState, States!ConnectFails
<1>12. CASE UNCHANGED stateVars
  BY <1>12 DEF stateVars
<1> QED BY <1>3, <1>4, <1>5, <1>6, <1>7, <1>8, <1>9, <1>10, <1>11, <1>12 DEF States!Next

--------------------------- (* Settings *) ----------------------------------
HIDE FilesAssumption DEF States!StoreAssumption

LEMMA ConfigInitInv == Config!Init => Config!Inv
BY FilesAssumption
   DEF Config!SettingsAssumption, Config!Init, Config!Inv, Config!TypeOK, Config!Kept, Config!UnderWay,
       Config!Absent, Config!File, Config!Name

LEMMA ConfigPickKeeps == Config!Inv /\ Config!Pick => Config!Inv'
<1> SUFFICES ASSUME Config!Inv, Config!Pick PROVE Config!Inv'
  OBVIOUS
<1>1. PICK name \in Themes \ {running.theme} :
        /\ running' = [running EXCEPT !.theme = name, !.picked = TRUE]
        /\ writes' = writes \cup {[n |-> picks', name |-> name, read |-> FALSE]}
  BY Zenon DEF Config!Pick
<1>2. /\ picks < MaxPicks /\ picks' = picks + 1 /\ running.up
      /\ UNCHANGED <<authored, overlay, legacy, written>>
      /\ missed' = IF writes # {} THEN missed \cup {"overlapped"} ELSE missed
  BY DEF Config!Pick, Config!Files
<1>3. Config!TypeOK'
  <2>1. running' \in [up : BOOLEAN, theme : Themes, picked : BOOLEAN]
    BY <1>1 DEF Config!Inv, Config!TypeOK
  <2>2. picks' \in 1 .. MaxPicks
    BY <1>2, FilesAssumption DEF Config!Inv, Config!TypeOK, Config!SettingsAssumption
  <2>3. [n |-> picks', name |-> name, read |-> FALSE] \in Config!Save
    BY <2>2 DEF Config!Save
  <2>4. writes' \subseteq Config!Save
    BY <1>1, <2>3 DEF Config!Inv, Config!TypeOK
  <2>5. missed' \subseteq {"overlapped", "failed"}
    BY <1>2 DEF Config!Inv, Config!TypeOK
  <2> QED BY <1>2, <2>1, <2>2, <2>4, <2>5 DEF Config!Inv, Config!TypeOK
<1>4. Config!Kept'
  BY <1>2 DEF Config!Inv, Config!Kept
<1>5. running'.up /\ running'.picked /\ running'.theme = name
  BY <1>1, <1>2 DEF Config!Inv, Config!TypeOK
<1>6. missed' = {} => writes = {}
  BY <1>2
<1>7. Config!UnderWay'
  <2> DEFINE t == [n |-> picks', name |-> name, read |-> FALSE]
  <2>1. missed' = {} => writes' = {t} /\ t \in writes' /\ t.name = name
    BY <1>1, <1>6
  <2> HIDE DEF t
  <2> QED BY <1>5, <2>1 DEF Config!UnderWay
<1> QED BY <1>3, <1>4, <1>7 DEF Config!Inv

LEMMA ConfigSaveKeeps ==
  ASSUME Config!Inv, NEW s \in writes, Config!ReadFiles(s) \/ Config!WriteOverlay(s)
  PROVE  Config!Inv'
<1>1. s \in Config!Save /\ running.up /\ running.picked
  BY DEF Config!Inv, Config!TypeOK, Config!UnderWay
<1>2. /\ UNCHANGED <<authored, legacy, running, picks>>
      /\ \/ /\ writes' = (writes \ {s}) \cup {[s EXCEPT !.read = TRUE]}
            /\ UNCHANGED <<overlay, written, missed>>
         \/ /\ writes' = writes \ {s} /\ missed' = missed \cup {"failed"}
            /\ UNCHANGED <<overlay, written>>
         \/ /\ writes' = writes \ {s} /\ UNCHANGED missed
            /\ overlay' = [is |-> "ok", theme |-> s.name] /\ written' = s.name
  BY DEF Config!ReadFiles, Config!WriteOverlay, Config!Files
<1>3. [s EXCEPT !.read = TRUE] \in Config!Save /\ [s EXCEPT !.read = TRUE].name = s.name
  BY <1>1 DEF Config!Save
<1>4. s.name \in Themes /\ [is |-> "ok", theme |-> s.name] \in Config!File
  BY <1>1 DEF Config!Save, Config!File, Config!Name
<1>5. Config!TypeOK'
  <2>1. writes' \subseteq Config!Save
    BY <1>2, <1>3 DEF Config!Inv, Config!TypeOK
  <2>2. overlay' \in Config!File /\ written' \in Themes \cup {Config!None}
    BY <1>2, <1>4 DEF Config!Inv, Config!TypeOK
  <2>3. missed' \subseteq {"overlapped", "failed"}
    BY <1>2 DEF Config!Inv, Config!TypeOK
  <2> QED BY <1>2, <2>1, <2>2, <2>3 DEF Config!Inv, Config!TypeOK
<1>6. Config!Kept'
  BY <1>2 DEF Config!Inv, Config!Kept
<1>7. Config!UnderWay'
  <2> SUFFICES ASSUME missed' = {}
               PROVE  \/ writes' = {} /\ written' = running.theme
                      \/ \E t \in writes' : writes' = {t} /\ t.name = running.theme
    BY <1>1, <1>2 DEF Config!UnderWay
  <2>1. missed = {} /\ writes = {s} /\ s.name = running.theme
    BY <1>1, <1>2 DEF Config!Inv, Config!UnderWay
  <2> QED BY <1>2, <1>3, <2>1
<1> QED BY <1>5, <1>6, <1>7 DEF Config!Inv

LEMMA ConfigInvStep == Config!Inv /\ [Config!Next]_configVars => Config!Inv'
<1> SUFFICES ASSUME Config!Inv, [Config!Next]_configVars PROVE Config!Inv'
  OBVIOUS
<1>1. CASE Config!Start
  <2> DEFINE name == Config!ResolveTheme(Config!Get(authored, overlay'))
  <2>1. /\ UNCHANGED <<authored, legacy, writes, picks, written, missed>> /\ ~running.up
        /\ running' = [up |-> TRUE, theme |-> name, picked |-> FALSE]
    BY <1>1 DEF Config!Start
  <2>2. name \in Themes
    BY FilesAssumption DEF Config!ResolveTheme, Config!SettingsAssumption
  <2>3. Config!Migrated \in Config!File
    BY DEF Config!Migrated, Config!File, Config!Name
  <2>4. overlay' \in Config!File /\ (written # Config!None => overlay' = overlay)
    BY <1>1, <2>3 DEF Config!Inv, Config!TypeOK, Config!Kept, Config!Start, Config!Migrates
  <2> HIDE DEF name
  <2>5. Config!TypeOK'
    BY <2>1, <2>2, <2>4 DEF Config!Inv, Config!TypeOK
  <2> QED BY <2>1, <2>4, <2>5 DEF Config!Inv, Config!Kept, Config!UnderWay
<1>2. CASE Config!Quit
  <2>1. /\ UNCHANGED <<authored, overlay, legacy, picks, written>> /\ writes' = {} /\ missed' = {}
        /\ running' = [running EXCEPT !.up = FALSE, !.picked = FALSE]
    BY <1>2 DEF Config!Quit, Config!Files
  <2>2. running' \in [up : BOOLEAN, theme : Themes, picked : BOOLEAN] /\ ~running'.up
    BY <2>1 DEF Config!Inv, Config!TypeOK
  <2>3. Config!TypeOK'
    BY <2>1, <2>2 DEF Config!Inv, Config!TypeOK
  <2> QED BY <2>1, <2>2, <2>3 DEF Config!Inv, Config!Kept, Config!UnderWay
<1>3. CASE Config!Edit
  BY <1>3 DEF Config!Edit, Config!Inv, Config!TypeOK, Config!Kept, Config!UnderWay
<1>4. CASE UNCHANGED configVars
  BY <1>4 DEF configVars, Config!Inv, Config!TypeOK, Config!Kept, Config!UnderWay
<1> QED BY <1>1, <1>2, <1>3, <1>4, ConfigPickKeeps, ConfigSaveKeeps DEF Config!Next

---------------------------- (* Update *) -----------------------------------
LEMMA BinaryInitInv == Binary!Init => Binary!Inv
<1> SUFFICES ASSUME Binary!Init PROVE Binary!Inv
  OBVIOUS
<1>1. exe = [build |-> 1, whole |-> TRUE, synced |-> TRUE] /\ exe \in Binary!File /\ kept = {exe}
  BY DEF Binary!Init, Binary!File, Binary!Build
<1>2. up = [u \in Updaters |-> Binary!Idle] /\ Binary!Idle \in Binary!Up
  BY DEF Binary!Init, Binary!Idle, Binary!Up, Binary!NoFile, Binary!File, Binary!None
<1>3. Binary!TypeOK
  BY <1>1, <1>2 DEF Binary!Init, Binary!TypeOK, Binary!Build, Binary!None
<1>4. Binary!Safe(exe)
  BY <1>1 DEF Binary!Init, Binary!Safe
<1>5. Binary!Idle.to = 0 /\ Binary!Idle.pc = "idle" /\ ~Binary!Idle.tmp.whole
  BY DEF Binary!Idle, Binary!NoFile, Binary!None
<1> QED BY <1>1, <1>2, <1>3, <1>4, <1>5 DEF Binary!Init, Binary!Inv

(* An updater's own step keeps the invariant if the record it moves to is   *)
(* one it may be in; the disk and the channel are left alone.               *)
LEMMA BinaryMoved ==
  ASSUME Binary!Inv, NEW u \in Updaters, NEW r \in Binary!Up, Binary!To(u, r), Binary!Channel, Binary!Disk,
         r.to \in 0 .. newest, r.pc = "fetched" => r.to # Binary!None,
         r.tmp.whole => r.tmp.build = r.to /\ r.pc = "fetched"
  PROVE  Binary!Inv'
<1>1. up' \in [Updaters -> Binary!Up] /\ up'[u] = r /\ \A w \in Updaters \ {u} : up'[w] = up[w]
  BY DEF Binary!Inv, Binary!TypeOK, Binary!To
<1>2. Binary!TypeOK'
  BY <1>1 DEF Binary!Inv, Binary!TypeOK, Binary!Channel, Binary!Disk
<1>3. exe' \in kept' /\ \A f \in kept' : Binary!Safe(f)'
  BY DEF Binary!Inv, Binary!Channel, Binary!Disk, Binary!Safe
<1> QED BY <1>1, <1>2, <1>3 DEF Binary!Inv, Binary!Channel

LEMMA BinaryFileKept == ASSUME NEW f \in Binary!File, NEW b \in BOOLEAN
                  PROVE  [f EXCEPT !.whole = b] \in Binary!File /\ [f EXCEPT !.synced = b] \in Binary!File
BY DEF Binary!File

LEMMA BinaryInvStep == Binary!Inv /\ [Binary!Next]_binaryVars => Binary!Inv'
<1> SUFFICES ASSUME Binary!Inv, [Binary!Next]_binaryVars PROVE Binary!Inv'
  OBVIOUS
<1> USE DEF Binary!None
<1>1. CASE Binary!Publish
  <2>1. newest' = newest + 1 /\ newest \in Nat \ {0} /\ live' = live \cup {newest'} /\ UNCHANGED <<exe, kept, up>>
    BY <1>1 DEF Binary!Publish, Binary!Disk, Binary!Inv, Binary!TypeOK, Binary!Build
  <2>2. Binary!TypeOK'
    BY <2>1 DEF Binary!Inv, Binary!TypeOK, Binary!Build
  <2>3. \A f \in kept' : Binary!Safe(f)'
    BY <2>1 DEF Binary!Inv, Binary!Safe
  <2> QED BY <2>1, <2>2, <2>3 DEF Binary!Inv
<1>2. CASE Binary!Withdraw
  BY <1>2 DEF Binary!Withdraw, Binary!Disk, Binary!Inv, Binary!TypeOK, Binary!Safe
<1>3. CASE Binary!PowerLoss
  <2>1. PICK f \in kept : exe' \in {f, [f EXCEPT !.whole = f.synced]}
    BY <1>3 DEF Binary!PowerLoss
  <2>2. Binary!Safe(f) /\ exe' = f
    BY <2>1 DEF Binary!Inv, Binary!Safe, Binary!File
  <2>3. Binary!Idle \in Binary!Up /\ Binary!Idle.to = 0 /\ Binary!Idle.pc = "idle" /\ ~Binary!Idle.tmp.whole
    BY DEF Binary!Idle, Binary!Up, Binary!NoFile, Binary!File
  <2>4. kept' = {f} /\ up' = [w \in Updaters |-> Binary!Idle] /\ UNCHANGED <<live, newest>>
    BY <1>3, <2>2 DEF Binary!PowerLoss, Binary!Channel
  <2>5. Binary!TypeOK'
    BY <2>2, <2>3, <2>4 DEF Binary!Inv, Binary!TypeOK, Binary!Safe
  <2>6. exe' \in kept' /\ \A g \in kept' : Binary!Safe(g)'
    BY <2>2, <2>4 DEF Binary!Safe
  <2>7. newest \in Nat
    BY DEF Binary!Inv, Binary!TypeOK, Binary!Build
  <2> QED BY <2>3, <2>4, <2>5, <2>6, <2>7 DEF Binary!Inv
<1>4. ASSUME NEW u \in Updaters, Binary!Updater(u) PROVE Binary!Inv'
  <2>1. /\ up[u] \in Binary!Up /\ up[u].to \in 0 .. newest
        /\ up[u].pc = "fetched" => up[u].to # Binary!None
        /\ up[u].tmp.whole => up[u].tmp.build = up[u].to /\ up[u].pc = "fetched"
    BY DEF Binary!Inv, Binary!TypeOK
  <2>2. live \subseteq 1 .. newest /\ newest \in Nat \ {0}
    BY DEF Binary!Inv, Binary!TypeOK, Binary!Build
  <2>3. Binary!Idle \in Binary!Up /\ Binary!Idle.to = 0 /\ Binary!Idle.pc = "idle" /\ ~Binary!Idle.tmp.whole
    BY DEF Binary!Idle, Binary!Up, Binary!NoFile, Binary!File
  <2>4. CASE Binary!Pick(u)
    <3>1. PICK b \in live : Binary!To(u, [pc |-> "picked", to |-> b, tmp |-> Binary!NoFile])
      BY <2>4 DEF Binary!Pick, Binary!Picks
    <3>2. [pc |-> "picked", to |-> b, tmp |-> Binary!NoFile] \in Binary!Up /\ ~Binary!NoFile.whole
      BY <2>2 DEF Binary!Up, Binary!NoFile, Binary!File, Binary!Build
    <3> QED BY <2>2, <2>4, <3>1, <3>2, BinaryMoved DEF Binary!Pick
  <2>5. CASE Binary!Claim(u)
    <3>1. [up[u] EXCEPT !.pc = "claimed"] \in Binary!Up /\ ~up[u].tmp.whole
      BY <2>1, <2>5 DEF Binary!Claim, Binary!Up
    <3> QED BY <2>1, <2>5, <3>1, BinaryMoved DEF Binary!Claim, Binary!Up
  <2>6. CASE Binary!Download(u)
    <3>1. [up[u] EXCEPT !.pc = "fetched"] \in Binary!Up /\ ~up[u].tmp.whole /\ up[u].to # Binary!None
      BY <2>1, <2>2, <2>6 DEF Binary!Download, Binary!Up
    <3> QED BY <2>1, <2>6, <3>1, BinaryMoved DEF Binary!Download, Binary!Up
  <2>7. CASE Binary!Write(u)
    <3> DEFINE f == [build |-> up[u].to, whole |-> TRUE, synced |-> FALSE]
    <3>1. f \in Binary!File
      BY <2>1 DEF Binary!File, Binary!Up
    <3>2. [up[u] EXCEPT !.tmp = f] \in Binary!Up
      BY <2>1, <3>1 DEF Binary!Up
    <3> QED BY <2>1, <2>7, <3>2, BinaryMoved DEF Binary!Write, Binary!Up
  <2>8. CASE Binary!Sync(u)
    <3>1. [up[u] EXCEPT !.tmp.synced = TRUE] \in Binary!Up
      BY <2>1 DEF Binary!Up, Binary!File
    <3> QED BY <2>1, <2>8, <3>1, BinaryMoved DEF Binary!Sync, Binary!Up, Binary!File
  <2>9. CASE Binary!Rename(u)
    <3> DEFINE r == [up[u] EXCEPT !.pc = "renamed", !.tmp = Binary!NoFile]
    <3>1. r \in Binary!Up /\ r.to = up[u].to /\ r.pc = "renamed" /\ r.tmp = Binary!NoFile /\ ~Binary!NoFile.whole
      BY <2>1 DEF Binary!Up, Binary!NoFile, Binary!File
    <3>2. Binary!Safe(up[u].tmp)
      BY <2>1, <2>2, <2>9 DEF Binary!Rename, Binary!Ready, Binary!Safe, Binary!Up
    <3>3. exe' = up[u].tmp /\ kept' = kept \cup {exe'} /\ Binary!To(u, r) /\ UNCHANGED <<live, newest>>
      BY <2>9 DEF Binary!Rename, Binary!Channel
    <3> HIDE DEF r
    <3>4. up' \in [Updaters -> Binary!Up] /\ up'[u] = r /\ \A w \in Updaters \ {u} : up'[w] = up[w]
      BY <3>1, <3>3 DEF Binary!Inv, Binary!TypeOK, Binary!To
    <3>5. \A g \in kept' : Binary!Safe(g)'
      BY <3>2, <3>3 DEF Binary!Inv, Binary!Safe
    <3>6. Binary!TypeOK'
      BY <3>2, <3>3, <3>4 DEF Binary!Inv, Binary!TypeOK, Binary!Safe
    <3> QED BY <2>1, <3>1, <3>3, <3>4, <3>5, <3>6 DEF Binary!Inv
  <2>10. CASE Binary!SyncDir(u)
    <3>1. exe' = exe /\ kept' \in {{exe}, kept} /\ Binary!To(u, Binary!Idle) /\ UNCHANGED <<live, newest>>
      BY <2>10 DEF Binary!SyncDir, Binary!Channel
    <3>2. up' \in [Updaters -> Binary!Up] /\ up'[u] = Binary!Idle /\ \A w \in Updaters \ {u} : up'[w] = up[w]
      BY <2>3, <3>1 DEF Binary!Inv, Binary!TypeOK, Binary!To
    <3>3. exe' \in kept' /\ \A g \in kept' : Binary!Safe(g)'
      BY <3>1 DEF Binary!Inv, Binary!Safe
    <3>4. Binary!TypeOK'
      BY <3>1, <3>2 DEF Binary!Inv, Binary!TypeOK
    <3> QED BY <2>2, <2>3, <3>1, <3>2, <3>3, <3>4 DEF Binary!Inv
  <2>11. CASE Binary!Fail(u) \/ Binary!Kill(u)
    BY <2>2, <2>3, <2>11, BinaryMoved DEF Binary!Fail, Binary!Kill
  <2> QED BY <1>4, <2>4, <2>5, <2>6, <2>7, <2>8, <2>9, <2>10, <2>11 DEF Binary!Updater
<1>5. CASE UNCHANGED binaryVars
  BY <1>5 DEF binaryVars, Binary!Inv, Binary!TypeOK, Binary!Safe
<1> QED BY <1>1, <1>2, <1>3, <1>4, <1>5 DEF Binary!Next


---------------------------- (* all of it *) --------------------------------
Inv == /\ part = "state" => States!Inv
       /\ part = "config" => Config!Inv
       /\ part = "binary" => Binary!Inv

LEMMA InitInv == Init => Inv
BY StatesInitInv, ConfigInitInv, BinaryInitInv DEF Init, Inv

LEMMA InvStep == Inv /\ [Next]_v => Inv'
<1> SUFFICES ASSUME Inv, [Next]_v PROVE Inv'
  OBVIOUS
<1>1. CASE part = "state"
  <2>1. part' = part /\ [States!Next]_stateVars
    BY <1>1 DEF Next, v
  <2> QED BY <1>1, <2>1, StatesInvStep DEF Inv
<1>2. CASE part = "config"
  <2>1. part' = part /\ [Config!Next]_configVars
    BY <1>2 DEF Next, v
  <2> QED BY <1>2, <2>1, ConfigInvStep DEF Inv
<1>3. CASE part = "binary"
  <2>1. part' = part /\ [Binary!Next]_binaryVars
    BY <1>3 DEF Next, v
  <2> QED BY <1>3, <2>1, BinaryInvStep DEF Inv
<1> QED BY <1>1, <1>2, <1>3 DEF Next, v, Inv

LEMMA InvHolds == Spec => []Inv
BY InitInv, InvStep, PTL DEF Spec

(* state.go's Save, run.go's statePersister: a context's file holds what was *)
(* picked on that context, and while no two saves of it overlapped, and the *)
(* last did not fail, with none under way it holds all that the shell       *)
(* shows.                                                                   *)
THEOREM SavesCorrect == Spec => []SavesCarryOneAnother
<1>1. Inv => SavesCarryOneAnother
  <2> SUFFICES ASSUME part = "state", States!Inv PROVE States!SavesCarryOneAnother
    BY DEF Inv, SavesCarryOneAnother, States!Inv, States!Sound
  <2> SUFFICES ASSUME States!SameFile(shell.ctx) = {}, ~mixed, ~failed PROVE States!Agrees
    BY DEF States!SavesCarryOneAnother
  <2>1. States!Held = States!Now /\ States!Written
    <3>1. States!OneAtATime
      BY DEF States!Inv, States!Sound
    <3>2. \A s \in saves : States!SameFile(shell.ctx) # {s}
      OBVIOUS
    <3> QED BY <3>1, <3>2 DEF States!OneAtATime
  <2>2. States!Load(disk[shell.ctx]) = States!Now
    BY <2>1 DEF States!Written
  <2> QED BY <2>2 DEF States!Agrees, States!Now
<1> QED BY <1>1, InvHolds, PTL

(* panememory.go's restoreLastResource and handleRestoreDrill: the pane a   *)
(* context remembers never takes the place of one the reader opened.        *)
THEOREM MemoryCorrect == Spec => MemoryYields
<1>1. Inv /\ [Next]_v => [part = "state" => States!Yields]_v
  <2> SUFFICES ASSUME Inv, Next, part = "state" PROVE States!Yields
    BY DEF v
  <2>1. States!TypeOK /\ [States!Next]_stateVars
    BY DEF Inv, States!Inv, Next
  <2>2. UNCHANGED shell => States!Yields
    BY DEF States!Yields
  <2> QED BY <2>1, <2>2, StatesYields
<1> QED BY <1>1, InvHolds, PTL DEF Spec, MemoryYields

(* run.go's maybeMigrate, theme.go's PersistTheme: a pick once written is   *)
(* what the files say, whatever is edited, migrated or cut short; a shell   *)
(* whose writes went one at a time has written the theme it wears.          *)
THEOREM PicksCorrect == Spec => []PicksStayWritten
<1>1. Inv => PicksStayWritten
  BY FilesAssumption
     DEF Inv, Config!Inv, Config!TypeOK, Config!Kept, Config!UnderWay, Config!PicksStayWritten,
         Config!Get, Config!SettingsAssumption, PicksStayWritten
<1> QED BY <1>1, InvHolds, PTL

(* update.go's install: killed or unplugged at any step, and with any       *)
(* number of updates at once, the file under the binary's name is a whole   *)
(* build that was published.                                                *)
THEOREM BinaryCorrect == Spec => []BinaryIsWhole
<1>1. Inv => BinaryIsWhole
  BY DEF Inv, Binary!Inv, Binary!Safe, Binary!BinaryIsWhole, BinaryIsWhole
<1> QED BY <1>1, InvHolds, PTL
=============================================================================
