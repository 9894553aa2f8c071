---------------------------- MODULE SearchProofs ----------------------------
(***************************************************************************)
(* The cluster search keeps, for any objects, queries and bounds: hits of  *)
(* the query and scopes on screen as long as nothing overtakes a change,   *)
(* the reader's hit under the cursor as the ranked list grows, and, with   *)
(* the first delta that finds it displayed, the cursor on the row awaited.  *)
(***************************************************************************)
EXTENDS Search, Integers, FiniteSetTheorems, TLAPS

-------------------------- (* the ranked list *) ---------------------------
(* What InsertAt makes of a sequence: the elements from i on move up one.  *)
LEMMA InsertAtIs ==
  ASSUME NEW s \in Seq(Hit), NEW e \in Hit, NEW i \in 1 .. (Len(s) + 1)
  PROVE /\ InsertAt(s, i, e) \in Seq(Hit)
        /\ Len(InsertAt(s, i, e)) = Len(s) + 1
        /\ \A j \in 1 .. (Len(s) + 1) :
             InsertAt(s, i, e)[j] = IF j < i THEN s[j] ELSE IF j = i THEN e ELSE s[j - 1]
PROOF
<1> DEFINE a == SubSeq(s, 1, i - 1)
           b == SubSeq(s, i, Len(s))
           ae == a \o <<e>>
<1>1. a \in Seq(Hit) /\ Len(a) = i - 1 /\ \A j \in 1 .. (i - 1) : a[j] = s[j]
  OBVIOUS
<1>2. b \in Seq(Hit) /\ Len(b) = Len(s) - i + 1 /\ \A j \in 1 .. (Len(s) - i + 1) : b[j] = s[i + j - 1]
  OBVIOUS
<1>3. <<e>> \in Seq(Hit) /\ Len(<<e>>) = 1 /\ <<e>>[1] = e
  OBVIOUS
<1> HIDE DEF a, b
<1>4. /\ ae \in Seq(Hit) /\ Len(ae) = i
      /\ \A j \in 1 .. i : ae[j] = IF j < i THEN s[j] ELSE e
  BY <1>1, <1>3
<1> HIDE DEF ae
<1>5. InsertAt(s, i, e) = ae \o b
  BY DEF InsertAt, ae, a, b
<1>0. Len(s) \in Nat
  OBVIOUS
<1>6. /\ ae \o b \in Seq(Hit) /\ Len(ae \o b) = Len(s) + 1
      /\ \A j \in 1 .. (Len(s) + 1) : (ae \o b)[j] = IF j <= i THEN ae[j] ELSE b[j - i]
  <2>1. ae \in Seq(Hit) /\ b \in Seq(Hit) /\ Len(ae) + Len(b) = Len(s) + 1
    BY <1>0, <1>2, <1>4
  <2>2. /\ ae \o b \in Seq(Hit) /\ Len(ae \o b) = Len(ae) + Len(b)
        /\ \A j \in 1 .. (Len(ae) + Len(b)) :
             (ae \o b)[j] = IF j <= Len(ae) THEN ae[j] ELSE b[j - Len(ae)]
    BY <2>1
  <2> QED  BY <2>1, <2>2, <1>4
<1>7. ASSUME NEW j \in 1 .. (Len(s) + 1)
      PROVE (ae \o b)[j] = IF j < i THEN s[j] ELSE IF j = i THEN e ELSE s[j - 1]
  <2>1. CASE j <= i
    BY <2>1, <1>4, <1>6
  <2>2. CASE j > i
    <3>1. j - i \in 1 .. (Len(s) - i + 1) /\ i + (j - i) - 1 = j - 1
      BY <2>2
    <3>2. b[j - i] = s[i + (j - i) - 1]
      BY <3>1, <1>2
    <3> QED  BY <3>1, <3>2, <2>2, <1>6
  <2>3. j <= i \/ j > i
    BY <1>0
  <2> QED  BY <2>1, <2>2, <2>3
<1> QED  BY <1>5, <1>6, <1>7

(* The hits of a list are hits, and their scores numbers.                  *)
LEMMA HitsOf ==
  ASSUME NEW hits \in Seq(Hit)
  PROVE \A i \in DOMAIN hits : hits[i] \in Hit /\ hits[i].score \in Nat
PROOF
<1> TAKE i \in DOMAIN hits
<1>1. hits[i] \in Hit
  OBVIOUS
<1>2. hits[i].score \in Score
  BY <1>1 DEF Hit
<1> QED  BY <1>1, <1>2, SearchAssumption

(* In a ranked list, RankIndex is the place just after the last hit that   *)
(* scores no less.                                                         *)
LEMMA RankIndexIs ==
  ASSUME NEW hits \in Seq(Hit), Ranked(hits), NEW s \in Nat
  PROVE /\ RankIndex(hits, s) \in 1 .. (Len(hits) + 1)
        /\ \A i \in DOMAIN hits : i < RankIndex(hits, s) <=> hits[i].score >= s
PROOF
<1> DEFINE above == {i \in DOMAIN hits : hits[i].score >= s}
           c == Cardinality(above)
<1>1. DOMAIN hits = 1 .. Len(hits) /\ Len(hits) \in Nat /\ above \subseteq 1 .. Len(hits)
  OBVIOUS
<1>2. \A i \in DOMAIN hits : hits[i].score \in Nat
  BY HitsOf
<1>3. /\ IsFiniteSet(1 .. Len(hits)) /\ Cardinality(1 .. Len(hits)) = Len(hits)
  BY <1>1, FS_Interval
<1>4. IsFiniteSet(above) /\ c \in Nat /\ c <= Len(hits)
  BY <1>1, <1>3, FS_Subset, FS_CardinalityType
<1>5. \A i \in above : 1 .. i \subseteq above
  <2> SUFFICES ASSUME NEW i \in above, NEW j \in 1 .. i  PROVE j \in above
    OBVIOUS
  <2>1. i \in DOMAIN hits /\ j \in DOMAIN hits /\ hits[i].score >= s
    BY <1>1
  <2>2. hits[j].score >= hits[i].score
    <3>1. CASE j = i
      BY <3>1, <2>1, <1>2
    <3>2. CASE j < i
      BY <3>2, <2>1 DEF Ranked
    <3> QED  BY <3>1, <3>2, <1>1
  <2> QED  BY <2>1, <2>2, <1>2
<1>6. above \subseteq 1 .. c
  <2> SUFFICES ASSUME NEW i \in above  PROVE i <= c
    BY <1>1, <1>4
  <2>1. i \in Nat /\ i >= 1 /\ 1 .. i \subseteq above
    BY <1>1, <1>5
  <2>2. Cardinality(1 .. i) = i
    BY <2>1, FS_Interval
  <2> QED  BY <2>1, <2>2, <1>4, FS_Subset
<1>7. IsFiniteSet(1 .. c) /\ Cardinality(1 .. c) = c
  BY <1>4, FS_Interval
<1>8. above = 1 .. c
  <2>1. above \in SUBSET (1 .. c) /\ Cardinality(1 .. c) = Cardinality(above)
    BY <1>6, <1>7
  <2> QED  BY <2>1, <1>7, FS_Subset
<1>9. RankIndex(hits, s) = c + 1
  BY <1>4 DEF RankIndex
<1>10. \A i \in DOMAIN hits : i \in above <=> hits[i].score >= s
  OBVIOUS
<1> HIDE DEF above, c
<1> QED  BY <1>1, <1>4, <1>8, <1>9, <1>10

(* A hit that comes in at its rank keeps the list ranked, and the cursor   *)
(* on the hit it was on.                                                   *)
LEMMA AppendHitKeeps ==
  ASSUME NEW v \in View, NEW h \in Hit, Ranked(v.hits),
         v.cursor \in DOMAIN v.hits \cup {1},
         NEW w, w = AppendHit(v, h)
  PROVE /\ w \in View /\ Ranked(w.hits) /\ w.cursor \in DOMAIN w.hits
        /\ v.hits # <<>> => w.hits[w.cursor] = v.hits[v.cursor]
        /\ \A i \in DOMAIN w.hits : w.hits[i] = h \/ \E j \in DOMAIN v.hits : w.hits[i] = v.hits[j]
        /\ w.active = v.active /\ w.query = v.query /\ w.scope = v.scope
PROOF
<1> PICK hits : hits = v.hits
  OBVIOUS
<1> DEFINE n == Len(hits)
           at == RankIndex(hits, h.score)
           new == InsertAt(hits, at, h)
<1>1. hits \in Seq(Hit) /\ n \in Nat /\ DOMAIN hits = 1 .. n /\ h.score \in Nat /\ v.cursor \in Nat
  <2>1. hits \in Seq(Hit) /\ v.cursor \in Nat
    BY DEF View
  <2>2. h.score \in Score
    BY DEF Hit
  <2>3. n \in Nat /\ DOMAIN hits = 1 .. n
    BY <2>1
  <2> QED  BY <2>1, <2>2, <2>3, SearchAssumption
<1>2. /\ at \in 1 .. (n + 1)
      /\ \A i \in DOMAIN hits : i < at <=> hits[i].score >= h.score
  BY <1>1, RankIndexIs
<1> HIDE DEF at
<1>3. /\ new \in Seq(Hit) /\ Len(new) = n + 1
      /\ \A j \in 1 .. (n + 1) :
           new[j] = IF j < at THEN hits[j] ELSE IF j = at THEN h ELSE hits[j - 1]
  <2>1. hits \in Seq(Hit) /\ h \in Hit /\ at \in 1 .. (Len(hits) + 1)
    BY <1>1, <1>2
  <2>2. /\ InsertAt(hits, at, h) \in Seq(Hit)
        /\ Len(InsertAt(hits, at, h)) = Len(hits) + 1
        /\ \A j \in 1 .. (Len(hits) + 1) :
             InsertAt(hits, at, h)[j] = IF j < at THEN hits[j] ELSE IF j = at THEN h ELSE hits[j - 1]
    <3> HIDE DEF n, new
    <3> QED  BY <2>1, InsertAtIs
  <2> QED  BY <2>2
<1>4. w = [v EXCEPT !.hits = new, !.cursor = Carried(v, at)]
  BY DEF AppendHit, at
<1> HIDE DEF new, n
<1>5. DOMAIN new = 1 .. (n + 1)
  BY <1>3
<1>6. \A i \in DOMAIN hits : hits[i].score \in Nat
  BY <1>1, HitsOf
<1>7. /\ w.hits = new /\ w.cursor = Carried(v, at)
      /\ w.active = v.active /\ w.query = v.query /\ w.scope = v.scope
  BY <1>4 DEF View
<1>8. Ranked(new)
  <2> SUFFICES ASSUME NEW i \in 1 .. (n + 1), NEW j \in 1 .. (n + 1), i < j
               PROVE new[i].score >= new[j].score
    BY <1>5 DEF Ranked
  <2>1. CASE j < at
    <3>1. i \in DOMAIN hits /\ j \in DOMAIN hits /\ new[i] = hits[i] /\ new[j] = hits[j]
      BY <2>1, <1>1, <1>2, <1>3
    <3> QED  BY <3>1 DEF Ranked
  <2>2. CASE j = at
    <3>1. i \in DOMAIN hits /\ new[i] = hits[i] /\ new[j] = h /\ i < at
      BY <2>2, <1>1, <1>2, <1>3
    <3> QED  BY <3>1, <1>2
  <2>3. CASE j > at /\ i < at
    <3>1. i \in DOMAIN hits /\ j - 1 \in DOMAIN hits /\ new[i] = hits[i] /\ new[j] = hits[j - 1]
      BY <2>3, <1>1, <1>2, <1>3
    <3>2. ~(j - 1 < at)
      BY <2>3, <1>2
    <3>3. hits[i].score >= h.score /\ ~(hits[j - 1].score >= h.score)
      BY <3>1, <3>2, <2>3, <1>2
    <3> HIDE DEF new
    <3> QED  BY <3>1, <3>3, <1>1, <1>6
  <2>4. CASE j > at /\ i = at
    <3>1. j - 1 \in DOMAIN hits /\ new[i] = h /\ new[j] = hits[j - 1] /\ ~(j - 1 < at)
      BY <2>4, <1>1, <1>2, <1>3
    <3> QED  BY <3>1, <1>1, <1>2, <1>6
  <2>5. CASE j > at /\ i > at
    <3>1. /\ i - 1 \in DOMAIN hits /\ j - 1 \in DOMAIN hits /\ i - 1 < j - 1
          /\ new[i] = hits[i - 1] /\ new[j] = hits[j - 1]
      BY <2>5, <1>1, <1>2, <1>3
    <3> QED  BY <3>1 DEF Ranked
  <2> QED  BY <2>1, <2>2, <2>3, <2>4, <2>5, <1>2
<1>9. /\ w.cursor \in 1 .. (n + 1)
      /\ hits # <<>> => new[w.cursor] = hits[v.cursor]
  <2>1. CASE hits = <<>>
    <3>1. n = 0
      BY <2>1 DEF n
    <3>2. v.hits = hits
      OBVIOUS
    <3>3. DOMAIN v.hits = {}
      BY <3>1, <3>2, <1>1
    <3>4. v.cursor = 1 /\ w.cursor = v.cursor
      BY <2>1, <3>2, <3>3, <1>7 DEF Carried
    <3> QED  BY <2>1, <3>1, <3>4
  <2>2. CASE hits # <<>> /\ at <= v.cursor
    <3>1. v.cursor \in 1 .. n /\ w.cursor = v.cursor + 1
      BY <2>2, <1>1, <1>7 DEF Carried
    <3> QED  BY <3>1, <2>2, <1>1, <1>2, <1>3
  <2>3. CASE hits # <<>> /\ ~(at <= v.cursor)
    <3>1. v.cursor \in 1 .. n /\ w.cursor = v.cursor
      BY <2>3, <1>1, <1>7 DEF Carried
    <3> QED  BY <3>1, <2>3, <1>1, <1>2, <1>3
  <2> QED  BY <2>1, <2>2, <2>3
<1>10. w \in View
  <2>1. Carried(v, at) \in Nat
    BY <1>1, <1>7, <1>9
  <2> QED  BY <2>1, <1>3, <1>4 DEF View
<1>11. \A i \in 1 .. (n + 1) : new[i] = h \/ \E j \in DOMAIN hits : new[i] = hits[j]
  <2> TAKE i \in 1 .. (n + 1)
  <2>1. CASE i < at
    <3>1. i \in DOMAIN hits
      BY <2>1, <1>1, <1>2
    <3>2. new[i] = hits[i]
      BY <2>1, <1>3
    <3> QED  BY <3>1, <3>2
  <2>2. CASE i = at
    BY <2>2, <1>3
  <2>3. CASE i > at
    <3>1. i - 1 \in DOMAIN hits /\ new[i] = hits[i - 1]
      BY <2>3, <1>1, <1>2, <1>3
    <3> QED  BY <3>1
  <2> QED  BY <2>1, <2>2, <2>3, <1>2
<1> QED  BY <1>5, <1>7, <1>8, <1>9, <1>10, <1>11

---------------------- (* the view and the messages *) ----------------------
(* The views the handlers make are views, and an emptied list is ranked.   *)
LEMMA ViewsAre ==
  /\ Closed \in View /\ Closed.hits = <<>> /\ Closed.cursor = 1 /\ ~Closed.active
  /\ \A v \in View :
       /\ Clear(v) \in View /\ Clear(v).hits = <<>> /\ Clear(v).cursor = 1
       /\ Clear(v).active = v.active /\ Clear(v).scope = v.scope /\ Clear(v).query = v.query
       /\ \A to \in DOMAIN v.hits : Move(v, to) \in View /\ Move(v, to).cursor \in {v.cursor, to}
  /\ Ranked(<<>>)
PROOF
<1>1. Empty \in Query /\ <<>> \in Seq(Hit) /\ 1 \in Nat
  BY DEF Query
<1>2. Closed \in View /\ Closed.hits = <<>> /\ Closed.cursor = 1 /\ ~Closed.active
  BY <1>1 DEF Closed, View
<1>3. ASSUME NEW v \in View
      PROVE /\ Clear(v) \in View /\ Clear(v).hits = <<>> /\ Clear(v).cursor = 1
            /\ Clear(v).active = v.active /\ Clear(v).scope = v.scope /\ Clear(v).query = v.query
  BY <1>1 DEF Clear, View
<1>4. ASSUME NEW v \in View, NEW to \in DOMAIN v.hits
      PROVE Move(v, to) \in View /\ Move(v, to).cursor \in {v.cursor, to}
  <2>1. v.hits \in Seq(Hit)
    BY DEF View
  <2>2. to \in Nat
    BY <2>1
  <2> QED  BY <2>2 DEF Move, View
<1>5. Ranked(<<>>)
  BY DEF Ranked
<1> QED  BY <1>2, <1>3, <1>4, <1>5

(* What each kind of message carries.                                      *)
LEMMA MessagesAre ==
  ASSUME NEW m \in Message
  PROVE /\ m.type \in {"query", "scope", "closed", "tick", "pump", "selected"}
        /\ m.type = "query" => m.query \in Query
        /\ m.type = "tick" => m.gen \in Nat /\ m.query \in Text
        /\ m.type = "pump" => /\ m.gen \in Nat /\ m.of \in Asked
                              /\ \A b \in BOOLEAN : [m EXCEPT !.ended = b] \in Message
        /\ m.type = "selected" => m.object \in Object
PROOF
<1>1. CASE m \in [type : {"query"}, query : Query]
  BY <1>1
<1>2. CASE m \in [type : {"scope", "closed"}]
  BY <1>2
<1>3. CASE m \in [type : {"tick"}, gen : Nat, query : Text]
  BY <1>3
<1>4. CASE m \in [type : {"pump"}, gen : Nat, of : Asked, ended : BOOLEAN]
  <2>1. \A b \in BOOLEAN : [m EXCEPT !.ended = b] \in [type : {"pump"}, gen : Nat, of : Asked, ended : BOOLEAN]
    BY <1>4
  <2>2. \A b \in BOOLEAN : [m EXCEPT !.ended = b] \in Message
    BY <2>1 DEF Message
  <2>3. m.type = "pump" /\ m.gen \in Nat /\ m.of \in Asked
    BY <1>4
  <2> QED  BY <2>2, <2>3
<1>5. CASE m \in [type : {"selected"}, object : Object]
  BY <1>5
<1> QED  BY <1>1, <1>2, <1>3, <1>4, <1>5 DEF Message

(* The messages that are posted are messages.                              *)
LEMMA PostedAre ==
  /\ \A q \in Query : [type |-> "query", query |-> q] \in Message
  /\ [type |-> "scope"] \in Message /\ [type |-> "closed"] \in Message
  /\ \A o \in Object : [type |-> "selected", object |-> o] \in Message
  /\ \A g \in Nat, q \in Text : [type |-> "tick", gen |-> g, query |-> q] \in Message
  /\ \A g \in Nat, a \in Asked, b \in BOOLEAN :
       [type |-> "pump", gen |-> g, of |-> a, ended |-> b] \in Message
PROOF
<1>1. \A q \in Query : [type |-> "query", query |-> q] \in Message
  BY DEF Message
<1>2. [type |-> "scope"] \in Message /\ [type |-> "closed"] \in Message
  BY DEF Message
<1>3. \A o \in Object : [type |-> "selected", object |-> o] \in Message
  BY DEF Message
<1>4. \A g \in Nat, q \in Text : [type |-> "tick", gen |-> g, query |-> q] \in Message
  BY DEF Message
<1>5. \A g \in Nat, a \in Asked, b \in BOOLEAN :
        [type |-> "pump", gen |-> g, of |-> a, ended |-> b] \in Message
  BY DEF Message
<1> QED  BY <1>1, <1>2, <1>3, <1>4, <1>5

(* A scope axis flipped is a scope still.                                  *)
LEMMA FlippedIs ==
  ASSUME NEW s \in SUBSET Scope, NEW axis \in Scope
  PROVE SymDiff(s, {axis}) \in SUBSET Scope
PROOF
  BY DEF SymDiff

(* What a drill-in would open is an object.                                *)
LEMMA SelectedIs ==
  ASSUME TypeOK, Listed, Selected(view) # None
  PROVE Selected(view) \in Object
PROOF
<1>1. view.hits \in Seq(Hit) /\ view.hits # <<>>
  BY DEF TypeOK, View, Selected
<1>2. view.cursor \in DOMAIN view.hits
  BY <1>1 DEF Listed
<1>3. view.hits[view.cursor] \in Hit
  BY <1>1, <1>2
<1>4. view.hits[view.cursor].object \in Object
  BY <1>3 DEF Hit
<1> QED  BY <1>1, <1>4 DEF Selected

-------------------------- (* the type invariant *) -------------------------
(* The parts of the type an action is checked for.                         *)
ViewOK == view \in View
SearchOK == gen \in Nat /\ stream \in 0 .. gen
InboxOK == inbox \subseteq Message
TableOK ==
  /\ table \in [open : BOOLEAN, rows : SUBSET Object, shown : SUBSET Object,
                narrowed : BOOLEAN, cursor : Object \cup {None}]
  /\ table.shown \subseteq table.rows /\ (~table.narrowed => table.shown = table.rows)
  /\ table.cursor \in table.shown \cup {None}
  /\ target \in Object \cup {None} /\ uncovered \in BOOLEAN
KeysOK == keys \in 0 .. MaxKeys

LEMMA TypeParts == TypeOK <=> ViewOK /\ SearchOK /\ InboxOK /\ TableOK /\ KeysOK
PROOF
  BY DEF TypeOK, ViewOK, SearchOK, InboxOK, TableOK, KeysOK

LEMMA TypePartsNext == TypeOK' <=> ViewOK' /\ SearchOK' /\ InboxOK' /\ TableOK' /\ KeysOK'
PROOF
  BY DEF TypeOK, ViewOK, SearchOK, InboxOK, TableOK, KeysOK

(* A key press counts, within the bound.                                   *)
LEMMA KeyCounts ==
  ASSUME KeysOK, Key
  PROVE KeysOK'
PROOF
  BY SearchAssumption DEF KeysOK, Key

(* What leaves the table alone, and what opens it blank, leave it a table. *)
LEMMA TableKept ==
  ASSUME TableOK, UNCHANGED pane
  PROVE TableOK'
PROOF
  BY DEF TableOK, pane

LEMMA TableBlank ==
  ASSUME Watched, target' \in Object \cup {None}
  PROVE TableOK'
PROOF
  BY DEF TableOK, Watched, Blank

(* A search stopped is no search, of this generation or the next.          *)
LEMMA Stopped ==
  ASSUME SearchOK, StopSearch, gen' \in {gen, gen + 1}
  PROVE SearchOK'
PROOF
  BY DEF SearchOK, StopSearch

(* A key that posts nothing, or posts m.                                   *)
LEMMA InboxGrows ==
  ASSUME InboxOK, NEW m \in Message, Post(m)
  PROVE InboxOK'
PROOF
  BY DEF InboxOK, Post

LEMMA InboxSwaps ==
  ASSUME InboxOK, NEW m \in inbox, NEW new \in SUBSET Message, Swap(m, new)
  PROVE InboxOK'
PROOF
  BY DEF InboxOK, Swap

(* A pane whose rows and displayed rows go together is one, wherever among *)
(* those displayed its cursor is.                                          *)
LEMMA TableShows ==
  ASSUME TableOK, NEW rows \in SUBSET Object, NEW on \in BOOLEAN, NEW shown \in SUBSET Object,
         Displayed(rows, on, shown), NEW c \in shown \cup {None},
         table' = [table EXCEPT !.rows = rows, !.shown = shown, !.narrowed = on, !.cursor = c],
         target' \in Object \cup {None}, uncovered' \in BOOLEAN
  PROVE TableOK'
PROOF
<1>1. table' = [open |-> table.open, rows |-> rows, shown |-> shown, narrowed |-> on, cursor |-> c]
  BY DEF TableOK
<1>2. table.open \in BOOLEAN /\ c \in Object \cup {None}
  BY DEF TableOK
<1> QED  BY <1>1, <1>2 DEF TableOK, Displayed

LEMMA KeptShown ==
  ASSUME NEW shown \in SUBSET Object, NEW c \in Kept(shown)
  PROVE c \in shown \cup {None}
PROOF
  BY DEF Kept

LEMMA TypeRederive ==
  ASSUME TypeOK, NEW shown \in SUBSET Object, NEW on \in BOOLEAN, Rederive(shown, on),
         UNCHANGED <<view, gen, stream, inbox, target, keys>>
  PROVE TypeOK'
PROOF
<1>0. ViewOK /\ SearchOK /\ InboxOK /\ TableOK /\ KeysOK
  BY TypeParts
<1>1. ViewOK' /\ SearchOK' /\ InboxOK' /\ KeysOK'
  BY <1>0 DEF ViewOK, SearchOK, InboxOK, KeysOK
<1>2. PICK c \in Kept(shown) : table' = [table EXCEPT !.shown = shown, !.narrowed = on, !.cursor = c]
  BY DEF Rederive
<1>3. table' = [table EXCEPT !.rows = table.rows, !.shown = shown, !.narrowed = on, !.cursor = c]
  BY <1>0, <1>2 DEF TableOK
<1>4. /\ table.rows \in SUBSET Object /\ Displayed(table.rows, on, shown)
      /\ target' \in Object \cup {None} /\ uncovered' \in BOOLEAN
  BY <1>0 DEF TableOK, Rederive
<1>5. c \in shown \cup {None}
  BY <1>2, KeptShown
<1>6. TableOK'
  BY <1>0, <1>3, <1>4, <1>5, TableShows
<1> QED  BY <1>1, <1>6, TypePartsNext

LEMMA TypeKeys ==
  ASSUME TypeOK, Listed,
         \/ OpenSearch \/ DrillIn \/ Back \/ Quit \/ SelectResource
         \/ \E q \in Query : Type(q)
         \/ \E axis \in Scope : Toggle(axis)
         \/ \E i \in 1 .. MaxHits : MoveCursor(i)
         \/ \E o \in Object : MoveRow(o)
         \/ \E shown \in SUBSET Object, on \in BOOLEAN : Narrow(shown, on)
  PROVE TypeOK'
PROOF
<1>0. ViewOK /\ SearchOK /\ InboxOK /\ TableOK /\ KeysOK
  BY TypeParts
<1>1. CASE OpenSearch
  <2>1. ViewOK'
    BY <1>1, ViewsAre DEF OpenSearch, ViewOK, View
  <2>2. SearchOK' /\ InboxOK'
    BY <1>0, <1>1 DEF OpenSearch, SearchOK, InboxOK
  <2>3. TableOK' /\ KeysOK'
    BY <1>0, <1>1, TableKept, KeyCounts DEF OpenSearch
  <2> QED  BY <2>1, <2>2, <2>3, TypePartsNext
<1>2. CASE DrillIn
  <2>1. ViewOK' /\ SearchOK'
    BY <1>0, <1>2 DEF DrillIn, ViewOK, SearchOK
  <2>2. [type |-> "selected", object |-> Selected(view)] \in Message
    BY <1>2, SelectedIs, PostedAre DEF DrillIn
  <2>3. InboxOK'
    BY <1>0, <1>2, <2>2, InboxGrows DEF DrillIn
  <2>4. TableOK' /\ KeysOK'
    BY <1>0, <1>2, TableKept, KeyCounts DEF DrillIn
  <2> QED  BY <2>1, <2>3, <2>4, TypePartsNext
<1>3. CASE Back
  <2>0. SearchOK' /\ TableOK' /\ KeysOK'
    BY <1>0, <1>3, TableKept, KeyCounts DEF Back, SearchOK
  <2>1. ViewOK'
    <3>1. Clear(view) \in View /\ Empty \in Query
      BY <1>0, ViewsAre DEF ViewOK, Query
    <3>2. [Clear(view) EXCEPT !.query = Empty, !.searching = FALSE] \in View
      BY <3>1 DEF View
    <3>3. [view EXCEPT !.focus = "query"] \in View
      BY <1>0 DEF ViewOK, View
    <3> QED  BY <1>0, <1>3, <3>2, <3>3 DEF Back, ViewOK
  <2>2. InboxOK'
    <3>1. [type |-> "query", query |-> Empty] \in Message /\ [type |-> "closed"] \in Message
      BY PostedAre DEF Query
    <3>2. CASE UNCHANGED inbox
      BY <3>2, <1>0 DEF InboxOK
    <3>3. CASE Post([type |-> "query", query |-> Empty])
      BY <3>1, <3>3, <1>0, InboxGrows
    <3>4. CASE Post([type |-> "closed"])
      BY <3>1, <3>4, <1>0, InboxGrows
    <3> QED  BY <1>3, <3>2, <3>3, <3>4 DEF Back
  <2> QED  BY <2>0, <2>1, <2>2, TypePartsNext
<1>4. CASE Quit
  <2>1. ViewOK' /\ InboxOK'
    BY <1>0, <1>4 DEF Quit, CloseSearch, ViewOK, View, InboxOK
  <2>2. SearchOK' /\ TableOK' /\ KeysOK'
    BY <1>0, <1>4, Stopped, TableKept, KeyCounts DEF Quit, CloseSearch
  <2> QED  BY <2>1, <2>2, TypePartsNext
<1>5. CASE SelectResource
  <2>1. ViewOK' /\ SearchOK' /\ InboxOK'
    BY <1>0, <1>5 DEF SelectResource, ViewOK, SearchOK, InboxOK
  <2>2. TableOK' /\ KeysOK'
    BY <1>0, <1>5, TableBlank, KeyCounts DEF SelectResource
  <2> QED  BY <2>1, <2>2, TypePartsNext
<1>6. ASSUME NEW q \in Query, Type(q)
      PROVE TypeOK'
  <2>1. ViewOK'
    <3>1. Clear(view) \in View
      BY <1>0, ViewsAre DEF ViewOK
    <3> QED  BY <1>6, <3>1 DEF Type, ViewOK, View
  <2>2. InboxOK'
    BY <1>0, <1>6, PostedAre, InboxGrows DEF Type
  <2>3. SearchOK' /\ TableOK' /\ KeysOK'
    BY <1>0, <1>6, TableKept, KeyCounts DEF Type, SearchOK
  <2> QED  BY <2>1, <2>2, <2>3, TypePartsNext
<1>7. ASSUME NEW axis \in Scope, Toggle(axis)
      PROVE TypeOK'
  <2>1. ViewOK'
    <3>1. Clear(view) \in View /\ Clear(view).scope \in SUBSET Scope
      BY <1>0, ViewsAre DEF ViewOK, View
    <3>2. SymDiff(Clear(view).scope, {axis}) \in SUBSET Scope
      BY <3>1, FlippedIs
    <3> QED  BY <1>7, <3>1, <3>2 DEF Toggle, ViewOK, View
  <2>2. InboxOK'
    BY <1>0, <1>7, PostedAre, InboxGrows DEF Toggle
  <2>3. SearchOK' /\ TableOK' /\ KeysOK'
    BY <1>0, <1>7, TableKept, KeyCounts DEF Toggle, SearchOK
  <2> QED  BY <2>1, <2>2, <2>3, TypePartsNext
<1>8. ASSUME NEW i \in 1 .. MaxHits, MoveCursor(i)
      PROVE TypeOK'
  <2>1. ViewOK'
    BY <1>0, <1>8, ViewsAre DEF MoveCursor, ViewOK
  <2>2. SearchOK' /\ InboxOK'
    BY <1>0, <1>8 DEF MoveCursor, SearchOK, InboxOK
  <2>3. TableOK' /\ KeysOK'
    BY <1>0, <1>8, TableKept, KeyCounts DEF MoveCursor
  <2> QED  BY <2>1, <2>2, <2>3, TypePartsNext
<1>9. ASSUME NEW o \in Object, MoveRow(o)
      PROVE TypeOK'
  <2>1. ViewOK' /\ SearchOK' /\ InboxOK'
    BY <1>0, <1>9 DEF MoveRow, ViewOK, SearchOK, InboxOK
  <2>2. TableOK' /\ KeysOK'
    BY <1>0, <1>9 DEF MoveRow, TableOK, KeysOK
  <2> QED  BY <2>1, <2>2, TypePartsNext
<1>10. ASSUME NEW shown \in SUBSET Object, NEW on \in BOOLEAN, Narrow(shown, on)
       PROVE TypeOK'
  BY <1>10, TypeRederive DEF Narrow
<1> QED  BY <1>1, <1>2, <1>3, <1>4, <1>5, <1>6, <1>7, <1>8, <1>9, <1>10

LEMMA TypeRestart ==
  ASSUME TypeOK, NEW m \in inbox, NEW q \in Query, Restart(m, q), Stay
  PROVE TypeOK'
PROOF
<1>0. ViewOK /\ SearchOK /\ InboxOK /\ TableOK /\ KeysOK
  BY TypeParts
<1>1. SearchOK' /\ TableOK' /\ KeysOK'
  BY <1>0, Stopped, TableKept DEF Restart, Stay, KeysOK
<1>2. ViewOK'
  BY <1>0 DEF Restart, ViewOK, View
<1>3. InboxOK'
  <2>1. CASE q \in Text
    <3>1. gen' \in Nat
      BY <1>1 DEF SearchOK
    <3>2. [type |-> "tick", gen |-> gen', query |-> q] \in Message
      BY <2>1, <3>1, PostedAre
    <3> QED  BY <1>0, <2>1, <3>2, InboxSwaps DEF Restart
  <2>2. CASE q \notin Text
    BY <1>0, <2>2, InboxSwaps DEF Restart
  <2> QED  BY <2>1, <2>2
<1> QED  BY <1>1, <1>2, <1>3, TypePartsNext

LEMMA TypeHandle ==
  ASSUME TypeOK, Listed, NEW m \in inbox, Handle(m)
  PROVE TypeOK'
PROOF
<1>0. ViewOK /\ SearchOK /\ InboxOK /\ TableOK /\ KeysOK
  BY TypeParts
<1>m. m \in Message
  BY <1>0 DEF InboxOK
<1>q. view.query \in Query
  BY <1>0 DEF ViewOK, View
<1>1. CASE QueryChanged(m)
  BY <1>1, <1>m, MessagesAre, TypeRestart DEF QueryChanged
<1>2. CASE ScopeChanged(m)
  BY <1>2, <1>q, TypeRestart DEF ScopeChanged
<1>3. CASE SearchMsg(m)
  <2>0. TableOK' /\ KeysOK' /\ m.type = "pump"
    BY <1>0, <1>3, TableKept DEF SearchMsg, Stay, KeysOK
  <2>b. \A b \in BOOLEAN : [m EXCEPT !.ended = b] \in Message
    BY <2>0, <1>m, MessagesAre
  <2>1. CASE Drop(m)
    BY <2>0, <2>1, <1>0, InboxSwaps, TypePartsNext DEF Drop, ViewOK, SearchOK
  <2>2. ASSUME NEW o \in Object, NEW s \in Score,
               Pumped(m, AppendHit(view, [object |-> o, score |-> s, of |-> m.of]), FALSE)
        PROVE TypeOK'
    <3>1. m.of \in Asked
      BY <2>0, <1>m, MessagesAre
    <3>2. [object |-> o, score |-> s, of |-> m.of] \in Hit
      BY <3>1 DEF Hit
    <3>3. ViewOK'
      BY <1>0, <2>2, <3>2, AppendHitKeeps DEF Pumped, ViewOK, Listed
    <3>4. InboxOK' /\ SearchOK'
      BY <1>0, <2>2, <2>b, InboxSwaps DEF Pumped, SearchOK
    <3> QED  BY <2>0, <3>3, <3>4, TypePartsNext
  <2>3. ASSUME NEW capped \in BOOLEAN, Pumped(m, [view EXCEPT !.capped = capped], TRUE)
        PROVE TypeOK'
    <3>1. ViewOK'
      BY <1>0, <2>3 DEF Pumped, ViewOK, View
    <3>2. InboxOK' /\ SearchOK'
      BY <1>0, <2>3, <2>b, InboxSwaps DEF Pumped, SearchOK
    <3> QED  BY <2>0, <3>1, <3>2, TypePartsNext
  <2>4. CASE StopSearch /\ view' = [view EXCEPT !.searching = FALSE] /\ Swap(m, {}) /\ UNCHANGED gen
    <3>1. ViewOK' /\ SearchOK' /\ InboxOK'
      BY <1>0, <2>4, Stopped, InboxSwaps DEF ViewOK, View
    <3> QED  BY <2>0, <3>1, TypePartsNext
  <2> QED  BY <1>3, <2>1, <2>2, <2>3, <2>4 DEF SearchMsg
<1>4. CASE ViewClosed(m)
  <2>1. ViewOK' /\ InboxOK'
    BY <1>0, <1>4, InboxSwaps DEF ViewClosed, CloseSearch, ViewOK, View
  <2>2. SearchOK' /\ TableOK' /\ KeysOK'
    BY <1>0, <1>4, Stopped, TableKept DEF ViewClosed, CloseSearch, Stay, KeysOK
  <2> QED  BY <2>1, <2>2, TypePartsNext
<1>5. CASE HitSelected(m)
  <2>1. ViewOK' /\ InboxOK'
    BY <1>0, <1>5, InboxSwaps DEF HitSelected, CloseSearch, ViewOK, View
  <2>2. SearchOK' /\ KeysOK'
    BY <1>0, <1>5, Stopped DEF HitSelected, CloseSearch, KeysOK
  <2>3. TableOK'
    BY <1>5, <1>m, MessagesAre, TableBlank DEF HitSelected
  <2> QED  BY <2>1, <2>2, <2>3, TypePartsNext
<1>6. ASSUME NEW some \in BOOLEAN, Debounced(m, some)
      PROVE TypeOK'
  <2>0. TableOK' /\ KeysOK' /\ m.type = "tick"
    BY <1>0, <1>6, TableKept DEF Debounced, Stay, KeysOK
  <2>1. CASE Drop(m)
    BY <2>0, <2>1, <1>0, InboxSwaps, TypePartsNext DEF Drop, ViewOK, SearchOK
  <2>2. CASE view' = [view EXCEPT !.searching = FALSE] /\ Swap(m, {}) /\ UNCHANGED <<gen, stream>>
    <3>1. ViewOK' /\ SearchOK' /\ InboxOK'
      BY <1>0, <2>2, InboxSwaps DEF ViewOK, View, SearchOK
    <3> QED  BY <2>0, <3>1, TypePartsNext
  <2>3. CASE /\ view' = [view EXCEPT !.capped = FALSE] /\ stream' = gen /\ UNCHANGED gen
             /\ Swap(m, {[type |-> "pump", gen |-> gen, ended |-> FALSE,
                          of |-> [query |-> m.query, scope |-> view.scope]]})
    <3>0. ViewOK'
      BY <1>0, <2>3 DEF ViewOK, View
    <3>1. SearchOK'
      BY <1>0, <2>3 DEF SearchOK
    <3>2. [query |-> m.query, scope |-> view.scope] \in Asked
      BY <2>0, <1>0, <1>m, MessagesAre DEF ViewOK, View, Asked
    <3>3. [type |-> "pump", gen |-> gen, ended |-> FALSE,
           of |-> [query |-> m.query, scope |-> view.scope]] \in Message
      BY <1>0, <3>2, PostedAre DEF SearchOK
    <3>4. InboxOK'
      BY <1>0, <2>3, <3>3, InboxSwaps
    <3> QED  BY <2>0, <3>0, <3>1, <3>4, TypePartsNext
  <2> QED  BY <1>6, <2>1, <2>2, <2>3 DEF Debounced
<1> QED  BY <1>1, <1>2, <1>3, <1>4, <1>5, <1>6 DEF Handle

LEMMA TypeWatchEvent ==
  ASSUME TypeOK, NEW rows \in SUBSET Object, NEW shown \in SUBSET Object, WatchEvent(rows, shown)
  PROVE TypeOK'
PROOF
<1>0. ViewOK /\ SearchOK /\ InboxOK /\ TableOK /\ KeysOK
  BY TypeParts
<1>1. ViewOK' /\ SearchOK' /\ InboxOK' /\ KeysOK'
  BY <1>0 DEF WatchEvent, ViewOK, SearchOK, InboxOK, KeysOK
<1>2. PICK c \in Kept(shown) :
        table' = [table EXCEPT !.rows = rows, !.shown = shown,
                               !.cursor = IF Awaited(shown) THEN target ELSE c]
  BY DEF WatchEvent
<1>3. PICK d : d = IF Awaited(shown) THEN target ELSE c
  OBVIOUS
<1>4. d \in shown \cup {None}
  BY <1>2, <1>3, KeptShown DEF Awaited
<1>5. table' = [table EXCEPT !.rows = rows, !.shown = shown, !.narrowed = table.narrowed, !.cursor = d]
  BY <1>0, <1>2, <1>3 DEF TableOK
<1>6. /\ table.narrowed \in BOOLEAN /\ Displayed(rows, table.narrowed, shown)
      /\ target' \in Object \cup {None} /\ uncovered' \in BOOLEAN
  BY <1>0 DEF TableOK, WatchEvent
<1>7. TableOK'
  BY <1>0, <1>4, <1>5, <1>6, TableShows
<1> QED  BY <1>1, <1>7, TypePartsNext

LEMMA TypeRefresh ==
  ASSUME TypeOK, NEW shown \in SUBSET Object, Refresh(shown)
  PROVE TypeOK'
PROOF
  BY TypeRederive DEF Refresh

LEMMA TypeInit == Init => TypeOK
PROOF
<1> SUFFICES ASSUME Init  PROVE TypeOK
  OBVIOUS
<1>1. ViewOK
  BY ViewsAre DEF Init, ViewOK
<1>2. SearchOK /\ InboxOK
  BY DEF Init, SearchOK, InboxOK
<1>3. TableOK
  BY DEF Init, Blank, TableOK
<1>4. KeysOK
  BY SearchAssumption DEF Init, KeysOK
<1> QED  BY <1>1, <1>2, <1>3, <1>4, TypeParts

LEMMA TypeNext ==
  ASSUME TypeOK, Listed, Next
  PROVE TypeOK'
PROOF
  BY TypeKeys, TypeHandle, TypeWatchEvent, TypeRefresh DEF Next

--------------------------- (* the list kept *) ----------------------------
(* What Handle(m) may be, case by case, for a pump.                        *)
LEMMA PumpsAre ==
  ASSUME TypeOK, NEW m \in inbox, SearchMsg(m)
  PROVE /\ m.type = "pump" /\ m \in Message
        /\ \/ ~Current(m) /\ Drop(m)
           \/ /\ Current(m) /\ m.of \in Asked
              /\ \E o \in Object, s \in Score :
                   /\ [object |-> o, score |-> s, of |-> m.of] \in Hit
                   /\ Pumped(m, AppendHit(view, [object |-> o, score |-> s, of |-> m.of]), FALSE)
           \/ /\ Current(m)
              /\ \E capped \in BOOLEAN : Pumped(m, [view EXCEPT !.capped = capped], TRUE)
           \/ /\ Current(m)
              /\ StopSearch /\ view' = [view EXCEPT !.searching = FALSE] /\ Swap(m, {}) /\ UNCHANGED gen
PROOF
<1>1. m.type = "pump" /\ m \in Message
  BY DEF SearchMsg, TypeOK
<1>2. m.of \in Asked
  BY <1>1, MessagesAre
<1>3. \A o \in Object, s \in Score : [object |-> o, score |-> s, of |-> m.of] \in Hit
  BY <1>2 DEF Hit
<1> QED  BY <1>1, <1>2, <1>3 DEF SearchMsg

(* A view whose hits and cursor are v's, or whose list is emptied.         *)
SameList(v, w) == w.hits = v.hits /\ w.cursor = v.cursor
Emptied(w) == w.hits = <<>> /\ w.cursor = 1

(* Every step leaves the list as it was, empties it, moves the cursor in   *)
(* it, or takes a hit in at its rank.                                      *)
LEMMA ListSteps ==
  ASSUME TypeOK, Next
  PROVE \/ SameList(view, view') \/ Emptied(view')
        \/ \E to \in DOMAIN view.hits : view' = Move(view, to)
        \/ \E h \in Hit : view' = AppendHit(view, h)
PROOF
<1>0. view \in View
  BY DEF TypeOK
<1>v. \A a, b, f : /\ SameList(view, [view EXCEPT !.active = a])
                   /\ SameList(view, [view EXCEPT !.searching = b])
                   /\ SameList(view, [view EXCEPT !.capped = b])
                   /\ SameList(view, [view EXCEPT !.focus = f])
  BY <1>0 DEF SameList, View
<1>1. CASE OpenSearch
  BY <1>1, ViewsAre DEF OpenSearch, Emptied, View
<1>2. CASE DrillIn \/ SelectResource \/ \E o \in Object : MoveRow(o)
  BY <1>2 DEF DrillIn, SelectResource, MoveRow, SameList
<1>3. CASE Back
  <2>1. Clear(view) \in View /\ Clear(view).hits = <<>> /\ Clear(view).cursor = 1
    BY <1>0, ViewsAre
  <2>2. Emptied([Clear(view) EXCEPT !.query = Empty, !.searching = FALSE])
    BY <2>1 DEF Emptied, View
  <2>3. CASE UNCHANGED view
    BY <2>3 DEF SameList
  <2>4. CASE view' = [view EXCEPT !.focus = "query"]
    BY <2>4, <1>v
  <2>5. CASE view' = [Clear(view) EXCEPT !.query = Empty, !.searching = FALSE]
    BY <2>2, <2>5
  <2> QED  BY <1>3, <2>3, <2>4, <2>5 DEF Back
<1>4. CASE Quit
  BY <1>4, <1>v DEF Quit, CloseSearch
<1>5. ASSUME NEW q \in Query, Type(q)  PROVE Emptied(view')
  <2>1. Clear(view) \in View /\ Clear(view).hits = <<>> /\ Clear(view).cursor = 1
    BY <1>0, ViewsAre
  <2> QED  BY <1>5, <2>1 DEF Type, Emptied, View
<1>6. ASSUME NEW axis \in Scope, Toggle(axis)  PROVE Emptied(view')
  <2>1. Clear(view) \in View /\ Clear(view).hits = <<>> /\ Clear(view).cursor = 1
    BY <1>0, ViewsAre
  <2> QED  BY <1>6, <2>1 DEF Toggle, Emptied, View
<1>7. ASSUME NEW i \in 1 .. MaxHits, MoveCursor(i)
      PROVE \E to \in DOMAIN view.hits : view' = Move(view, to)
  BY <1>7 DEF MoveCursor
<1>8. ASSUME NEW m \in inbox, Handle(m)
      PROVE SameList(view, view') \/ \E h \in Hit : view' = AppendHit(view, h)
  <2>1. CASE QueryChanged(m) \/ ScopeChanged(m)
    BY <2>1, <1>v DEF QueryChanged, ScopeChanged, Restart
  <2>2. CASE SearchMsg(m)
    <3>1. CASE Drop(m)
      BY <3>1 DEF Drop, SameList
    <3> QED  BY <2>2, <3>1, <1>v, PumpsAre DEF Pumped
  <2>3. CASE ViewClosed(m) \/ HitSelected(m)
    BY <2>3, <1>v DEF ViewClosed, HitSelected, CloseSearch
  <2>4. ASSUME NEW some \in BOOLEAN, Debounced(m, some)  PROVE SameList(view, view')
    <3>1. CASE Drop(m)
      BY <3>1 DEF Drop, SameList
    <3> QED  BY <2>4, <3>1, <1>v DEF Debounced
  <2> QED  BY <1>8, <2>1, <2>2, <2>3, <2>4 DEF Handle
<1>9. ASSUME NEW rows \in SUBSET Object, NEW shown \in SUBSET Object, NEW on \in BOOLEAN,
             WatchEvent(rows, shown) \/ Refresh(shown) \/ Narrow(shown, on)
      PROVE SameList(view, view')
  BY <1>9 DEF WatchEvent, Refresh, Narrow, SameList
<1> QED  BY <1>1, <1>2, <1>3, <1>4, <1>5, <1>6, <1>7, <1>8, <1>9 DEF Next

LEMMA ListedNext ==
  ASSUME TypeOK, Listed, Next
  PROVE Listed'
PROOF
<1>0. view \in View
  BY DEF TypeOK
<1>1. CASE SameList(view, view')
  BY <1>1 DEF Listed, SameList
<1>2. CASE Emptied(view')
  BY <1>2, ViewsAre DEF Listed, Emptied
<1>3. ASSUME NEW to \in DOMAIN view.hits, view' = Move(view, to)
      PROVE Listed'
  <2>1. view.hits # <<>> /\ view'.hits = view.hits /\ view'.cursor = to
    BY <1>0, <1>3 DEF Move, View
  <2> QED  BY <2>1 DEF Listed
<1>4. ASSUME NEW h \in Hit, view' = AppendHit(view, h)
      PROVE Listed'
  BY <1>0, <1>4, AppendHitKeeps DEF Listed
<1> QED  BY <1>1, <1>2, <1>3, <1>4, ListSteps

------------------------- (* generations, and rows *) ------------------------
(* No message is of a generation to come.                                  *)
LEMMA NoneToComeNext ==
  ASSUME TypeOK, NoneToCome, Next
  PROVE NoneToCome'
PROOF
<1>0. /\ gen \in Nat /\ view.query \in Query
      /\ \A m \in inbox : m \in Message
  BY DEF TypeOK, View
<1>1. \A m \in inbox : Dated(m) => m.gen \in Nat
  BY <1>0, MessagesAre DEF Dated
(* It is enough that the generation stays or goes up by one, and that what *)
(* is new in flight is of the one it is now, or of none.                   *)
<1>2. SUFFICES /\ gen' \in {gen, gen + 1}
               /\ \A m \in inbox' : m \in inbox \/ ~Dated(m) \/ m.gen = gen'
  BY <1>0, <1>1 DEF NoneToCome, Dated
<1>3. CASE OpenSearch \/ SelectResource \/ \E o \in Object : MoveRow(o)
  BY <1>3 DEF OpenSearch, SelectResource, MoveRow
<1>4. CASE DrillIn
  BY <1>4 DEF DrillIn, Post, Dated
<1>5. CASE Back
  BY <1>5 DEF Back, Post, Dated
<1>6. CASE Quit
  BY <1>6 DEF Quit, CloseSearch
<1>7. CASE \E i \in 1 .. MaxHits : MoveCursor(i)
  BY <1>7 DEF MoveCursor
<1>8. ASSUME NEW q \in Query, Type(q)
      PROVE gen' = gen /\ \A m \in inbox' : m \in inbox \/ ~Dated(m)
  BY <1>8 DEF Type, Post, Dated
<1>9. ASSUME NEW axis \in Scope, Toggle(axis)
      PROVE gen' = gen /\ \A m \in inbox' : m \in inbox \/ ~Dated(m)
  BY <1>9 DEF Toggle, Post, Dated
<1>10. ASSUME NEW n \in inbox, Handle(n)
       PROVE /\ gen' \in {gen, gen + 1}
             /\ \A m \in inbox' : m \in inbox \/ ~Dated(m) \/ m.gen = gen'
  <2>1. ASSUME NEW q \in Query, Restart(n, q)
        PROVE /\ gen' = gen + 1
              /\ \A m \in inbox' : m \in inbox \/ m.gen = gen'
    BY <2>1 DEF Restart, Swap
  <2>2. CASE QueryChanged(n) \/ ScopeChanged(n)
    BY <2>1, <2>2, <1>0, MessagesAre DEF QueryChanged, ScopeChanged
  <2>3. CASE SearchMsg(n)
    <3>0. n \in Message /\ n.type = "pump"
      BY <2>3, PumpsAre
    <3>1. gen' = gen
      BY <2>3, PumpsAre DEF Drop, Pumped
    <3>2. CASE Current(n)
      <4>1. n.gen = gen
        BY <3>2 DEF Current
      <4>2. \A b : [n EXCEPT !.ended = b].gen = n.gen
        BY <3>0, MessagesAre DEF Message
      <4>3. \/ Swap(n, {}) \/ \E b \in BOOLEAN : Swap(n, {[n EXCEPT !.ended = b]})
        BY <2>3, <3>2, PumpsAre DEF Pumped
      <4> QED  BY <3>1, <4>1, <4>2, <4>3 DEF Swap
    <3>3. CASE ~Current(n)
      BY <2>3, <3>1, <3>3, PumpsAre DEF Drop, Swap
    <3> QED  BY <3>2, <3>3
  <2>4. CASE ViewClosed(n) \/ HitSelected(n)
    BY <2>4 DEF ViewClosed, HitSelected, CloseSearch, Swap
  <2>5. ASSUME NEW some \in BOOLEAN, Debounced(n, some)
        PROVE gen' = gen /\ \A m \in inbox' : m \in inbox \/ m.gen = gen'
    BY <2>5 DEF Debounced, Drop, Swap
  <2> QED  BY <1>10, <2>2, <2>3, <2>4, <2>5 DEF Handle
<1>11. ASSUME NEW rows \in SUBSET Object, NEW shown \in SUBSET Object, NEW on \in BOOLEAN,
              WatchEvent(rows, shown) \/ Refresh(shown) \/ Narrow(shown, on)
       PROVE gen' = gen /\ inbox' = inbox
  BY <1>11 DEF WatchEvent, Refresh, Narrow
<1> QED  BY <1>3, <1>4, <1>5, <1>6, <1>7, <1>8, <1>9, <1>10, <1>11 DEF Next

(* An awaited row displayed was uncovered since the last delta: a table    *)
(* opened blank displays none, the delta that finds the row displayed takes *)
(* the wait away, and what else changes the rows displayed is noted.       *)
LEMMA LandsNext ==
  ASSUME TypeOK, SelectionLands, Next
  PROVE SelectionLands'
PROOF
<1>1. ASSUME UNCHANGED pane  PROVE SelectionLands'
  BY <1>1 DEF SelectionLands, pane
<1>2. ASSUME Watched  PROVE SelectionLands'
  BY <1>2 DEF Watched, Blank, SelectionLands
<1>3. CASE OpenSearch \/ DrillIn \/ Back \/ Quit \/ \E i \in 1 .. MaxHits : MoveCursor(i)
  BY <1>1, <1>3 DEF OpenSearch, DrillIn, Back, Quit, MoveCursor
<1>4. CASE \/ \E q \in Query : Type(q)
           \/ \E axis \in Scope : Toggle(axis)
  BY <1>1, <1>4 DEF Type, Toggle
<1>5. CASE SelectResource
  BY <1>2, <1>5 DEF SelectResource
<1>6. ASSUME NEW o \in Object, MoveRow(o)  PROVE SelectionLands'
  <2>1. target' = target /\ table'.shown = table.shown /\ uncovered' = uncovered
    BY <1>6 DEF MoveRow, TypeOK
  <2> QED  BY <2>1 DEF SelectionLands
<1>7. ASSUME NEW m \in inbox, Handle(m)  PROVE SelectionLands'
  BY <1>1, <1>2, <1>7
  DEF Handle, QueryChanged, ScopeChanged, SearchMsg, ViewClosed, HitSelected, Debounced, Stay
<1>8. ASSUME NEW rows \in SUBSET Object, NEW shown \in SUBSET Object, WatchEvent(rows, shown)
      PROVE SelectionLands'
  <2>1. table'.shown = shown /\ target' = IF target \in shown THEN None ELSE target
    BY <1>8 DEF WatchEvent, Awaited, TypeOK
  <2>2. None \notin shown
    BY SearchAssumption
  <2> QED  BY <2>1, <2>2 DEF SelectionLands
<1>9. ASSUME NEW shown \in SUBSET Object, NEW on \in BOOLEAN, Refresh(shown) \/ Narrow(shown, on)
      PROVE SelectionLands'
  BY <1>9 DEF Refresh, Narrow, Rederive, SelectionLands
<1> QED  BY <1>3, <1>4, <1>5, <1>6, <1>7, <1>8, <1>9 DEF Next

------------------- (* hits of what is asked, if prompt *) -------------------
(* The reader presses a key while no change waits.                         *)
LEMMA KeyIsPrompt ==
  ASSUME Press, ~overtaken'
  PROVE ~overtaken /\ Changes = {}
PROOF
  BY DEF Press

(* The same search goes on: what comes into flight is of it or of none, and *)
(* so is every hit.                                                        *)
LEMMA PromptGoesOn ==
  ASSUME Changes = {}, CurrentInForce, gen' = gen,
         view'.active = view.active, view'.query = view.query, view'.scope = view.scope,
         \A m \in inbox' : \/ m \in inbox \/ m.type \in {"selected", "closed"}
                           \/ /\ m.type = "pump" /\ view.active
                              /\ m.of = [query |-> view.query, scope |-> view.scope],
         \A i \in DOMAIN view'.hits :
           view'.active => view'.hits[i].of = [query |-> view.query, scope |-> view.scope]
  PROVE Prompt'
PROOF
<1>1. \A m \in inbox : m.type \notin {"query", "scope"}
  BY DEF Changes
<1>2. Changes' = {}
  BY <1>1 DEF Changes
<1>3. HitsAreOfTheQuery'
  BY DEF HitsAreOfTheQuery
<1>4. CurrentInForce'
  <2> SUFFICES ASSUME NEW m \in inbox', Dated(m), m.gen = gen'
               PROVE view'.active /\ InForce(m)'
    BY DEF CurrentInForce, Dated
  <2>1. CASE m \in inbox
    BY <2>1 DEF CurrentInForce, InForce
  <2>2. CASE m \notin inbox
    BY <2>2 DEF Dated, InForce
  <2> QED  BY <2>1, <2>2
<1> QED  BY <1>2, <1>3, <1>4 DEF Prompt, ChangesWait

(* The search is over: what is in flight is of a generation gone by.       *)
LEMMA PromptOver ==
  ASSUME TypeOK, NoneToCome, Changes = {}, gen' = gen + 1, ~view'.active,
         inbox' \subseteq inbox
  PROVE Prompt'
PROOF
<1>0. gen \in Nat /\ \A m \in inbox : m \in Message
  BY DEF TypeOK
<1>1. Changes' = {}
  BY DEF Changes
<1>2. HitsAreOfTheQuery'
  BY DEF HitsAreOfTheQuery
<1>3. \A m \in inbox : Dated(m) => m.gen \in Nat /\ m.gen <= gen
  BY <1>0, MessagesAre DEF NoneToCome, Dated
<1>4. \A m \in inbox' : Dated(m) => m.gen # gen'
  BY <1>0, <1>3
<1>5. CurrentInForce'
  BY <1>4 DEF CurrentInForce, Dated
<1> QED  BY <1>1, <1>2, <1>5 DEF Prompt, ChangesWait

(* The reader changes the query or a scope: the list is empty until it is  *)
(* handled.                                                                *)
LEMMA PromptChange ==
  ASSUME Changes = {}, NEW m, m.type \in {"query", "scope"}, Post(m),
         view'.active, view'.hits = <<>>, m.type = "query" => m.query = view'.query
  PROVE Prompt'
PROOF
<1>1. Changes' = {m}
  BY DEF Changes, Post
<1>2. ChangesWait'
  BY <1>1 DEF ChangesWait
<1>3. CurrentInForce'
  BY <1>1 DEF CurrentInForce
<1>4. HitsAreOfTheQuery'
  BY DEF HitsAreOfTheQuery
<1> QED  BY <1>2, <1>3, <1>4 DEF Prompt

(* The change is handled: what the new generation asks for is on screen.   *)
LEMMA PromptRestart ==
  ASSUME TypeOK, NoneToCome, NEW m \in inbox, Restart(m, view.query),
         Changes \ {m} = {}, view.active, view.hits = <<>>
  PROVE Prompt'
PROOF
<1>0. /\ gen \in Nat /\ view \in View /\ gen' = gen + 1
      /\ \A n \in inbox : n \in Message
  BY DEF TypeOK, Restart
<1>1. /\ view'.active = view.active /\ view'.query = view.query
      /\ view'.scope = view.scope /\ view'.hits = view.hits
  BY <1>0 DEF Restart, View
<1>2. \A n \in inbox' : \/ n \in inbox \ {m}
                        \/ n = [type |-> "tick", gen |-> gen', query |-> view.query]
  BY DEF Restart, Swap
<1>3. Changes' = {}
  BY <1>2 DEF Changes
<1>4. \A n \in inbox : Dated(n) => n.gen # gen'
  BY <1>0, MessagesAre DEF NoneToCome, Dated
<1>5. CurrentInForce'
  <2> SUFFICES ASSUME NEW n \in inbox', Dated(n), n.gen = gen'
               PROVE view'.active /\ InForce(n)'
    BY DEF CurrentInForce, Dated
  <2>1. n = [type |-> "tick", gen |-> gen', query |-> view.query]
    BY <1>2, <1>4
  <2> QED  BY <2>1, <1>1 DEF InForce
<1>6. HitsAreOfTheQuery'
  BY <1>1 DEF HitsAreOfTheQuery
<1> QED  BY <1>3, <1>5, <1>6 DEF Prompt, ChangesWait

LEMMA PromptKeys ==
  ASSUME TypeOK, NoneToCome, Prompt, ~overtaken',
         \/ OpenSearch \/ DrillIn \/ Back \/ Quit \/ SelectResource
         \/ \E q \in Query : Type(q)
         \/ \E axis \in Scope : Toggle(axis)
         \/ \E i \in 1 .. MaxHits : MoveCursor(i)
         \/ \E o \in Object : MoveRow(o)
         \/ \E shown \in SUBSET Object, on \in BOOLEAN : Narrow(shown, on)
  PROVE Prompt'
PROOF
<1>0. view \in View
  BY DEF TypeOK
<1>1. Press
  BY DEF OpenSearch, DrillIn, Back, Quit, SelectResource, Type, Toggle, MoveCursor, MoveRow, Narrow, Key
<1>2. Changes = {} /\ CurrentInForce /\ HitsAreOfTheQuery
  BY <1>1, KeyIsPrompt DEF Prompt
<1>3. ASSUME UNCHANGED gen, view'.hits = view.hits,
             view'.active = view.active, view'.query = view.query, view'.scope = view.scope,
             \A m \in inbox' : m \in inbox \/ m.type \in {"selected", "closed"}
      PROVE Prompt'
  BY <1>2, <1>3, PromptGoesOn DEF HitsAreOfTheQuery
<1>4. CASE OpenSearch
  <2>1. view'.active /\ view'.hits = <<>> /\ ~view.active /\ gen' = gen /\ inbox' = inbox
    BY <1>4, ViewsAre DEF OpenSearch, Closed
  <2>2. Changes' = {}
    BY <1>2, <2>1 DEF Changes
  <2>3. HitsAreOfTheQuery'
    BY <2>1 DEF HitsAreOfTheQuery
  <2>4. CurrentInForce'
    BY <1>2, <2>1 DEF CurrentInForce, Dated
  <2> QED  BY <2>2, <2>3, <2>4 DEF Prompt, ChangesWait
<1>5. CASE DrillIn
  <2>1. UNCHANGED <<view, gen>> /\ Post([type |-> "selected", object |-> Selected(view)])
    BY <1>5 DEF DrillIn
  <2>2. \A m \in inbox' : m \in inbox \/ m.type = "selected"
    BY <2>1 DEF Post
  <2> QED  BY <1>3, <2>1, <2>2
<1>6. CASE Back
  <2>1. CASE /\ view' = [Clear(view) EXCEPT !.query = Empty, !.searching = FALSE]
             /\ Post([type |-> "query", query |-> Empty]) /\ view.active
    <3>1. Clear(view) \in View /\ Clear(view).hits = <<>> /\ Clear(view).active
      BY <1>0, <2>1, ViewsAre
    <3>2. view'.active /\ view'.hits = <<>> /\ view'.query = Empty
      BY <2>1, <3>1 DEF View
    <3> QED  BY <1>2, <2>1, <3>2, PromptChange
  <2>2. CASE UNCHANGED gen /\ view' = [view EXCEPT !.focus = "query"] /\ UNCHANGED inbox
    BY <1>0, <1>3, <2>2 DEF View
  <2>3. CASE UNCHANGED <<gen, view>> /\ Post([type |-> "closed"])
    BY <1>3, <2>3 DEF Post
  <2> QED  BY <1>6, <2>1, <2>2, <2>3 DEF Back
<1>7. CASE Quit
  <2>1. gen' = gen + 1 /\ ~view'.active /\ inbox' = inbox
    BY <1>0, <1>7 DEF Quit, CloseSearch, View
  <2> QED  BY <1>2, <2>1, PromptOver
<1>8. CASE \/ SelectResource \/ \E o \in Object : MoveRow(o)
           \/ \E shown \in SUBSET Object, on \in BOOLEAN : Narrow(shown, on)
  BY <1>3, <1>8 DEF SelectResource, MoveRow, Narrow
<1>9. ASSUME NEW q \in Query, Type(q)  PROVE Prompt'
  <2>1. Clear(view) \in View /\ Clear(view).hits = <<>> /\ Clear(view).active
    BY <1>0, <1>9, ViewsAre DEF Type
  <2>2. view'.active /\ view'.hits = <<>> /\ view'.query = q
    BY <1>9, <2>1 DEF Type, View
  <2>3. Post([type |-> "query", query |-> q])
    BY <1>9 DEF Type
  <2> QED  BY <1>2, <2>2, <2>3, PromptChange
<1>10. ASSUME NEW axis \in Scope, Toggle(axis)  PROVE Prompt'
  <2>1. Clear(view) \in View /\ Clear(view).hits = <<>> /\ Clear(view).active
    BY <1>0, <1>10, ViewsAre DEF Toggle
  <2>2. view'.active /\ view'.hits = <<>>
    BY <1>10, <2>1 DEF Toggle, View
  <2>3. Post([type |-> "scope"])
    BY <1>10 DEF Toggle
  <2> QED  BY <1>2, <2>2, <2>3, PromptChange
<1>11. ASSUME NEW i \in 1 .. MaxHits, MoveCursor(i)  PROVE Prompt'
  <2>1. /\ view'.hits = view.hits /\ view'.active = view.active
        /\ view'.query = view.query /\ view'.scope = view.scope
    BY <1>0, <1>11 DEF MoveCursor, Move, View
  <2> QED  BY <1>3, <1>11, <2>1 DEF MoveCursor
<1> QED  BY <1>4, <1>5, <1>6, <1>7, <1>8, <1>9, <1>10, <1>11

LEMMA PromptHandle ==
  ASSUME TypeOK, Listed, NoneToCome, Prompt, ~overtaken', NEW m \in inbox, Handle(m)
  PROVE Prompt'
PROOF
<1>0. view \in View /\ m \in Message
  BY DEF TypeOK
<1>1. ~overtaken /\ Changes \ {m} = {}
  BY DEF Handle, QueryChanged, ScopeChanged, SearchMsg, ViewClosed, HitSelected, Debounced, Overtakes
<1>2. ChangesWait /\ CurrentInForce /\ HitsAreOfTheQuery
  BY <1>1 DEF Prompt
<1>3. CASE QueryChanged(m)
  <2>1. m \in Changes
    BY <1>3 DEF QueryChanged, Changes
  <2>a. view.active /\ view.hits = <<>> /\ (m.type = "query" => m.query = view.query)
    BY <1>2, <2>1 DEF ChangesWait
  <2>2. view.active /\ view.hits = <<>> /\ m.query = view.query
    BY <1>3, <2>a DEF QueryChanged
  <2>3. Restart(m, view.query)
    BY <1>3, <2>2 DEF QueryChanged
  <2> QED  BY <1>1, <2>2, <2>3, PromptRestart
<1>4. CASE ScopeChanged(m)
  <2>1. m \in Changes
    BY <1>4 DEF ScopeChanged, Changes
  <2>a. view.active /\ view.hits = <<>>
    BY <1>2, <2>1 DEF ChangesWait
  <2>2. view.active /\ view.hits = <<>> /\ Restart(m, view.query)
    BY <1>4, <2>a DEF ScopeChanged
  <2> QED  BY <1>1, <2>2, PromptRestart
<1>5. CASE m.type \notin {"query", "scope"}
  <2>1. Changes = {}
    BY <1>1, <1>5 DEF Changes
  <2>2. ASSUME UNCHANGED gen, view'.hits = view.hits,
               view'.active = view.active, view'.query = view.query, view'.scope = view.scope,
               \A n \in inbox' : \/ n \in inbox
                                 \/ /\ n.type = "pump" /\ view.active
                                    /\ n.of = [query |-> view.query, scope |-> view.scope]
        PROVE Prompt'
    BY <1>2, <2>1, <2>2, PromptGoesOn DEF HitsAreOfTheQuery
  <2>3. ASSUME Drop(m)  PROVE Prompt'
    BY <2>2, <2>3 DEF Drop, Swap
  <2>4. \A b : /\ LET w == [view EXCEPT !.searching = b]
                  IN w.hits = view.hits /\ w.active = view.active /\ w.query = view.query /\ w.scope = view.scope
               /\ LET w == [view EXCEPT !.capped = b]
                  IN w.hits = view.hits /\ w.active = view.active /\ w.query = view.query /\ w.scope = view.scope
    BY <1>0 DEF View
  <2>5. CASE SearchMsg(m)
    <3>1. m.type = "pump"
      BY <2>5, PumpsAre
    <3>2. ASSUME Current(m)
          PROVE view.active /\ m.of = [query |-> view.query, scope |-> view.scope]
      BY <1>2, <2>1, <3>1, <3>2 DEF Current, CurrentInForce, Dated, InForce
    <3>3. ASSUME Current(m), NEW b \in BOOLEAN
          PROVE /\ [m EXCEPT !.ended = b].type = "pump" /\ view.active
                /\ [m EXCEPT !.ended = b].of = [query |-> view.query, scope |-> view.scope]
      BY <1>0, <3>1, <3>2, <3>3 DEF Message
    <3>4. ASSUME Current(m), NEW h \in Hit, h.of = m.of, Pumped(m, AppendHit(view, h), FALSE)
          PROVE Prompt'
      <4>1. /\ view'.active = view.active /\ view'.query = view.query /\ view'.scope = view.scope
            /\ \A i \in DOMAIN view'.hits :
                 view'.hits[i] = h \/ \E j \in DOMAIN view.hits : view'.hits[i] = view.hits[j]
        BY <1>0, <3>4, AppendHitKeeps DEF Pumped, Listed
      <4>2. \A i \in DOMAIN view'.hits :
              view'.hits[i].of = [query |-> view.query, scope |-> view.scope]
        BY <1>2, <3>2, <3>4, <4>1 DEF HitsAreOfTheQuery
      <4>3. \A n \in inbox' : \/ n \in inbox
                              \/ /\ n.type = "pump" /\ view.active
                                 /\ n.of = [query |-> view.query, scope |-> view.scope]
        BY <3>3, <3>4 DEF Pumped, Swap
      <4>4. gen' = gen
        BY <3>4 DEF Pumped
      <4> QED  BY <1>2, <2>1, <4>1, <4>2, <4>3, <4>4, PromptGoesOn
    <3>5. ASSUME Current(m), NEW c \in BOOLEAN, Pumped(m, [view EXCEPT !.capped = c], TRUE)
          PROVE Prompt'
      BY <2>2, <2>4, <3>3, <3>5 DEF Pumped, Swap
    <3>6. ASSUME view' = [view EXCEPT !.searching = FALSE], Swap(m, {}), UNCHANGED gen
          PROVE Prompt'
      BY <2>2, <2>4, <3>6 DEF Swap
    <3> QED  BY <2>3, <2>5, <3>4, <3>5, <3>6, PumpsAre
  <2>6. CASE ViewClosed(m) \/ HitSelected(m)
    <3>1. gen' = gen + 1 /\ ~view'.active /\ inbox' \subseteq inbox
      BY <1>0, <2>6 DEF ViewClosed, HitSelected, CloseSearch, Swap, View
    <3> QED  BY <2>1, <3>1, PromptOver
  <2>7. ASSUME NEW some \in BOOLEAN, Debounced(m, some)  PROVE Prompt'
    <3>1. CASE view' = [view EXCEPT !.searching = FALSE] /\ Swap(m, {}) /\ UNCHANGED gen
      BY <2>2, <2>4, <3>1 DEF Swap
    <3>2. CASE /\ view' = [view EXCEPT !.capped = FALSE] /\ UNCHANGED gen /\ Current(m)
               /\ Swap(m, {[type |-> "pump", gen |-> gen, ended |-> FALSE,
                            of |-> [query |-> m.query, scope |-> view.scope]]})
      <4>1. view.active /\ m.query = view.query
        BY <1>2, <2>1, <2>7, <3>2 DEF Debounced, Current, CurrentInForce, Dated, InForce
      <4>2. \A n \in inbox' : \/ n \in inbox
                              \/ /\ n.type = "pump" /\ view.active
                                 /\ n.of = [query |-> view.query, scope |-> view.scope]
        BY <3>2, <4>1 DEF Swap
      <4>3. /\ gen' = gen /\ view'.hits = view.hits /\ view'.active = view.active
            /\ view'.query = view.query /\ view'.scope = view.scope
        BY <2>4, <3>2
      <4> QED  BY <2>2, <4>2, <4>3
    <3> QED  BY <2>3, <2>7, <3>1, <3>2 DEF Debounced
  <2> QED  BY <1>5, <2>5, <2>6, <2>7 DEF Handle, QueryChanged, ScopeChanged
<1> QED  BY <1>3, <1>4, <1>5 DEF Handle, SearchMsg, ViewClosed, HitSelected, Debounced

LEMMA PromptNext ==
  ASSUME TypeOK, Listed, NoneToCome, Prompt, Next
  PROVE Prompt'
PROOF
<1>1. CASE overtaken'
  BY <1>1 DEF Prompt
<1>2. ASSUME NEW rows \in SUBSET Object, NEW shown \in SUBSET Object,
             WatchEvent(rows, shown) \/ Refresh(shown)
      PROVE Prompt'
  BY <1>2 DEF WatchEvent, Refresh, Prompt, ChangesWait, CurrentInForce, HitsAreOfTheQuery, Changes, InForce, Dated
<1> QED  BY <1>1, <1>2, PromptKeys, PromptHandle DEF Next

------------------------------ (* the theorems *) -----------------------------
LEMMA InvInit == Init => Inv
PROOF
<1> SUFFICES ASSUME Init  PROVE Inv
  OBVIOUS
<1>1. TypeOK
  BY TypeInit
<1>2. Listed
  BY ViewsAre DEF Init, Listed
<1>3. NoneToCome
  BY DEF Init, NoneToCome
<1>4. Prompt
  BY ViewsAre DEF Init, Prompt, ChangesWait, CurrentInForce, Changes, HitsAreOfTheQuery
<1>5. SelectionLands
  BY DEF Init, Blank, SelectionLands
<1> QED  BY <1>1, <1>2, <1>3, <1>4, <1>5 DEF Inv

LEMMA InvNext == Inv /\ [Next]_vars => Inv'
PROOF
<1>1. ASSUME Inv, Next  PROVE Inv'
  BY <1>1, TypeNext, ListedNext, NoneToComeNext, PromptNext, LandsNext DEF Inv
<1>2. ASSUME Inv, UNCHANGED vars  PROVE Inv'
  BY <1>2 DEF Inv, vars, pane, TypeOK, Listed, NoneToCome, Prompt, SelectionLands, Dated,
              ChangesWait, CurrentInForce, Changes, InForce, HitsAreOfTheQuery
<1> QED  BY <1>1, <1>2

(* The search's invariant: its types, a ranked list with the cursor in it, *)
(* no message of a generation to come, and what is in flight against what  *)
(* is on screen.                                                           *)
THEOREM InvCorrect == Spec => []Inv
PROOF
<1> QED  BY InvInit, InvNext, PTL DEF Spec

(* The search keeps its types: what is in flight is one of its messages,   *)
(* and the search that streams is of a generation that was begun.          *)
THEOREM SearchTypeCorrect == Spec => []TypeOK
PROOF
<1>1. Inv => TypeOK
  BY DEF Inv
<1> QED  BY <1>1, InvCorrect, PTL

(* The hits on screen are of the query and scopes on screen at every       *)
(* moment, as long as nothing is handled before a change the reader made.  *)
THEOREM HitsCorrect == Spec => []HitsAreOfTheQueryIfPrompt
PROOF
<1>1. Inv => HitsAreOfTheQueryIfPrompt
  BY DEF Inv, Prompt, HitsAreOfTheQueryIfPrompt
<1> QED  BY <1>1, InvCorrect, PTL

(* A row a drill-in waits for gets the cursor with the first delta that    *)
(* finds it displayed: it is on screen unselected only where a filter      *)
(* lifted, a toggle or a tick uncovered it since the last delta.           *)
THEOREM SelectionCorrect == Spec => []SelectionLands
PROOF
<1>1. Inv => SelectionLands
  BY DEF Inv
<1> QED  BY <1>1, InvCorrect, PTL

(* A hit that comes in takes its rank, and leaves the reader on the hit    *)
(* that was under the cursor.                                              *)
THEOREM CursorCorrect == Spec => CursorKeepsItsHit
PROOF
<1> DEFINE Keeps ==
      \A m \in inbox : SearchMsg(m) /\ view.hits # <<>> /\ view'.hits # <<>>
        => Ranked(view'.hits) /\ view'.hits[view'.cursor] = view.hits[view.cursor]
<1>1. ASSUME Inv, [Next]_vars  PROVE [Keeps]_vars
  <2> SUFFICES ASSUME NEW m \in inbox, SearchMsg(m), view.hits # <<>>
               PROVE Ranked(view'.hits) /\ view'.hits[view'.cursor] = view.hits[view.cursor]
    OBVIOUS
  <2>0. view \in View /\ Ranked(view.hits) /\ view.cursor \in DOMAIN view.hits \cup {1} /\ TypeOK
    BY <1>1 DEF Inv, TypeOK, Listed
  <2>1. \A b : /\ SameList(view, [view EXCEPT !.searching = b])
               /\ SameList(view, [view EXCEPT !.capped = b])
    BY <2>0 DEF SameList, View
  <2>2. SameList(view, view') \/ \E h \in Hit : view' = AppendHit(view, h)
    <3>1. CASE Drop(m)
      BY <3>1 DEF Drop, SameList
    <3> QED  BY <2>0, <2>1, <3>1, PumpsAre DEF Pumped
  <2>3. CASE SameList(view, view')
    BY <2>0, <2>3 DEF SameList
  <2>4. ASSUME NEW h \in Hit, view' = AppendHit(view, h)
        PROVE Ranked(view'.hits) /\ view'.hits[view'.cursor] = view.hits[view.cursor]
    BY <2>0, <2>4, AppendHitKeeps
  <2> QED  BY <2>2, <2>3, <2>4
<1>2. Spec => [][Keeps]_vars
  BY <1>1, InvCorrect, PTL DEF Spec
<1> QED  BY <1>2 DEF CursorKeepsItsHit
=============================================================================
