------------------------------- MODULE Table -------------------------------
(***************************************************************************)
(* The browse table's own state (components/table/table.go and usage.go)   *)
(* and the shell's calls into it: the rows the watch delivered, and over   *)
(* them a filter, the unhealthy narrowing, a metrics overlay, a sort with  *)
(* its header cursor, the cursor and the scroll offset, all re-derived on  *)
(* every change.  A row has one server column of a small value and the     *)
(* overlay's two columns are one; sideways scrolling is left out.          *)
(***************************************************************************)
EXTENDS Integers, Sequences, FiniteSets, Functions

CONSTANTS
  Kinds,     \* resource kinds the reader opens
  Uid,       \* the objects of each
  Samples,   \* overlays: from Uid to a measurement, -1 for none
  Sizes,     \* data rows the pane may show
  MaxOpens   \* bound: kinds opened, over all starts of the shell

TableAssumption ==
  /\ IsFiniteSet(Uid) /\ MaxOpens \in Nat /\ Sizes \subseteq Nat /\ "none" \notin Kinds
  /\ \A u \in Samples : u \in [Uid -> Int] /\ u # <<>>

VARIABLES
  t,       \* the component
  kind,    \* the open kind
  shown,   \* the displayed rows
  armed,   \* the sort the state file held at the start, until a RESET consumes it
  picked,  \* history: the kind the reader picked the table's sort for
  opens

vars == <<t, kind, shown, armed, picked, opens>>

None == "none"
Value == 1 .. 2
Unhealthy == 2
LiveRow == [uid : Uid, val : Value]
Column == {"val", "use"}
Sort == [col : Column, desc : BOOLEAN, for : Kinds] \cup {[col |-> None]}
NoSort == [col |-> None]

Component ==
  [full : Seq(LiveRow), loaded : BOOLEAN, filter : Value \cup {0}, bad : BOOLEAN,
   usage : Samples \cup {<<>>}, sort : Nat, desc : BOOLEAN, mode : BOOLEAN, head : Nat,
   cursor : Nat, offset : Nat, rows : Sizes]

TypeOK ==
  /\ t \in Component /\ shown \in Seq(LiveRow) /\ kind \in Kinds \cup {None} /\ armed \in Sort
  /\ picked \in Kinds \cup {None} /\ opens \in 0 .. MaxOpens

-------------------------- (* the derived view *) --------------------------
HasUsage(m) == m.usage # <<>>
Visible(m) ==
  IF HasUsage(m) THEN IF m.loaded THEN <<"val", "use">> ELSE <<"use">>
  ELSE IF m.loaded THEN <<"val">> ELSE <<>>
Cell(m, row, col) == IF col = "val" THEN row.val ELSE m.usage[row.uid]
Matches(m, row) == (m.filter # 0 => row.val = m.filter) /\ (m.bad => row.val = Unhealthy)

SortKey(m, i) == IF m.sort \in DOMAIN Visible(m) THEN Cell(m, m.full[i], Visible(m)[m.sort]) ELSE 0

(* sortRows: a stable sort on the column at the sorted position, if there   *)
(* is one there now.                                                        *)
BeforeReversed(m, i, j) ==   \* not the code: descending is ascending turned round, ties and all
  LET after(k, l) == SortKey(m, k) < SortKey(m, l) \/ (SortKey(m, k) = SortKey(m, l) /\ k < l)
  IN  IF m.desc THEN after(j, i) ELSE after(i, j)
Before(m, i, j) ==
  IF SortKey(m, i) = SortKey(m, j) THEN i < j
  ELSE IF m.desc THEN SortKey(m, j) < SortKey(m, i) ELSE SortKey(m, i) < SortKey(m, j)

(* applyFilter: the rows that match, each at the place its rank gives it.   *)
Kept(m) == {i \in DOMAIN m.full : Matches(m, m.full[i])}
Rank(m, i) == Cardinality({j \in Kept(m) : Before(m, j, i)})
Ranked(m, k) == CHOOSE i \in Kept(m) : Rank(m, i) = k - 1
Derived(m) == [k \in 1 .. Cardinality(Kept(m)) |-> m.full[Ranked(m, k)]]

Smaller(a, b) == IF a < b THEN a ELSE b
Larger(a, b) == IF a < b THEN b ELSE a
Scrolled(m) ==
  LET h == m.rows IN
  [m EXCEPT !.offset = IF h = 0 \/ m.cursor < @ THEN m.cursor
                       ELSE IF m.cursor >= @ + h THEN m.cursor - h + 1 ELSE @]
ClampOffset(m, rows) ==
  Scrolled([m EXCEPT !.offset = Smaller(@, Larger(0, Len(rows) - m.rows))])
MoveTo(m, rows, i) == Scrolled([m EXCEPT !.cursor = Smaller(Larger(i, 0), Len(rows) - 1)])
IndexOf(rows, u) == (CHOOSE i \in DOMAIN rows : rows[i].uid = u) - 1
Has(rows, u) == \E i \in DOMAIN rows : rows[i].uid = u
Distinct(rows) == \A i, j \in DOMAIN rows : rows[i].uid = rows[j].uid => i = j

(* restoreSelection: the cursor follows its object; if it is gone the       *)
(* cursor stays where it was, within the rows.                              *)
RestoreSelection(m, rows) ==
  IF rows = <<>> THEN [m EXCEPT !.cursor = 0, !.offset = 0]
  ELSE IF shown # <<>> /\ Has(rows, shown[t.cursor + 1].uid)
       THEN [m EXCEPT !.cursor = IndexOf(rows, shown[t.cursor + 1].uid)]
       ELSE [m EXCEPT !.cursor = Smaller(@, Len(rows) - 1)]
HeadClamped(m) == [m EXCEPT !.head = IF m.mode THEN Larger(1, Smaller(@, Len(Visible(m)))) ELSE @]

(* Every change ends in applyFilter, restoreSelection and a clamp.          *)
Rederive(m) ==
  shown' = Derived(m) /\ t' = ClampOffset(RestoreSelection(HeadClamped(m), shown'), shown')

---------------------------- (* the operations *) --------------------------
(* New and SetTable.                                                        *)
Empty(h) ==
  [full |-> <<>>, loaded |-> FALSE, filter |-> 0, bad |-> FALSE, usage |-> <<>>, sort |-> 0,
   desc |-> FALSE, mode |-> FALSE, head |-> 1, cursor |-> 0, offset |-> 0, rows |-> h]
Init ==
  /\ \E h \in Sizes : t = Empty(h)
  /\ kind = None /\ shown = <<>> /\ armed \in Sort /\ picked = None /\ opens = 0

(* watchResource blanks the table; the sort from the file stays armed.      *)
WatchResource ==
  /\ opens < MaxOpens /\ opens' = opens + 1
  /\ kind' \in Kinds /\ t' = Empty(t.rows) /\ shown' = <<>> /\ picked' = None
  /\ UNCHANGED armed

(* SortByColumnName: nothing happens if there is no such column.            *)
Restores(m) == armed.col # None /\ armed.col \in Range(Visible(m))
SortByColumnName(m) ==
  IF Restores(m) THEN [m EXCEPT !.sort = IF armed.col = "val" THEN 1 ELSE 2, !.desc = armed.desc] ELSE m
(* handleWatchMsg: the first RESET after a start also takes the saved sort, *)
(* whatever kind it is of, and forgets it if there is no such column.       *)
Reset ==
  /\ kind # None
  /\ \E n \in 0 .. Cardinality(Uid) : \E rows \in [1 .. n -> LiveRow] :
       LET fresh == [t EXCEPT !.full = rows, !.loaded = TRUE] IN
       /\ Distinct(rows) /\ Rederive(SortByColumnName(fresh))
       /\ picked' = IF Restores(fresh) THEN armed.for ELSE picked
  /\ armed' = NoSort
  /\ UNCHANGED <<kind, opens>>

(* ApplyEvent's upserts and deletions.                                      *)
Upserted(row) ==
  IF Has(t.full, row.uid) THEN [i \in DOMAIN t.full |-> IF t.full[i].uid = row.uid THEN row ELSE t.full[i]]
  ELSE Append(t.full, row)
Without(rows, i) == [k \in 1 .. Len(rows) - 1 |-> rows[IF k < i THEN k ELSE k + 1]]
Live == UNCHANGED <<kind, armed, picked, opens>>
Delta ==
  /\ t.loaded
  /\ \/ \E u \in Uid, v \in Value : Rederive([t EXCEPT !.full = Upserted([uid |-> u, val |-> v])])
     \/ \E i \in DOMAIN t.full : Rederive([t EXCEPT !.full = Without(@, i)])
  /\ Live
(* The second's tick: a cell that grew older may sort elsewhere.            *)
Aged(rows, older) == [i \in DOMAIN rows |-> IF i \in older THEN [rows[i] EXCEPT !.val = 2] ELSE rows[i]]
RefreshAges ==
  /\ \E older \in SUBSET DOMAIN t.full :
       Rederive([t EXCEPT !.full = Aged(@, older)])
  /\ Live
(* handleMetricsMsg: samples for the open kind, before or after its rows.   *)
SetUsage == kind # None /\ (\E u \in Samples : Rederive([t EXCEPT !.usage = u])) /\ Live
SetSize ==
  /\ \E h \in Sizes : t' = ClampOffset([t EXCEPT !.rows = h], shown)
  /\ UNCHANGED shown /\ Live

(* The narrowings; esc clears both (clearFilter).                           *)
Browsing == kind # None /\ ~t.mode
SetFilter == Browsing /\ (\E f \in Value : Rederive([t EXCEPT !.filter = f])) /\ Live
ToggleUnhealthy == Browsing /\ Rederive([t EXCEPT !.bad = ~@]) /\ Live
ClearFilter == Browsing /\ Rederive([t EXCEPT !.filter = 0, !.bad = FALSE]) /\ Live

(* Sort mode: the header's cursor moves and picks.                          *)
EnterSortMode ==
  /\ Browsing /\ Visible(t) # <<>> /\ UNCHANGED shown /\ Live
  /\ t' = [t EXCEPT !.mode = TRUE, !.head = IF t.sort \in DOMAIN Visible(t) THEN t.sort ELSE 1]
ExitSortMode == t.mode /\ t' = [t EXCEPT !.mode = FALSE, !.head = 1] /\ UNCHANGED shown /\ Live
MoveHead ==
  /\ t.mode /\ \E c \in {t.head - 1, t.head + 1} \cap DOMAIN Visible(t) : t' = [t EXCEPT !.head = c]
  /\ UNCHANGED shown /\ Live
SortBy ==
  /\ t.mode /\ t.head \in DOMAIN Visible(t)
  /\ LET m == [t EXCEPT !.sort = t.head, !.desc = t.sort = t.head /\ ~t.desc] IN Rederive(m)
  /\ picked' = kind /\ UNCHANGED <<kind, armed, opens>>
ClearSort ==
  /\ kind # None /\ picked' = None
  /\ LET m == [t EXCEPT !.sort = 0, !.desc = FALSE, !.mode = FALSE, !.head = 1] IN
     IF t.sort = 0 THEN t' = m /\ UNCHANGED shown ELSE Rederive(m)
  /\ UNCHANGED <<kind, armed, opens>>

(* Moves, n and N wrapping round the matches, a click and SelectObject.     *)
Move ==
  /\ shown # <<>> /\ UNCHANGED shown /\ Live
  /\ \/ ~t.mode /\ \E to \in {t.cursor - 1, t.cursor + 1, t.cursor - t.rows, t.cursor + t.rows,
                              0, Len(shown) - 1} : t' = MoveTo(t, shown, to)
     \/ ~t.mode /\ t.filter # 0
        /\ \/ t' = MoveTo(t, shown, IF t.cursor + 1 = Len(shown) THEN 0 ELSE t.cursor + 1)
           \/ t' = MoveTo(t, shown, IF t.cursor = 0 THEN Len(shown) - 1 ELSE t.cursor - 1)
     \/ \E i \in DOMAIN shown : t' = MoveTo(t, shown, i - 1)
Event == Reset \/ Delta \/ RefreshAges \/ SetUsage \/ SetSize
Key == \/ SetFilter \/ ToggleUnhealthy \/ ClearFilter \/ EnterSortMode \/ ExitSortMode \/ MoveHead
       \/ SortBy \/ ClearSort \/ Move
Next == WatchResource \/ Event \/ Key
Spec == Init /\ [][Next]_vars
----------------------------- (* properties *) -----------------------------
(* What is on the screen is what the watch holds: every matching object     *)
(* once with its newest cells, in the picked order, ties as they arrived    *)
(* (applyFilter, called on every path that changes what it reads).          *)
Key1(i) == Cell(t, shown[i], Visible(t)[t.sort])
RowsAreTheLiveOnes ==
  /\ Range(shown) = {r \in Range(t.full) : Matches(t, r)}
  /\ Len(shown) = Cardinality(Range(shown))
  /\ \A i, j \in DOMAIN shown : i < j =>
       LET first == IndexOf(t.full, shown[i].uid) < IndexOf(t.full, shown[j].uid) IN
       IF t.sort \in DOMAIN Visible(t)
       THEN IF Key1(i) = Key1(j) THEN first ELSE (Key1(i) < Key1(j)) # t.desc
       ELSE first

(* The highlighted row exists and is in the window, and so does the column  *)
(* the header's cursor is on, after any change of rows, columns or size.    *)
CursorsAreOnTheTable ==
  /\ shown # <<>> => t.cursor + 1 \in DOMAIN shown
  /\ (shown # <<>> /\ t.rows > 0) => t.cursor \in t.offset .. (t.offset + t.rows - 1)
  /\ t.mode => t.head \in DOMAIN Visible(t)

(* What every operation keeps: a row of each object, the rows in place, the *)
(* cursors on them.                                                         *)
Inv == TypeOK /\ Distinct(t.full) /\ shown = Derived(t) /\ CursorsAreOnTheTable

(* No event, narrowing or sort takes the highlight off an object that is    *)
(* still displayed (restoreSelection by UID).                               *)
KeepsItsObject ==
  LET u == shown[t.cursor + 1].uid IN
  shown # <<>> /\ Has(shown', u) /\ shown'[t'.cursor + 1].uid # u => Move
HighlightKeepsItsObject == [][KeepsItsObject]_vars

(* "A sort chosen for one resource's columns must not carry to a different  *)
(* resource" (table.go's sortCol): not so for the one read from the file,   *)
(* which the first RESET takes whatever it is of (handleWatchMsg).          *)
SortStaysWithItsKind == picked \in {None, kind}
=============================================================================
