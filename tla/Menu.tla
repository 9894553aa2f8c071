------------------------------- MODULE Menu -------------------------------
(***************************************************************************)
(* The resource menu (components/menu/menu.go) and the shell's calls into  *)
(* it: one full list built from the seed, a context's own entries, its     *)
(* pins and discovery; the part of it on display; a cursor and a scroll    *)
(* offset over rows that count the section headers too.                    *)
(***************************************************************************)
EXTENDS Integers, Sequences, FiniteSetsExt, Functions

CONSTANTS
  Seed,       \* the built-in kinds in order, the namespace seam among them
  Namespace,  \* the seam
  Extras,     \* the kinds of the context's menu file, in order
  Customs,    \* the kinds only discovery knows, in order
  SectionOf,  \* each kind's section: "" for the seam
  Queries,    \* filters: the kinds each matches
  Heights     \* rows the pane may show

VARIABLES
  menu,       \* the component
  pins,       \* the shell's menuPinned
  discovered  \* history: the kinds discovery has reported

vars == <<menu, pins, discovered>>

None == "none"
NoSection == ""
Custom == "custom"
Kind == Range(Seed) \cup Range(Extras) \cup Range(Customs)
Listable == Kind \ {Namespace}
NoFilter == {"no filter"}

MenuAssumption ==
  /\ Seed \in Seq(Kind) /\ Extras \in Seq(Kind) /\ Customs \in Seq(Kind)
  /\ IsInjective(Seed) /\ IsInjective(Customs) /\ Range(Seed) \cap Range(Customs) = {}
  /\ Namespace \in Range(Seed) /\ None \notin Kind
  /\ \A k \in Range(Seed) : SectionOf[k] # Custom
  /\ Heights \subseteq Nat

Item == [kind : Kind, authored : BOOLEAN, pinned : BOOLEAN, found : BOOLEAN]
Component ==
  [full : Seq(Item), items : Seq(Kind), filter : {NoFilter} \cup Queries,
   active : Listable \cup {None}, cursor : Int, offset : Nat, height : Heights]
TypeOK == menu \in Component /\ pins \subseteq Listable /\ discovered \subseteq Listable

------------------------------ (* the list *) ------------------------------
ItemOf(k, authored, pinned, found) ==
  [kind |-> k, authored |-> authored, pinned |-> pinned, found |-> found]
HiddenByDefault(it) == SectionOf[it.kind] = Custom /\ ~it.authored /\ ~it.pinned
Hides(m, it) == HiddenByDefault(it) /\ m.active # it.kind
Kinds(list) == [i \in DOMAIN list |-> list[i].kind]
Lists(m, k) == k \in Range(Kinds(m.full))

(* The k-th of some positions, in order.                                    *)
Nth(at, k) == CHOOSE i \in at : Cardinality({j \in at : j < i}) = k - 1

(* applyFilter: a filter finds hidden rows too.                             *)
Displayed(m) ==
  {i \in DOMAIN m.full : IF m.filter = NoFilter THEN ~Hides(m, m.full[i]) ELSE m.full[i].kind \in m.filter}
Derived(m) ==
  [m EXCEPT !.items = [k \in 1 .. Cardinality(Displayed(m)) |-> m.full[Nth(Displayed(m), k)].kind]]

(* insertExtra: behind the last row of its section, or at the end.          *)
InsertExtra(list, it) ==
  LET same == {i \in DOMAIN list : SectionOf[list[i].kind] = SectionOf[it.kind]}
      at == IF same = {} THEN Len(list) + 1 ELSE Max(same) + 1
  IN  [i \in 1 .. Len(list) + 1 |-> IF i < at THEN list[i] ELSE IF i = at THEN it ELSE list[i - 1]]
Without(list, at) == [i \in 1 .. Len(list) - 1 |-> list[IF i < at THEN i ELSE i + 1]]

------------------------------ (* the rows *) ------------------------------
(* A header stands over an item whose section differs from the one before.  *)
Smaller(a, b) == IF a < b THEN a ELSE b
Larger(a, b) == IF a < b THEN b ELSE a
Headed(m, i) ==
  LET before == {SectionOf[m.items[j]] : j \in 1 .. (i - 1)} \ {NoSection}
      last == Max({0} \cup {j \in 1 .. (i - 1) : SectionOf[m.items[j]] # NoSection})
  IN  SectionOf[m.items[i]] # NoSection /\ (before # {} => SectionOf[m.items[last]] # SectionOf[m.items[i]])
RowOf(m, i) == i - 1 + Cardinality({j \in 1 .. i : Headed(m, j)})
HiddenCustom(m) == m.filter = NoFilter /\ \E i \in DOMAIN m.full : Hides(m, m.full[i])
RowCount(m) ==
  LET n == Len(m.items) IN (IF n = 0 THEN 0 ELSE RowOf(m, n) + 1) + (IF HiddenCustom(m) THEN 1 ELSE 0)

(* scrollToCursor: the header over the cursor's row comes into view with it.*)
Scrolled(m) ==
  IF m.cursor + 1 \notin DOMAIN m.items THEN m
  ELSE LET cr == RowOf(m, m.cursor + 1)
           top == IF Headed(m, m.cursor + 1) THEN cr - 1 ELSE cr
       IN [m EXCEPT !.offset = IF m.height = 0 THEN cr ELSE IF top < @ THEN top
                               ELSE IF cr >= @ + m.height THEN cr - m.height + 1 ELSE @]
ClampOffset(m) ==
  Scrolled([m EXCEPT !.offset = Smaller(@, Larger(0, RowCount(m) - m.height))])
MoveTo(m, i) == Scrolled([m EXCEPT !.cursor = Smaller(Larger(i, 0), Len(m.items) - 1)])

(* selectionRef and restoreSelection: the cursor follows its kind; one that *)
(* is gone leaves the cursor where it was, within the list.                 *)
SelectionRef(m) == IF m.items = <<>> THEN None ELSE m.items[m.cursor + 1]
RestoreSelection(m, k) ==
  IF k \in Range(m.items) THEN [m EXCEPT !.cursor = CHOOSE i \in 0 .. Len(m.items) - 1 : m.items[i + 1] = k]
  ELSE IF m.items = <<>> \/ m.cursor < 0 THEN MoveTo(m, 0)
  ELSE IF m.cursor >= Len(m.items) THEN MoveTo(m, Len(m.items) - 1) ELSE m
Reapply(m, selected) == ClampOffset(RestoreSelection(Derived(m), selected))

---------------------------- (* the operations *) --------------------------
(* addExtras; a pin on a row discovery listed only marks it.                *)
AddExtraUnmarked(list, k, pinned) ==   \* not the code: the row is left as it is
  IF k \in Range(Kinds(list)) THEN list ELSE InsertExtra(list, ItemOf(k, ~pinned, pinned, FALSE))
AddExtra(list, k, pinned) ==
  IF k \in Range(Kinds(list))
  THEN [i \in DOMAIN list |-> IF pinned /\ list[i].kind = k /\ HiddenByDefault(list[i])
                              THEN [list[i] EXCEPT !.pinned = TRUE] ELSE list[i]]
  ELSE InsertExtra(list, ItemOf(k, ~pinned, pinned, FALSE))
Merged(list, ks, pinned) ==
  LET upTo[i \in 0 .. Len(ks)] == IF i = 0 THEN list ELSE AddExtra(upTo[i - 1], ks[i], pinned)
  IN  upTo[Len(ks)]
AddExtras(m, ks, pinned) ==
  IF ks = <<>> THEN m ELSE Reapply([m EXCEPT !.full = Merged(@, ks, pinned)], SelectionRef(m))

(* New, and what a context's menu file and pins add to it; the height is    *)
(* set by the layout.                                                       *)
New(height) ==
  LET seed == [i \in DOMAIN Seed |-> ItemOf(Seed[i], FALSE, FALSE, FALSE)] IN
  [full |-> seed, items |-> Seed, filter |-> NoFilter, active |-> None,
   cursor |-> 0, offset |-> 0, height |-> height]
Built(height, ps) == ClampOffset(AddExtras(AddExtras(New(height), Extras, FALSE), ps, TRUE))

Init ==
  /\ \E h \in Heights, ps \in {<<>>} \cup {<<k>> : k \in Range(Customs)} :
       pins = Range(ps) /\ menu = Built(h, ps)
  /\ discovered = {}

SetSize == \E h \in Heights : menu' = ClampOffset([menu EXCEPT !.height = h]) /\ UNCHANGED <<pins, discovered>>

(* Opening a kind from anywhere marks it active (watchResource); pane       *)
(* memory also puts the cursor on it (restoreLastResource).                 *)
SetActive(k) == Reapply([menu EXCEPT !.active = k], SelectionRef(menu))
SelectResource(m, k) ==
  IF k \in Range(m.items) THEN MoveTo(m, (CHOOSE i \in DOMAIN m.items : m.items[i] = k) - 1) ELSE m
WatchResource ==
  /\ \E k \in Listable : Lists(menu, k) /\ menu' = SetActive(k)
  /\ UNCHANGED <<pins, discovered>>
RestoreLastResource ==
  /\ menu.active = None
  /\ \E k \in Listable : Lists(menu, k) /\ menu' = SelectResource(SetActive(k), k)
  /\ UNCHANGED <<pins, discovered>>

SetFilter ==
  /\ \E q \in {NoFilter} \cup Queries :
       q # menu.filter /\ menu' = Reapply([menu EXCEPT !.filter = q], SelectionRef(menu))
  /\ UNCHANGED <<pins, discovered>>

(* Reconcile: a listed kind's row is marked as found and what is new is     *)
(* appended; a failed pass changes nothing.  (A failed group's rows turn    *)
(* grey and refuse enter, which is left out.)                               *)
Reconciled(found) ==
  LET known == [i \in DOMAIN menu.full |->
        [menu.full[i] EXCEPT !.found = @ \/ menu.full[i].kind \in found]]
      at == {i \in DOMAIN Customs : Customs[i] \in found /\ ~Lists(menu, Customs[i])}
      new == [i \in 1 .. Cardinality(at) |-> ItemOf(Customs[Nth(at, i)], FALSE, FALSE, TRUE)]
  IN  Reapply([menu EXCEPT !.full = known \o new], SelectionRef(menu))
Reconcile ==
  /\ \E found \in SUBSET Range(Customs) :
       menu' = Reconciled(found) /\ discovered' = discovered \cup found
  /\ UNCHANGED pins

(* Unpin and rederive: the row goes unless discovery lists it; if it goes   *)
(* from under the cursor, the row above takes the cursor.                   *)
Unpinned(k) ==
  LET at == {i \in DOMAIN menu.full : menu.full[i].kind = k /\ menu.full[i].pinned}
      i == CHOOSE j \in at : TRUE
      full == IF menu.full[i].found THEN [menu.full EXCEPT ![i].pinned = FALSE] ELSE Without(menu.full, i)
      m == Derived([menu EXCEPT !.full = full])
      r == RestoreSelection(m, SelectionRef(menu))
      went == SelectionRef(menu) = k /\ k \notin Range(m.items)
  IN  IF at = {} THEN menu ELSE ClampOffset(IF went THEN MoveTo(r, menu.cursor - 1) ELSE r)

(* `*` on the row under the cursor, or on the kind the table shows; an      *)
(* entry of the menu file is refused.                                       *)
TogglePin ==
  /\ \E k \in {SelectionRef(menu), menu.active} \cap Listable :
       /\ k \notin Range(Extras)
       /\ IF k \in pins THEN pins' = pins \ {k} /\ menu' = Unpinned(k)
          ELSE pins' = pins \cup {k} /\ menu' = AddExtras(menu, <<k>>, TRUE)
  /\ UNCHANGED discovered

(* Update's moves: by item, to an end, or by rows, which looks on in its    *)
(* direction for an item and turns back if it finds none.                   *)
MoveByRows(delta) ==
  LET items == {RowOf(menu, i) : i \in DOMAIN menu.items}
      target == Smaller(Larger(RowOf(menu, menu.cursor + 1) + delta, 0), RowCount(menu) - 1)
      down == {r \in items : r >= target}   up == {r \in items : r <= target}
      to == IF (delta > 0 /\ down # {}) \/ up = {} THEN Min(down) ELSE Max(up)
  IN  MoveTo(menu, (CHOOSE i \in DOMAIN menu.items : RowOf(menu, i) = to) - 1)
Step(n) == IF n > 0 THEN n ELSE 1
Update ==
  /\ menu.items # <<>>
  /\ \/ \E i \in {menu.cursor - 1, menu.cursor + 1, 0, Len(menu.items) - 1} : menu' = MoveTo(menu, i)
     \/ \E n \in {Step(menu.height), Step(menu.height \div 2)}, way \in {-1, 1} : menu' = MoveByRows(way * n)
  /\ UNCHANGED <<pins, discovered>>
(* RowItemAt and SelectItem: a click moves to the item drawn on its row.    *)
Click ==
  /\ \E r \in 0 .. (menu.height - 1), i \in DOMAIN menu.items :
       RowOf(menu, i) = menu.offset + r /\ menu' = MoveTo(menu, i - 1)
  /\ UNCHANGED <<pins, discovered>>

(* A context switch starts over with the pins of the new context.           *)
ResetCluster ==
  /\ pins' = {} /\ discovered' = {} /\ menu' = Built(menu.height, <<>>)

Next == \/ SetSize \/ WatchResource \/ RestoreLastResource \/ SetFilter \/ Reconcile \/ TogglePin
        \/ Update \/ Click \/ ResetCluster
Spec == Init /\ [][Next]_vars
----------------------------- (* properties *) -----------------------------
(* A kind has a row for a reason and only for one: it is built in, in the   *)
(* context's file, pinned or discovered; a custom one shows because it is   *)
(* in the file, pinned or open.  The provenance marks on the rows, kept up  *)
(* by pins, unpins and discovery in any order, never lose track (Unpin).    *)
Known == Range(Seed) \cup Range(Extras) \cup pins \cup discovered
RowsHaveReasons ==
  /\ Range(Kinds(menu.full)) = Known /\ IsInjective(Kinds(menu.full))
  /\ menu.filter = NoFilter =>
       Range(menu.items) = {k \in Known : SectionOf[k] # Custom \/ k \in Range(Extras) \cup pins
                                          \/ k = menu.active}

(* Each row's marks say where it came from.                                 *)
Marked(it) ==
  LET written == Range(Extras) \ Range(Seed) IN
  /\ it.found = (it.kind \in discovered) /\ it.authored = (it.kind \in written)
  /\ it.pinned => it.kind \in pins \ (Range(Seed) \cup written)
  /\ it.kind \in pins \ (Range(Seed) \cup written) /\ (SectionOf[it.kind] = Custom \/ ~it.found)
       => it.pinned
MarksAreTrue == \A i \in DOMAIN menu.full : Marked(menu.full[i])

(* The row under the cursor is on the screen, whatever was pinned, filtered,*)
(* discovered, resized or opened (scrollToCursor, clampOffset).             *)
CursorInView ==
  /\ menu.items # <<>> => menu.cursor + 1 \in DOMAIN menu.items
  /\ (menu.items # <<>> /\ menu.height >= 2) =>
       RowOf(menu, menu.cursor + 1) \in menu.offset .. (menu.offset + menu.height - 1)

Inv == TypeOK /\ RowsHaveReasons /\ MarksAreTrue /\ CursorInView

(* A row that is still on display after something else changed the list is  *)
(* still the one under the cursor (restoreSelection).                       *)
KeepsItsKind ==
  SelectionRef(menu') # SelectionRef(menu) /\ SelectionRef(menu) \in Range(menu'.items)
    => Update \/ Click \/ RestoreLastResource \/ ResetCluster
CursorKeepsItsKind == [][KeepsItsKind]_vars
=============================================================================
