------------------------------ MODULE Palette ------------------------------
(***************************************************************************)
(* The command palette (tui/palette.go, tui/theme.go, tui/bindvalue.go,    *)
(* tui/rowaction.go, components/picker): one list that is the verbs, or    *)
(* the values of one verb, with the theme under the cursor painted as it   *)
(* moves.  The picker answers a key with a message that names a label;     *)
(* what the label means is read from the stage the palette is in when the  *)
(* message is handled, and a row verb acts on the row selected by then.    *)
(***************************************************************************)
EXTENDS Naturals, FiniteSets, Bags

CONSTANTS
  Theme, Row, RowVerb, Resource,
  MaxKeys,      \* bound: keys the reader presses
  MaxInbox,     \* bound: messages in flight at a time
  MaxSwitches   \* bound: clusters switched to

None == "none"
Arg  == {"resource", "pin", "theme", "namespace", "context", "action"}
Loads == {"namespace", "context"}       \* the stages whose list is asked for
ASSUME PaletteAssumption ==
  /\ None \notin Theme \cup Row \cup RowVerb \cup Resource /\ Theme # {}
  /\ MaxKeys \in Nat /\ MaxInbox \in Nat /\ MaxSwitches \in Nat

Of(type, values) == {type} \X values
Verbs     == Of("verb", Arg \cup {"other"})
NsOf(c)   == Of("ns", {c, 0})           \* a cluster's namespaces; 0 is all of them
Label     == Verbs \cup Of("row", RowVerb) \cup Of("res", Resource) \cup Of("theme", Theme)
             \cup (UNION {NsOf(c) : c \in 0 .. MaxSwitches}) \cup Of("ctx", {"next"})

VARIABLES
  stage,     \* "closed", "verbs" or palArg
  direct,    \* palDirect
  listed,    \* the rows of the picker
  titled,    \* the object its title names, or None
  theme,     \* the theme on screen
  anchor,    \* themeAnchor
  row,       \* the table's selected row, or None
  ns,        \* the label the namespace was set from
  cluster,
  inbox,     \* messages in flight, a bag
  chosen,    \* history: the theme last committed
  done,      \* history: the pick last carried out
  overtaken, \* history: a key was pressed before another's message was handled
  moved,     \* history: the selected row changed under an open palette
  seen,      \* history: the verb list has been up since the palette opened
  keys

menu == <<stage, direct, listed, titled>>
vars == <<menu, theme, anchor, row, ns, cluster, inbox, chosen, done, overtaken, moved, seen, keys>>

Pick == [label : Label, on : Row \cup {None}, stage : Arg \cup {"verbs"}]
NoPick == [label |-> <<None, None>>, in |-> None, as |-> None, on |-> None, to |-> None]
Message == [type : {"selected"}, pick : Pick] \cup [type : {"cancelled"}]
           \cup [type : {"loaded"}, what : Loads, cluster : 0 .. MaxSwitches, ok : BOOLEAN]

TypeOK ==
  /\ stage \in {"closed", "verbs"} \cup Arg /\ direct \in BOOLEAN
  /\ listed \subseteq Label /\ titled \in Row \cup {None}
  /\ (stage = "closed") => ~direct /\ listed = {} /\ titled = None
  /\ theme \in Theme /\ chosen \in Theme /\ anchor \in Theme \cup {None}
  /\ (anchor # None) = (stage = "theme")
  /\ row \in Row \cup {None} /\ cluster \in 0 .. MaxSwitches /\ ns \in Label
  /\ IsABag(inbox) /\ \A m \in BagToSet(inbox) : m \in Message
  /\ keys \in 0 .. MaxKeys

Init ==
  /\ stage = "closed" /\ direct = FALSE /\ listed = {} /\ titled = None
  /\ theme \in Theme /\ chosen = theme /\ anchor = None
  /\ row \in Row \cup {None} /\ ns = <<"ns", 0>> /\ cluster = 0
  /\ inbox = EmptyBag /\ done = NoPick /\ overtaken = FALSE /\ moved = FALSE /\ seen = FALSE /\ keys = 0

---------------------------- (* the two stages *) ---------------------------
(* As if the preview were let stand: not the code.                          *)
AnchoredAsSeen == theme
Anchored == IF anchor # None THEN anchor ELSE theme   \* restoreThemeAnchor
Post(m) == inbox (+) SetToBag({m})
Take(m) == inbox (-) SetToBag({m})
RowVerbs == IF row = None THEN {} ELSE Of("row", RowVerb)

(* showPaletteVerbs: the verbs, and those of the row selected now.          *)
ShowVerbs ==
  /\ theme' = Anchored /\ anchor' = None
  /\ stage' = "verbs" /\ direct' = FALSE /\ listed' = Verbs \cup RowVerbs /\ titled' = row
  /\ seen' = TRUE

(* closePalette; and as if it left the anchor, or the rows, behind.         *)
CloseKeepsAnchor ==
  /\ theme' = Anchored /\ UNCHANGED anchor
  /\ stage' = "closed" /\ direct' = FALSE /\ listed' = {} /\ titled' = None /\ seen' = FALSE
CloseKeepsRows ==
  /\ theme' = Anchored /\ anchor' = None
  /\ stage' = "closed" /\ direct' = FALSE /\ UNCHANGED listed /\ titled' = None /\ seen' = FALSE
Close ==
  /\ theme' = Anchored /\ anchor' = None
  /\ stage' = "closed" /\ direct' = FALSE /\ listed' = {} /\ titled' = None /\ seen' = FALSE

(* enterPaletteArg: a verb with no values has no stage; a list that has to  *)
(* be asked for is empty until it comes.                                    *)
Values(a) == CASE a \in {"resource", "pin"} -> Of("res", Resource)
               [] a = "theme"  -> Of("theme", Theme)
               [] a = "action" -> RowVerbs
               [] a \in Loads  -> {}
HasStage(a) == a \in Arg /\ (a \in Loads \/ Values(a) # {})
EnterArg(a, byKey) ==
  /\ stage' = a /\ direct' = byKey /\ listed' = Values(a)
  /\ titled' = IF a = "action" THEN row ELSE None
  /\ anchor' = IF a = "theme" THEN theme ELSE None
  /\ UNCHANGED theme
Asked(a, ok, box) == IF a \in Loads
  THEN box (+) SetToBag({[type |-> "loaded", what |-> a, cluster |-> cluster, ok |-> ok]}) ELSE box

------------------------------ (* the keys *) ------------------------------
Pressed == {m \in BagToSet(inbox) : m.type # "loaded"}
Key ==
  /\ keys < MaxKeys /\ keys' = keys + 1 /\ BagCardinality(inbox) < MaxInbox
  /\ overtaken' = (overtaken \/ Pressed # {}) /\ UNCHANGED <<row, cluster, chosen, moved>>

OpenPalette ==
  /\ stage = "closed" /\ Key /\ ShowVerbs /\ UNCHANGED <<ns, inbox, done>>

(* openPaletteArg: a key of the verb's own.                                 *)
OpenArg(a, ok) ==
  /\ stage = "closed" /\ HasStage(a) /\ Key /\ EnterArg(a, TRUE) /\ seen' = FALSE
  /\ inbox' = Asked(a, ok, inbox) /\ UNCHANGED <<ns, done>>

(* Moving the cursor or typing; in the theme stage, previewTheme.           *)
Preview(l) ==
  /\ stage = "theme" /\ l \in listed /\ Key /\ theme' = l[2]
  /\ UNCHANGED <<menu, anchor, ns, inbox, done, seen>>

(* picker.Update: enter and esc are messages, handled later.                *)
Enter(l) ==
  /\ l \in listed /\ Key
  /\ inbox' = Post([type |-> "selected", pick |-> [label |-> l, on |-> titled, stage |-> stage]])
  /\ UNCHANGED <<menu, theme, anchor, ns, done, seen>>
Esc ==
  /\ stage # "closed" /\ Key /\ inbox' = Post([type |-> "cancelled"])
  /\ UNCHANGED <<menu, theme, anchor, ns, done, seen>>

(* handlePaletteFilterKey: space completes a verb that takes a value, and   *)
(* backspace on an empty query goes back to the verbs, both at once.        *)
Space(a, ok) ==
  /\ stage = "verbs" /\ HasStage(a) /\ Key /\ EnterArg(a, FALSE)
  /\ inbox' = Asked(a, ok, inbox) /\ UNCHANGED <<ns, done, seen>>
Backspace ==
  /\ stage \in Arg /\ Key /\ ShowVerbs /\ UNCHANGED <<ns, inbox, done>>

(* runArgument: a key bound to a theme by name.                             *)
BoundTheme(t) ==
  /\ stage = "closed" /\ keys < MaxKeys /\ keys' = keys + 1 /\ theme' = t /\ chosen' = t
  /\ UNCHANGED <<menu, anchor, row, ns, cluster, inbox, done, overtaken, moved, seen>>

---------------------------- (* the messages *) -----------------------------
(* dispatchRowAction acts on the row selected now, if there is one.         *)
Done(p) ==
  IF p.label[1] = "row" /\ row = None THEN UNCHANGED done
  ELSE done' = [label |-> p.label, in |-> p.stage, as |-> stage, on |-> p.on, to |-> row]

(* applyPaletteArg: the label is looked up in the stage's own map, but a    *)
(* namespace has none and is taken as it is.                                *)
Resolves(l) == CASE stage = "namespace" -> TRUE
                 [] stage = "context" -> l[1] = "ctx" /\ listed # {}
                 [] OTHER -> l \in listed
ApplyArg(p) ==
  /\ IF stage = "theme" /\ Resolves(p.label)
       THEN theme' = p.label[2] /\ chosen' = p.label[2] /\ anchor' = None /\ Done(p)
            /\ stage' = "closed" /\ direct' = FALSE /\ listed' = {} /\ titled' = None /\ seen' = FALSE
       ELSE Close /\ UNCHANGED chosen /\ IF Resolves(p.label) THEN Done(p) ELSE UNCHANGED done
  /\ ns' = IF stage = "namespace" THEN p.label ELSE ns

(* handleCommandSelected                                                    *)
RunVerb(p, ok, box) ==
  LET verb == p.label \in listed /\ p.label[1] = "verb"
      a == p.label[2]
  IN IF verb /\ HasStage(a)
       THEN /\ EnterArg(a, FALSE) /\ inbox' = Asked(a, ok, box) /\ UNCHANGED <<done, seen>>
       ELSE /\ Close /\ inbox' = box
            /\ IF p.label \in listed THEN Done(p) ELSE UNCHANGED done
Selected(m, ok) ==
  /\ m.type = "selected"
  /\ \/ stage \in Arg /\ ApplyArg(m.pick) /\ inbox' = Take(m)
     \/ stage \notin Arg /\ RunVerb(m.pick, ok, Take(m)) /\ UNCHANGED <<ns, chosen>>
  /\ UNCHANGED <<row, cluster, overtaken, moved, keys>>

(* The picker's CancelledMsg: back to the verbs, unless a key opened this.  *)
Cancelled(m) ==
  /\ m.type = "cancelled" /\ inbox' = Take(m)
  /\ IF stage \in Arg /\ ~direct THEN ShowVerbs ELSE Close
  /\ UNCHANGED <<row, ns, cluster, chosen, done, overtaken, moved, keys>>

(* handleNamespacesLoaded, handleContextsLoaded: an answer fills the stage  *)
(* that is up, and carries nothing that says which cluster it is of.        *)
Loaded(m) ==
  /\ m.type = "loaded" /\ inbox' = Take(m)
  /\ CASE stage # m.what -> UNCHANGED <<menu, theme, anchor, seen>>
       [] stage = m.what /\ ~m.ok -> Close
       [] OTHER -> /\ listed' = IF m.what = "context" THEN Of("ctx", {"next"}) ELSE NsOf(m.cluster)
                   /\ UNCHANGED <<stage, direct, titled, theme, anchor, seen>>
  /\ UNCHANGED <<row, ns, cluster, chosen, done, overtaken, moved, keys>>

(* The live table: the cursor's row is deleted, or its row becomes another. *)
WatchEvent(r) ==
  /\ r # row /\ row' = r /\ moved' = (moved \/ stage # "closed" \/ Pressed # {})
  /\ UNCHANGED <<menu, theme, anchor, ns, cluster, inbox, chosen, done, overtaken, seen, keys>>

(* resetCluster                                                             *)
SwitchCluster ==
  /\ cluster < MaxSwitches /\ cluster' = cluster + 1 /\ Close
  /\ row' = None /\ ns' = <<"ns", 0>>
  /\ UNCHANGED <<inbox, chosen, done, overtaken, moved, keys>>

Next ==
  \/ OpenPalette \/ Esc \/ Backspace \/ SwitchCluster
  \/ \E a \in Arg, ok \in BOOLEAN : OpenArg(a, ok) \/ Space(a, ok)
  \/ \E l \in listed : Preview(l) \/ Enter(l)
  \/ \E t \in Theme : BoundTheme(t)
  \/ \E m \in BagToSet(inbox) : Cancelled(m) \/ Loaded(m) \/ \E ok \in BOOLEAN : Selected(m, ok)
  \/ \E r \in Row \cup {None} : WatchEvent(r)

Spec == Init /\ [][Next]_vars

----------------------------- (* properties *) -----------------------------
(* Out of the theme stage the screen shows the theme last chosen: every way *)
(* out of it undoes the preview, and none undoes a choice.                  *)
PreviewLeavesNoTrace == stage # "theme" => theme = chosen

(* A pick does what it would have done in the stage it was made in, and a   *)
(* row verb to the row the palette named, if no other key came before its   *)
(* message was handled and the table kept its row.                          *)
PicksAreWhatWasShown ==
  ~overtaken => /\ done.in = done.as
                /\ ~moved /\ done.label[1] = "row" => done.to = done.on

(* The palette's title names the row its verbs are for (paletteRowVerbs).   *)
(* Under a watch it may not be the one acted on: a row deleted or replaced  *)
(* under the open palette leaves the title, and the pick takes the next.    *)
RowVerbsStayPut == ~overtaken /\ done.label[1] = "row" => done.to = done.on

(* Esc never shows a verb list the reader did not come from.                *)
BackToWhereItCameFrom ==
  (\E m \in BagToSet(inbox) : Cancelled(m)) /\ stage' = "verbs" /\ stage # "verbs" => seen
EscGoesBack == [][BackToWhereItCameFrom]_vars

(* palArg's comment: "which stage" can never disagree with what a pick      *)
(* does.  The namespace is always one a cluster has, or all of them.        *)
NamespaceIsOne == ns[1] = "ns"
=============================================================================
