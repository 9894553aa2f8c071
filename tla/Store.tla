------------------------------- MODULE Store -------------------------------
(***************************************************************************)
(* What kubecom remembers of a context: its namespace, its pins and the    *)
(* pane it was on (tui/panememory.go, tui/pin.go, tui/context.go,          *)
(* config/state.go, and the persister of cmd/kubecom/run.go).  The shell   *)
(* changes its own copy at once and hands the save to a command, which     *)
(* changes the persister's retained copy and rewrites the whole file.      *)
(* Commands run side by side, in any order, and nothing locks the copy.    *)
(*                                                                         *)
(* The sort column is a field saved the way the namespace is, and is left  *)
(* out; a field is read and written whole.                                 *)
(***************************************************************************)
EXTENDS Naturals, Sequences, FiniteSets

CONSTANTS
  Context, Namespace, Kind,
  Landing,      \* defaultLandingResource
  Extras,       \* the kinds the menu file lists, the same in every context
  Found,        \* the state files a first start may find
  Served,       \* the sets of kinds a discovery pass may report
  MaxActs,      \* bound: the reader's gestures
  MaxSaves,     \* bound: saves running when a gesture starts another
  MaxStarts     \* bound: starts of the program and switches of context

None      == "none"        \* no kind, and all namespaces
Malformed == [broken |-> TRUE]   \* a state file that does not parse
(* A pane is a kind and, when it was drilled into, the owner's kind.        *)
Pane   == [kind : Kind, owner : Kind \cup {None}]
NoPane == [kind |-> None, owner |-> None]
Plain(k) == [kind |-> k, owner |-> None]
State  == [ns : Namespace \cup {None}, pins : SUBSET Kind, pane : Pane \cup {NoPane}]
Zero   == [ns |-> None, pins |-> {}, pane |-> NoPane]

StoreAssumption ==
  /\ None \notin Kind \cup Namespace \cup Context /\ Landing \in Kind /\ Extras \subseteq Kind
  /\ Found \subseteq State \cup {Malformed} /\ Served \subseteq SUBSET Kind
  /\ MaxActs \in Nat /\ MaxSaves \in Nat /\ MaxStarts \in Nat

NoScope == [by |-> None, pane |-> NoPane]
Idle    == [ctx |-> None, doc |-> Zero, read |-> FALSE, mixed |-> FALSE]

VARIABLES
  disk,       \* the state file of each context
  retained,   \* the persisters made so far: the context and the retained state
  shell,      \* ctx, ns, pins, pane, last, by (who opened the pane), restore
  discovering,\* whether this cluster's discovery pass is out
  scope,      \* the children answer that childGen still lets in, or NoScope
  connecting, \* the switch that ctxGen still lets in, or Idle
  saves,      \* the persist commands not finished
  issued,     \* history: every field value saved or found, per context
  mixed,      \* history: two saves of the shell's context have overlapped
  failed,     \* history: the last save failed
  acts, starts

vars == <<disk, retained, shell, discovering, scope, connecting, saves, issued,
          mixed, failed, acts, starts>>

Fact == ({"ns"} \X (Namespace \cup {None})) \cup ({"pane"} \X Pane) \cup ({"pin", "unpin"} \X Kind)
Step == {"queued", "assign", "format", "rename"}
Load(d) == IF d = Malformed THEN Zero ELSE d
Facts(d) == {<<"ns", d.ns>>, <<"pane", d.pane>>} \cup {<<"pin", k>> : k \in d.pins}
Shell(c, d) == [ctx |-> c, ns |-> d.ns, pins |-> d.pins, pane |-> NoPane,
                last |-> d.pane, by |-> None, restore |-> TRUE]
Started(c, d) ==
  /\ shell' = Shell(c, d) /\ discovering' = TRUE /\ scope' = NoScope
  /\ issued' = [issued EXCEPT ![c] = @ \cup Facts(d)] /\ failed' = FALSE

SaveRec  == [n : Nat, per : DOMAIN retained, fact : Fact, pc : Step, seen : SUBSET Kind, doc : State]
ShellRec == [ctx : Context, ns : Namespace \cup {None}, pins : SUBSET Kind,
             pane : Pane \cup {NoPane}, last : Pane \cup {NoPane},
             by : {None, "reader", "restore"}, restore : BOOLEAN]
TypeOK ==
  /\ disk \in [Context -> State \cup {Malformed}]
  /\ retained \in Seq([ctx : Context, st : State]) /\ retained # <<>>
  /\ shell \in ShellRec
  /\ retained[Len(retained)].ctx = shell.ctx
  /\ scope = NoScope \/ scope \in [by : {"reader", "restore"}, pane : Pane]
  /\ connecting = Idle \/ connecting \in [ctx : Context, doc : State, read : BOOLEAN, mixed : BOOLEAN]
  /\ saves \subseteq SaveRec /\ DOMAIN issued = Context
  /\ mixed \in BOOLEAN /\ failed \in BOOLEAN /\ discovering \in BOOLEAN
  /\ acts \in 0 .. MaxActs /\ starts \in 0 .. MaxStarts

Init ==
  /\ disk \in [Context -> Found]
  /\ \E c \in Context : LET d == Load(disk[c]) IN
       /\ retained = <<[ctx |-> c, st |-> d]>> /\ shell = Shell(c, d)
  /\ discovering = TRUE /\ scope = NoScope /\ connecting = Idle /\ saves = {}
  /\ issued = [c \in Context |-> Facts(Load(disk[c]))]
  /\ mixed = FALSE /\ failed = FALSE /\ acts = 0 /\ starts = 0

------------------------------ (* the shell *) ------------------------------
Act == acts < MaxActs /\ Cardinality(saves) < MaxSaves /\ acts' = acts + 1

(* The persister is the one captured with the key press, whichever context  *)
(* the command runs under.                                                  *)
Save(f, v) == [n |-> acts, per |-> Len(retained), fact |-> <<f, v>>,
               pc |-> "queued", seen |-> {}, doc |-> Zero]
SameFile(c) == {s \in saves : retained[s.per].ctx = c}
Hand(new) ==
  /\ saves' = saves \cup new
  /\ mixed' = (mixed \/ Cardinality(SameFile(shell.ctx) \cup new) > 1)
  /\ issued' = [issued EXCEPT ![shell.ctx] = @ \cup
       {s.fact : s \in {t \in new : t.fact[1] # "unpin"}}]

(* recordResource: the pane is saved unless it is the one last saved.       *)
PaneSave(p) == IF p = shell.last THEN {} ELSE {Save("pane", p)}

(* watchResource, with the scope it was given.                              *)
Open(p, by) ==
  /\ shell' = [shell EXCEPT !.pane = p, !.last = p, !.by = by]
  /\ Hand(PaneSave(p))

PickKind(k) ==
  /\ Act /\ Open(Plain(k), "reader")
  /\ UNCHANGED <<disk, retained, discovering, scope, connecting, failed, starts>>

(* exitChildren                                                             *)
Back ==
  /\ shell.pane.owner # None /\ Act /\ Open(Plain(shell.pane.owner), "reader")
  /\ UNCHANGED <<disk, retained, discovering, scope, connecting, failed, starts>>

(* applyNamespaceValue: a narrowed pane loses its scope, which is a second  *)
(* save from the same key.                                                  *)
PickNamespace(ns) ==
  LET p == Plain(shell.pane.kind)
      again == shell.pane # NoPane
  IN /\ Act
     /\ shell' = IF again THEN [shell EXCEPT !.ns = ns, !.pane = p, !.last = p,
                                                             !.by = "reader"]
                          ELSE [shell EXCEPT !.ns = ns]
     /\ Hand({Save("ns", ns)} \cup IF again THEN PaneSave(p) ELSE {})
     /\ UNCHANGED <<disk, retained, discovering, scope, connecting, failed, starts>>

(* togglePin                                                                *)
TogglePin(k) ==
  LET pinned == k \in shell.pins
  IN /\ k \notin Extras /\ Act
     /\ shell' = [shell EXCEPT !.pins = IF pinned THEN @ \ {k} ELSE @ \cup {k}]
     /\ Hand({Save(IF pinned THEN "unpin" ELSE "pin", k)})
     /\ UNCHANGED <<disk, retained, discovering, scope, connecting, failed, starts>>

(* openChildren: a newer question replaces the one that is out.             *)
OpenChildren(k) ==
  /\ shell.pane # NoPane /\ k # shell.pane.kind /\ Act
  /\ scope' = [by |-> "reader", pane |-> [kind |-> k, owner |-> shell.pane.kind]]
  /\ UNCHANGED <<disk, retained, shell, discovering, connecting, saves, issued, mixed,
                 failed, starts>>

(* handleRestoreDrill: not over a pane the reader has opened by now.        *)
NeverOutranked(a) == FALSE   \* not the code
Outranked(a) == a.by = "restore" /\ shell.pane # NoPane

(* handleChildScope, handleRestoreDrill.  A remembered owner that is gone   *)
(* leaves the plain kind; a refused question of the reader's leaves things  *)
(* as they are.                                                             *)
ScopeAnswered(ok) ==
  /\ scope # NoScope /\ scope' = NoScope
  /\ IF Outranked(scope) \/ (~ok /\ scope.by = "reader")
       THEN UNCHANGED <<shell, saves, issued, mixed>>
       ELSE Open(IF ok THEN scope.pane ELSE Plain(scope.pane.kind), scope.by)
  /\ UNCHANGED <<disk, retained, discovering, connecting, failed, acts, starts>>

(* restoreLastResource: once per cluster, and not over the reader's pane.   *)
Restores(served) ==
  /\ shell.restore /\ shell.pane = NoPane
  /\ (IF shell.last = NoPane THEN Landing ELSE shell.last.kind) \in served
Discovered(served) ==
  LET p == IF shell.last = NoPane THEN Plain(Landing) ELSE shell.last
      done == [shell EXCEPT !.restore = FALSE]
  IN /\ discovering /\ discovering' = FALSE
     /\ CASE ~Restores(served) ->
               shell' = done /\ UNCHANGED <<scope, saves, issued, mixed>>
          [] Restores(served) /\ p.owner # None ->
               /\ shell' = done /\ scope' = [by |-> "restore", pane |-> p]
               /\ UNCHANGED <<saves, issued, mixed>>
          [] OTHER ->
               /\ shell' = [done EXCEPT !.pane = p, !.last = p, !.by = "restore"]
               /\ Hand(PaneSave(p)) /\ UNCHANGED scope
     /\ UNCHANGED <<disk, retained, connecting, failed, acts, starts>>

------------------------- (* switching, starting *) -------------------------
(* switchContext: naming the context the shell is on does nothing, to a     *)
(* switch under way either.                                                 *)
Switch(c) ==
  /\ c # shell.ctx /\ starts < MaxStarts /\ starts' = starts + 1
  /\ connecting' = [Idle EXCEPT !.ctx = c]
  /\ UNCHANGED <<disk, retained, shell, discovering, scope, saves, issued, mixed, failed, acts>>

(* LoadContextState, in the connect command: a persister of its own.        *)
ReadState ==
  /\ connecting # Idle /\ ~connecting.read
  /\ connecting' = [connecting EXCEPT !.read = TRUE, !.doc = Load(disk[connecting.ctx]),
                                      !.mixed = SameFile(connecting.ctx) # {}]
  /\ UNCHANGED <<disk, retained, shell, discovering, scope, saves, issued, mixed, failed,
                 acts, starts>>

ConnectFails ==
  /\ connecting # Idle /\ ~connecting.read /\ connecting' = Idle
  /\ UNCHANGED <<disk, retained, shell, discovering, scope, saves, issued, mixed, failed,
                 acts, starts>>

(* handleClusterConnected                                                   *)
Connected ==
  /\ connecting.read
  /\ retained' = Append(retained, [ctx |-> connecting.ctx, st |-> connecting.doc])
  /\ Started(connecting.ctx, connecting.doc)
  /\ mixed' = connecting.mixed /\ connecting' = Idle
  /\ UNCHANGED <<disk, saves, acts, starts>>

(* The program ends at any moment and starts again: what was not renamed    *)
(* into place is lost.  The starting shell reads the file first.            *)
Restart(c) ==
  LET d == Load(disk[c])
  IN /\ starts < MaxStarts /\ starts' = starts + 1
     /\ retained' = <<[ctx |-> c, st |-> d]>> /\ Started(c, d)
     /\ saves' = {} /\ connecting' = Idle /\ mixed' = FALSE
     /\ UNCHANGED <<disk, acts>>

---------------------------- (* the commands *) ----------------------------
To(s, pc) == saves' = (saves \ {s}) \cup {[s EXCEPT !.pc = pc]}

(* State.Pin and State.Unpin look at the list before they replace it, and a *)
(* list that already says so is not written.                                *)
Look(s) ==
  LET pins == retained[s.per].st.pins
      said == (s.fact[2] \in pins) = (s.fact[1] = "pin")
  IN /\ s.pc = "queued" /\ s.fact[1] \in {"pin", "unpin"}
     /\ saves' = (saves \ {s}) \cup
          IF said THEN {} ELSE {[s EXCEPT !.pc = "assign", !.seen = pins]}
     /\ UNCHANGED <<disk, retained, shell, discovering, scope, connecting, issued, mixed,
                    failed, acts, starts>>

Changed(st, s) ==
  CASE s.fact[1] = "ns"    -> [st EXCEPT !.ns = s.fact[2]]
    [] s.fact[1] = "pane"  -> [st EXCEPT !.pane = s.fact[2]]
    [] s.fact[1] = "pin"   -> [st EXCEPT !.pins = s.seen \cup {s.fact[2]}]
    [] s.fact[1] = "unpin" -> [st EXCEPT !.pins = s.seen \ {s.fact[2]}]
Assign(s) ==
  /\ s.pc = IF s.fact[1] \in {"ns", "pane"} THEN "queued" ELSE "assign"
  /\ retained' = [retained EXCEPT ![s.per].st = Changed(@, s)]
  /\ To(s, "format")
  /\ UNCHANGED <<disk, shell, discovering, scope, connecting, issued, mixed, failed, acts, starts>>

(* SaveFile: State.Document ...                                             *)
FormatAlone(s) ==   \* not the code: the change is written without the others before it
  /\ s.pc = "format"
  /\ saves' = (saves \ {s}) \cup {[s EXCEPT !.pc = "rename", !.doc = Changed(Zero, s)]}
  /\ UNCHANGED <<disk, retained, shell, discovering, scope, connecting, issued, mixed, failed,
                 acts, starts>>
Format(s) ==
  /\ s.pc = "format"
  /\ saves' = (saves \ {s}) \cup {[s EXCEPT !.pc = "rename", !.doc = retained[s.per].st]}
  /\ UNCHANGED <<disk, retained, shell, discovering, scope, connecting, issued, mixed, failed,
                 acts, starts>>

(* ... and atomicWriteFile: a temporary file renamed over the old one.      *)
Rename(s) ==
  /\ s.pc = "rename" /\ saves' = saves \ {s}
  /\ disk' = [disk EXCEPT ![retained[s.per].ctx] = s.doc]
  /\ failed' = (failed /\ s.per # Len(retained))
  /\ UNCHANGED <<retained, shell, discovering, scope, connecting, issued, mixed, acts, starts>>

SaveFails(s) ==
  /\ s.pc = "rename" /\ saves' = saves \ {s}
  /\ failed' = (failed \/ s.per = Len(retained))
  /\ UNCHANGED <<disk, retained, shell, discovering, scope, connecting, issued, mixed, acts, starts>>

Next ==
  \/ \E k \in Kind : PickKind(k) \/ TogglePin(k) \/ OpenChildren(k)
  \/ \E ns \in Namespace \cup {None} : PickNamespace(ns)
  \/ Back \/ ReadState \/ ConnectFails \/ Connected
  \/ \E ok \in BOOLEAN : ScopeAnswered(ok)
  \/ \E served \in Served : Discovered(served)
  \/ \E c \in Context : Switch(c) \/ Restart(c)
  \/ \E s \in saves : Look(s) \/ Assign(s) \/ Format(s) \/ Rename(s) \/ SaveFails(s)

Spec == Init /\ [][Next]_vars

----------------------------- (* properties *) -----------------------------
(* A context's file holds only what was chosen on that context: a save      *)
(* still running when the context changes does not write the new one's      *)
(* file, nor the new one's values into the old.                             *)
PicksStayHome ==
  \A c \in Context : Facts(Load(disk[c])) \subseteq issued[c] \cup Facts(Zero)

(* With nothing being saved, the file of the shell's context is what the    *)
(* shell shows: a pin, a namespace and a pane carry each other, a save that *)
(* failed is made up by the next, and what is restored is not lost.  But    *)
(* only if no two saves of one file overlapped.                             *)
Agrees == LET d == Load(disk[shell.ctx])
          IN d.ns = shell.ns /\ d.pins = shell.pins /\ d.pane = shell.last
SavesCarryOneAnother == SameFile(shell.ctx) = {} /\ ~mixed /\ ~failed => Agrees

(* Why picks stay home: what a save was handed, has seen or will write, and *)
(* what the persister it writes for retains, was chosen on its context.     *)
Home(d, c) == Facts(d) \subseteq issued[c] \cup Facts(Zero)
Origins ==
  /\ \A i \in DOMAIN retained : Home(retained[i].st, retained[i].ctx)
  /\ \A s \in saves : LET c == retained[s.per].ctx IN
       /\ s.fact[1] # "unpin" => s.fact \in issued[c]
       /\ \A k \in s.seen : <<"pin", k>> \in issued[c]
       /\ Home(s.doc, c)

(* Why saves carry one another: while none has overlapped, at most one is   *)
(* under way, for the shell's own persister; until it changes the retained  *)
(* copy that is one change behind what the shell shows, and from then on    *)
(* the same.  The copy is what the file says, once nothing is to be written *)
(* and nothing failed.                                                      *)
Now == [ns |-> shell.ns, pins |-> shell.pins, pane |-> shell.last]
Held == retained[Len(retained)].st
Written == failed \/ Load(disk[shell.ctx]) = Held
OneAtATime ==
  \/ SameFile(shell.ctx) = {} /\ Held = Now /\ Written
  \/ \E s \in saves :
       /\ SameFile(shell.ctx) = {s} /\ s.per = Len(retained)
       /\ \/ s.pc = "queued" /\ Now = Changed(Held, [s EXCEPT !.seen = Held.pins]) /\ Written
          \/ s.pc = "assign" /\ Now = Changed(Held, s) /\ s.seen = Held.pins /\ Written
          \/ s.pc = "format" /\ Held = Now
          \/ s.pc = "rename" /\ Held = Now /\ s.doc = Now

(* A context that is being connected to is not the shell's, and if nothing  *)
(* was being saved there when its file was read, nothing is since.          *)
Reread ==
  connecting # Idle =>
    /\ connecting.ctx # shell.ctx
    /\ connecting.read /\ ~connecting.mixed =>
         SameFile(connecting.ctx) = {} /\ connecting.doc = Load(disk[connecting.ctx])

Sound ==
  /\ IsFiniteSet(saves) /\ PicksStayHome /\ Origins
  /\ ~mixed => OneAtATime
  /\ Reread
Inv == TypeOK /\ Sound

(* What statePersister's comment promises without that condition.           *)
NothingIsReverted == SameFile(shell.ctx) = {} /\ ~failed => Agrees

(* The remembered pane never takes the place of one the reader opened: not  *)
(* when discovery is slow, not when the remembered owner is slow to answer. *)
Yields == shell'.by = "restore" /\ shell'.pane # shell.pane => shell.pane = NoPane
MemoryYields == [][Yields]_vars

(* handleChildScope's "the reader has moved on": an answer is for the pane  *)
(* it was asked from.                                                       *)
ScopeNeverYanks ==
  [][(\E ok \in BOOLEAN : ScopeAnswered(ok)) /\ scope.by = "reader" /\ shell' # shell
       => shell.pane.kind = scope.pane.owner]_vars
=============================================================================
