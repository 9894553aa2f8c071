------------------------------ MODULE Forwards ------------------------------
(***************************************************************************)
(* Port-forwards: the handle's two goroutines (kube/portforward.go), the   *)
(* commands that wait on its channels, the shell's list of forwards        *)
(* (tui/app.go) and the panel over it (components/forwards).  A handle is  *)
(* named by the order of its start, which is also its entry's id.          *)
(***************************************************************************)
EXTENDS Naturals, Sequences, SequencesExt

CONSTANTS MaxForwards   \* bound: forwards started
ForwardsAssumption == MaxForwards \in Nat

VARIABLES
  handle,    \* each handle's forwarder and channels
  forwards,  \* the entries listed, oldest first
  ready,     \* those marked ready
  waits,     \* commands waiting on a handle: for either channel, or for its end
  inbox,     \* their messages on the way
  panel,
  told,      \* history: how often each forward's end was reported
  dismissed  \* history: stopped together, by the reader or a context switch

vars == <<handle, forwards, ready, waits, inbox, panel, told, dismissed>>

Id == 1 .. MaxForwards
Handle == [run : {"unused", "dialing", "up", "ended"}, readyCh : BOOLEAN,
           cancelled : BOOLEAN, stopCh : BOOLEAN, err : BOOLEAN]
Wait == [id : Id, for : {"either", "done"}]
Message == [type : {"ready"}, id : Id] \cup [type : {"done"}, id : Id, err : BOOLEAN]

TypeOK ==
  /\ handle \in [Id -> Handle] /\ forwards \in Seq(Id) /\ ready \subseteq Range(forwards)
  /\ waits \subseteq Wait /\ inbox \subseteq Message
  /\ panel \in [open : BOOLEAN, sel : Nat] /\ told \in [Id -> Nat] /\ dismissed \subseteq Id

Init ==
  /\ handle = [i \in Id |-> [run |-> "unused", readyCh |-> FALSE, cancelled |-> FALSE,
                             stopCh |-> FALSE, err |-> FALSE]]
  /\ forwards = <<>> /\ ready = {} /\ waits = {} /\ inbox = {}
  /\ panel = [open |-> FALSE, sel |-> 0] /\ told = [i \in Id |-> 0] /\ dismissed = {}

----------------------- (* newPortForward's goroutines *) ------------------
Runs(i) == handle[i].run \in {"dialing", "up"}
To(i, run, err) ==
  /\ handle' = [handle EXCEPT ![i].run = run, ![i].err = err, ![i].readyCh = @ \/ run = "up"]
  /\ UNCHANGED <<forwards, ready, waits, inbox, panel, told, dismissed>>

(* client-go's forwarder looks at the stop channel once its listeners are up. *)
Dial(i) == handle[i].run = "dialing" /\ (To(i, "up", FALSE) \/ To(i, "ended", TRUE))
Lose(i) == handle[i].run = "up" /\ To(i, "ended", TRUE)
Stopped(i) == handle[i].run = "up" /\ handle[i].stopCh /\ To(i, "ended", FALSE)

(* The second goroutine turns the context's end into Stop.                  *)
Bridge(i) ==
  /\ Runs(i) /\ handle[i].cancelled /\ ~handle[i].stopCh
  /\ handle' = [handle EXCEPT ![i].stopCh = TRUE]
  /\ UNCHANGED <<forwards, ready, waits, inbox, panel, told, dismissed>>

------------------------- (* waitForward, waitForwardDone *) ---------------
Fire(w, m) ==
  /\ waits' = waits \ {w} /\ inbox' = inbox \cup {m}
  /\ UNCHANGED <<handle, forwards, ready, panel, told, dismissed>>
SeeReady(w) == w.for = "either" /\ handle[w.id].readyCh /\ Fire(w, [type |-> "ready", id |-> w.id])
SeeDone(w) ==
  /\ handle[w.id].run = "ended"
  /\ Fire(w, [type |-> "done", id |-> w.id, err |-> handle[w.id].err])

------------------------------ (* the shell *) ------------------------------
Listed(i) == i \in Range(forwards)
Clamped(sel, n) == IF n = 0 THEN 0 ELSE IF sel >= n THEN n - 1 ELSE sel
(* As if an entry were only taken off the list: not the code.               *)
CancelledNone(ids) == handle
Cancelled(ids) == [i \in Id |-> [handle[i] EXCEPT !.cancelled = @ \/ i \in ids]]

(* runPortForward; a value without a port, or a spec the forwarder refuses, *)
(* starts nothing.                                                          *)
RunPortForward ==
  \E i \in Id :
    /\ handle[i].run = "unused" /\ \A j \in 1 .. (i - 1) : handle[j].run # "unused"
    /\ handle' = [handle EXCEPT ![i].run = "dialing"]
    /\ forwards' = Append(forwards, i) /\ waits' = waits \cup {[id |-> i, for |-> "either"]}
    /\ UNCHANGED <<ready, inbox, panel, told, dismissed>>

HandleForwardReady(m) ==
  /\ m.type = "ready" /\ inbox' = inbox \ {m}
  /\ IF Listed(m.id)
     THEN ready' = ready \cup {m.id} /\ waits' = waits \cup {[id |-> m.id, for |-> "done"]}
     ELSE UNCHANGED <<ready, waits>>
  /\ UNCHANGED <<handle, forwards, panel, told, dismissed>>

(* An id is listed once, so one entry goes.                                 *)
RemoveForward(i) == RemoveAt(forwards, CHOOSE n \in DOMAIN forwards : forwards[n] = i)
HandleForwardDone(m) ==
  /\ m.type = "done" /\ inbox' = inbox \ {m}
  /\ IF Listed(m.id)
     THEN /\ handle' = Cancelled({m.id}) /\ forwards' = RemoveForward(m.id) /\ ready' = ready \ {m.id}
          /\ panel' = [panel EXCEPT !.sel = Clamped(@, Len(forwards'))]
          /\ told' = [told EXCEPT ![m.id] = @ + 1]
     ELSE UNCHANGED <<handle, forwards, ready, panel, told>>
  /\ UNCHANGED <<waits, dismissed>>

StopForwards ==
  /\ handle' = Cancelled(Range(forwards)) /\ forwards' = <<>> /\ ready' = {}
  /\ dismissed' = dismissed \cup Range(forwards)
  /\ UNCHANGED <<waits, inbox, told>>

OpenForwardsPanel ==
  /\ ~panel.open /\ panel' = [open |-> TRUE, sel |-> Clamped(panel.sel, Len(forwards))]
  /\ UNCHANGED <<handle, forwards, ready, waits, inbox, told, dismissed>>
ClosePanel ==
  /\ panel.open /\ panel' = [panel EXCEPT !.open = FALSE]
  /\ UNCHANGED <<handle, forwards, ready, waits, inbox, told, dismissed>>
Move(to) ==
  /\ panel.open /\ panel' = [panel EXCEPT !.sel = Clamped(to, Len(forwards))]
  /\ to \in {panel.sel + 1, IF panel.sel = 0 THEN 0 ELSE panel.sel - 1}
  /\ UNCHANGED <<handle, forwards, ready, waits, inbox, told, dismissed>>
(* Enter: the entry goes when the end it asked for is reported.             *)
StopSelected ==
  /\ panel.open /\ panel.sel < Len(forwards)
  /\ handle' = Cancelled({forwards[panel.sel + 1]})
  /\ UNCHANGED <<forwards, ready, waits, inbox, panel, told, dismissed>>
StopAll ==
  /\ panel.open /\ forwards # <<>> /\ StopForwards /\ panel' = [panel EXCEPT !.sel = Clamped(@, 0)]
SwitchContext == StopForwards /\ panel' = [open |-> FALSE, sel |-> 0]

Goroutine(i) == Dial(i) \/ Lose(i) \/ Stopped(i) \/ Bridge(i)
Command == \E w \in waits : SeeReady(w) \/ SeeDone(w)
HandleMessage == \E m \in inbox : HandleForwardReady(m) \/ HandleForwardDone(m)
Key == \/ RunPortForward \/ OpenForwardsPanel \/ ClosePanel \/ StopSelected \/ StopAll \/ SwitchContext
       \/ \E to \in 0 .. MaxForwards : Move(to)
Next == Key \/ HandleMessage \/ Command \/ \E i \in Id : Goroutine(i)

(* The dial comes to an end, the goroutines and commands run and the shell  *)
(* handles what they send; no connection need ever be lost, no key pressed. *)
Steps(i) == Dial(i) \/ Stopped(i) \/ Bridge(i)
Fairness == (\A i \in Id : WF_vars(Steps(i))) /\ WF_vars(Command) /\ WF_vars(HandleMessage)
Spec == Init /\ [][Next]_vars /\ Fairness
----------------------------- (* properties *) -----------------------------
(* Every forward is accounted for, in whatever order its two channels, its  *)
(* messages and the reader's stops fall (waitForward, handleForwardReady,   *)
(* stopForwards): one that still runs is listed or was told to stop, one    *)
(* that is listed has one command or message that will remove it, and its   *)
(* end is reported once, or not at all if all were stopped together.        *)
Commands(i) == {w \in waits : w.id = i}
Reports(i)  == {m \in inbox : m.id = i}
Watchers(i) == Commands(i) \cup Reports(i)
ForwardsAreAccountedFor ==
  \A i \in Id :
    /\ Runs(i) => Listed(i) \/ handle[i].cancelled
    /\ Listed(i) => \E w \in Watchers(i) : Watchers(i) = {w}
    /\ told[i] <= 1 /\ (told[i] = 1 => ~Listed(i) /\ i \notin dismissed)
    /\ i \in ready => handle[i].readyCh

(* The panel's cursor stays on an entry, though entries go while it is open *)
(* or closed (handleForwardDone's Clamp).                                   *)
CursorStaysOnTheList == panel.sel < Len(forwards) \/ panel.sel = 0

(* A forward told to stop leaves the list, and its goroutines end.          *)
ToldToStop(i) == handle[i].cancelled
Gone(i) == handle[i].run = "ended" /\ ~Listed(i)
StoppedForwardsEnd == \A i \in Id : ToldToStop(i) ~> Gone(i)

(* Why: a forward is listed once, from its start to its first end, and its  *)
(* watcher is a command or a message; a forward not started has none.       *)
ListedOnce == \A n, k \in DOMAIN forwards : forwards[n] = forwards[k] => n = k
OneWatcher(i) ==
  \/ Reports(i) = {} /\ \E w \in waits : Commands(i) = {w}
  \/ Commands(i) = {} /\ \E m \in inbox : Reports(i) = {m}
Fresh(i) == Watchers(i) = {} /\ told[i] = 0 /\ ~Listed(i) /\ i \notin dismissed
Inv ==
  /\ TypeOK /\ CursorStaysOnTheList /\ ListedOnce
  /\ \A i \in Id :
       /\ handle[i].run = "unused" => Fresh(i)
       /\ Runs(i) => Listed(i) \/ handle[i].cancelled
       /\ Listed(i) => OneWatcher(i) /\ told[i] = 0 /\ i \notin dismissed
       /\ told[i] <= 1 /\ (told[i] = 1 => i \notin dismissed)
       /\ i \in ready => handle[i].readyCh
       /\ \A m \in Reports(i) : m.type = "ready" => handle[i].readyCh
=============================================================================
