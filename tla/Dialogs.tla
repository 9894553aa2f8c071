------------------------------ MODULE Dialogs ------------------------------
(***************************************************************************)
(* The dialogs that stand between a key and a write (tui/app.go,           *)
(* tui/ports.go, components/modal).  A dialog names its object on screen,  *)
(* but what accepting it acts on is read from a slot of the shell:         *)
(* deleteRef, drainRef, or mutateRef, which scale, rollout restart and     *)
(* port-forward share.  A key is one message, what it brings about         *)
(* another; and a port-forward opens its dialog when an answer arrives,    *)
(* over whatever is up by then.                                            *)
(*                                                                         *)
(* One cluster only: what a context switch does to dialogs is in Session.  *)
(***************************************************************************)
EXTENDS Integers, FiniteSets, Bags

CONSTANTS
  Workload, PodName, Service, NodeName,   \* the objects of each kind
  Verb,         \* the row actions the reader uses
  MaxAsks,      \* bound: row actions asked for
  MaxInbox      \* bound: messages in flight at a time

None   == "none"
Object == Workload \cup PodName \cup Service \cup NodeName

ObjectAssumption ==
  /\ None \notin Object
  /\ (Workload \cup NodeName) \cap (PodName \cup Service) = {}
  /\ PodName \cap Service = {} /\ Workload \cap NodeName = {}
VerbAssumption ==
  Verb \subseteq {"delete", "drain", "scale", "restart", "forward"}
DialogBoundAssumption == MaxAsks \in Nat /\ MaxInbox \in Nat

(* rowActionApplies                                                         *)
Applies(v) == CASE v = "delete"  -> Object
                [] v = "drain"   -> NodeName
                [] v = "forward" -> PodName \cup Service
                [] OTHER         -> Workload

(* "local" is the prompt for a local port that the port picker leads to.    *)
ModalKind == {"delete", "drain", "scale", "restart", "forward", "local"}

VARIABLES
  modal,     \* the dialog that is up and the object it names, or Hidden
  portPicker,\* whether the port picker is up
  pfPorts,   \* whose ports it lists
  pfPort,    \* whose port the local-port prompt is about
  stash,     \* deleteRef, drainRef, mutateRef
  pfGen,     \* pfResolveGen
  inbox,     \* messages in flight, a bag: nothing keeps them in order
  done,      \* history: the last write, and the object named to its reader
  asks,      \* history: the row actions asked for
  asked,     \* their number
  overtaken  \* history: a key or an answer came between a key and its effect

history == <<asks, asked>>
vars == <<modal, portPicker, pfPorts, pfPort, stash, pfGen, inbox, done, history,
          overtaken>>

Dialog == [kind : ModalKind, obj : Object]
Hidden == [kind |-> None, obj |-> None]
Write  == [act : ModalKind, obj : Object, named : Object]
Undone == [act |-> None, obj |-> None, named |-> None]
Ask    == [act : Verb, obj : Object]

(* What a key brings about: a row action, a dialog accepted or declined, a  *)
(* port picked or the picker cancelled.  "named" is the object the reader   *)
(* saw, which the code's message does not carry.                            *)
RowActionMsg(v, o)  == [type |-> "row", act |-> v, obj |-> o]
ConfirmedMsg(k, o)  == [type |-> "confirmed", kind |-> k, named |-> o]
CancelledMsg        == [type |-> "cancelled"]
PortSelectedMsg(o)  == [type |-> "port", named |-> o]
PickerCancelledMsg  == [type |-> "pickerCancelled"]
(* What a request brings about.                                             *)
ServiceResolvedMsg(g, p) == [type |-> "service", gen |-> g, obj |-> p]
PortsLoadedMsg(g, p)     == [type |-> "ports", gen |-> g, obj |-> p]

Answers  == {"service", "ports"}
Bagged(B, m)   == B (+) SetToBag({m})
Unbagged(B, m) == B (-) SetToBag({m})
InFlight      == BagCardinality(inbox)
KeyInFlight   == \E m \in BagToSet(inbox) : m.type \notin Answers

Overtake      == overtaken' = (overtaken \/ KeyInFlight)

(* ConfirmedMsg carries the dialog's kind alone; the kind picks the slot.   *)
SlotsApart(k) == CASE k = "delete" -> "deleteRef"
                   [] k = "drain"  -> "drainRef"
                   [] OTHER        -> "mutateRef"
SlotShared(k) == IF k = "drain" THEN "drainRef" ELSE "mutateRef"
Slot(k)       == SlotsApart(k)

Message ==
  {RowActionMsg(a.act, a.obj) : a \in Ask}
  \cup {ConfirmedMsg(d.kind, d.obj) : d \in Dialog} \cup {CancelledMsg, PickerCancelledMsg}
  \cup {PortSelectedMsg(o) : o \in Object}
  \cup [type : Answers, gen : Nat, obj : Object]

TypeOK ==
  /\ modal \in Dialog \cup {Hidden}
  /\ portPicker \in BOOLEAN
  /\ {pfPorts, pfPort} \subseteq Object \cup {None}
  /\ stash \in [{"deleteRef", "drainRef", "mutateRef"} -> Object \cup {None}]
  /\ pfGen \in Nat
  /\ IsABag(inbox) /\ BagToSet(inbox) \subseteq Message
  /\ done \in Write \cup {Undone}
  /\ asks \subseteq Ask
  /\ asked \in 0..MaxAsks
  /\ overtaken \in BOOLEAN
  /\ modal # Hidden => stash[Slot(modal.kind)] # None

Init ==
  /\ modal = Hidden
  /\ portPicker = FALSE
  /\ pfPorts = None
  /\ pfPort = None
  /\ stash = [s \in {"deleteRef", "drainRef", "mutateRef"} |-> None]
  /\ pfGen = 0
  /\ inbox = EmptyBag
  /\ done = Undone
  /\ asks = {}
  /\ asked = 0
  /\ overtaken = FALSE

-----------------------------------------------------------------------------
(* Keys.  The picker takes them first, then the dialog, then the table.     *)

Key(m) ==
  /\ InFlight < MaxInbox
  /\ inbox' = Bagged(inbox, m)
  /\ Overtake

(* dispatchRowAction, from the table's keys or the palette.                 *)
AskFor(v, o) ==
  /\ ~portPicker /\ modal = Hidden
  /\ asked < MaxAsks
  /\ o \in Applies(v)
  /\ Key(RowActionMsg(v, o))
  /\ asked' = asked + 1
  /\ asks' = asks \cup {[act |-> v, obj |-> o]}
  /\ UNCHANGED <<modal, portPicker, pfPorts, pfPort, stash, pfGen, done>>

(* Enter and Esc only post what they mean: the dialog stays up until that   *)
(* message is handled.                                                      *)
Answer ==
  /\ ~portPicker /\ modal # Hidden
  /\ Key(ConfirmedMsg(modal.kind, modal.obj)) \/ Key(CancelledMsg)
  /\ UNCHANGED <<modal, portPicker, pfPorts, pfPort, stash, pfGen, done, history>>

(* Quit hides it at once.                                                   *)
Quit ==
  /\ ~portPicker /\ modal # Hidden
  /\ modal' = Hidden
  /\ Overtake
  /\ UNCHANGED <<portPicker, pfPorts, pfPort, stash, pfGen, inbox, done, history>>

PickPort ==
  /\ portPicker
  /\ Key(PortSelectedMsg(pfPorts)) \/ Key(PickerCancelledMsg)
  /\ UNCHANGED <<modal, portPicker, pfPorts, pfPort, stash, pfGen, done, history>>

Show(k, o) == modal' = [kind |-> k, obj |-> o]
Run(k, o)  ==
  LET ref == stash[Slot(k)]
  IN done' = IF ref = None THEN done ELSE [act |-> k, obj |-> ref, named |-> o]

(* forwardOnFreeLocalPort runs the forward, promptLocalPort asks for the    *)
(* local port: both without a message in between.                           *)
ForwardFree ==
  /\ portPicker
  /\ portPicker' = FALSE
  /\ Run("forward", pfPorts)
  /\ Overtake
  /\ UNCHANGED <<modal, pfPorts, pfPort, stash, pfGen, inbox, history>>

PromptLocal ==
  /\ portPicker
  /\ portPicker' = FALSE
  /\ pfPort' = pfPorts
  /\ Show("local", pfPorts)
  /\ Overtake
  /\ UNCHANGED <<pfPorts, stash, pfGen, inbox, done, history>>

-----------------------------------------------------------------------------
(* Messages                                                                 *)

Take(m)    == BagIn(m, inbox) /\ inbox' = Unbagged(inbox, m)
Swap(m, n) == BagIn(m, inbox) /\ inbox' = Bagged(Unbagged(inbox, m), n)

(* A dialog is shown and its target stashed.                                *)
Open(k, o) == Show(k, o) /\ stash' = [stash EXCEPT ![Slot(k)] = o]

(* resolvePortsFor and the service's resolve: a request goes out under a    *)
(* new generation.                                                          *)
Request(m, n) == pfGen' = pfGen + 1 /\ Swap(m, n)

HandleRowAction(m) ==
  /\ m.type = "row"
  /\ \/ /\ m.act # "forward"
        /\ Open(m.act, m.obj)
        /\ Take(m) /\ UNCHANGED pfGen
     \/ /\ m.act = "forward" /\ m.obj \in PodName
        /\ Request(m, PortsLoadedMsg(pfGen + 1, m.obj))
        /\ UNCHANGED <<modal, stash>>
     \/ /\ m.act = "forward" /\ m.obj \in Service
        /\ \E p \in PodName : Request(m, ServiceResolvedMsg(pfGen + 1, p))
        /\ UNCHANGED <<modal, stash>>
  /\ UNCHANGED <<portPicker, pfPorts, pfPort, done, history, overtaken>>

(* Only the newest port-forward request is answered; and every one is.      *)
AnyAnswer(m) == TRUE
Newest(m)    == m.gen = pfGen

HandleServiceResolved(m) ==
  /\ m.type = "service"
  /\ \/ Newest(m) /\ Request(m, PortsLoadedMsg(pfGen + 1, m.obj))
     \/ Take(m) /\ UNCHANGED pfGen      \* superseded, or it failed
  /\ Overtake
  /\ UNCHANGED <<modal, portPicker, pfPorts, pfPort, stash, done, history>>

(* Ports open the picker; none, or a failure, the free-text prompt.         *)
HandlePortsLoaded(m) ==
  /\ m.type = "ports"
  /\ Take(m)
  /\ IF ~Newest(m)
     THEN UNCHANGED <<modal, portPicker, pfPorts, stash>>
     ELSE \/ Open("forward", m.obj) /\ UNCHANGED <<portPicker, pfPorts>>
          \/ /\ portPicker' = TRUE
             /\ pfPorts' = m.obj
             /\ stash' = [stash EXCEPT ![Slot("forward")] = m.obj]
             /\ UNCHANGED modal
  /\ Overtake
  /\ UNCHANGED <<pfPort, pfGen, done, history>>

(* A label the list has lost since it was picked ends in the prompt.        *)
HandlePortSelected(m) ==
  /\ m.type = "port"
  /\ Take(m)
  /\ portPicker' = FALSE
  /\ \/ Run("forward", m.named) /\ UNCHANGED <<modal, stash>>
     \/ /\ m.named # pfPorts
        /\ stash[Slot("forward")] # None
        /\ Open("forward", stash[Slot("forward")])
        /\ UNCHANGED done
  /\ UNCHANGED <<pfPorts, pfPort, pfGen, history, overtaken>>

HandlePickerCancelled(m) ==
  /\ m.type = "pickerCancelled"
  /\ Take(m)
  /\ portPicker' = FALSE
  /\ UNCHANGED <<modal, pfPorts, pfPort, stash, pfGen, done, history, overtaken>>

(* The dialog is hidden, whichever it is by now, and the write of the kind  *)
(* confirmed goes out; unless what was typed does not parse.                *)
HandleModalConfirmed(m) ==
  /\ m.type = "confirmed"
  /\ Take(m)
  /\ modal' = Hidden
  /\ \/ Run(m.kind, m.named)
     \/ m.kind \in {"scale", "forward", "local"} /\ UNCHANGED done
  /\ UNCHANGED <<portPicker, pfPorts, pfPort, stash, pfGen, history, overtaken>>

HandleModalCancelled(m) ==
  /\ m.type = "cancelled"
  /\ Take(m)
  /\ modal' = Hidden
  /\ UNCHANGED <<portPicker, pfPorts, pfPort, stash, pfGen, done, history, overtaken>>

-----------------------------------------------------------------------------
Handle(m) ==
  \/ HandleRowAction(m) \/ HandleServiceResolved(m) \/ HandlePortsLoaded(m)
  \/ HandlePortSelected(m) \/ HandlePickerCancelled(m)
  \/ HandleModalConfirmed(m) \/ HandleModalCancelled(m)

Next ==
  \/ \E v \in Verb, o \in Object : AskFor(v, o)
  \/ Answer \/ Quit \/ PickPort \/ ForwardFree \/ PromptLocal
  \/ \E m \in BagToSet(inbox) : Handle(m)

Spec == Init /\ [][Next]_vars

-----------------------------------------------------------------------------
Acts(K) == done.act \in K /\ done.obj # done.named

(* What the reader accepted in a delete or drain dialog, and what was       *)
(* picked or typed for a port-forward, is done to the object named there;   *)
(* provided each key has its effect before anything else happens.           *)
ActsOnWhatWasNamed ==
  overtaken \/ ~Acts({"delete", "drain", "forward", "local"})

(* However fast the keys: what is deleted or drained is something the       *)
(* reader asked to delete or drain at some time.                            *)
OnlyWhatWasAskedFor ==
  done.act \in {"delete", "drain"} =>
    [act |-> done.act, obj |-> done.obj] \in asks

(* mutateRef's comment: one slot serves scale, rollout restart and          *)
(* port-forward "because only one modal is ever up at a time".              *)
ScalesWhatWasNamed == overtaken \/ ~Acts({"scale", "restart"})

----------------------- (* the inductive invariant *) ----------------------
(* A row action on its way, and what the slots of a delete and a drain      *)
(* hold, was asked for; and the port picker is of some object.              *)
Asked(v, o) == [act |-> v, obj |-> o] \in asks
Sources ==
  /\ \A m \in BagToSet(inbox) : m.type = "row" => Asked(m.act, m.obj)
  /\ stash["deleteRef"] # None => Asked("delete", stash["deleteRef"])
  /\ stash["drainRef"]  # None => Asked("drain", stash["drainRef"])
  /\ portPicker => pfPorts # None /\ stash["mutateRef"] # None

(* A dialog's slot holds what the dialog names; the slot that is shared     *)
(* does so for a port-forward, as long as no key was overtaken.             *)
Forwarding == {"forward", "local"}
SlotIsNamed ==
  /\ modal.kind = "delete" => stash["deleteRef"] = modal.obj
  /\ modal.kind = "drain"  => stash["drainRef"] = modal.obj
  /\ ~overtaken /\ modal.kind \in Forwarding => stash["mutateRef"] = modal.obj
  /\ ~overtaken /\ portPicker => stash["mutateRef"] = pfPorts

(* At most one answer on its way is of the newest request, and none while   *)
(* one is shown.                                                            *)
OneAnswer ==
  \A m \in BagToSet(inbox) : m.type \in Answers =>
    /\ m.gen <= pfGen /\ inbox[m] = 1
    /\ m.gen = pfGen =>
         /\ \A n \in BagToSet(inbox) : n.type \in Answers /\ n.gen = pfGen => n = m
         /\ ~overtaken => ~portPicker /\ modal.kind \notin Forwarding

(* A key that nothing overtook is the only one on its way, and what it was  *)
(* pressed on is still up.                                                  *)
OneKey ==
  ~overtaken => \A m \in BagToSet(inbox) : m.type \notin Answers =>
    /\ inbox[m] = 1
    /\ \A n \in BagToSet(inbox) : n.type \notin Answers => n = m
    /\ m.type = "row"       => modal = Hidden /\ ~portPicker
    /\ m.type = "confirmed" => modal = [kind |-> m.kind, obj |-> m.named] /\ ~portPicker
    /\ m.type = "port"      => portPicker /\ m.named = pfPorts

Inv == TypeOK /\ Sources /\ SlotIsNamed /\ OneAnswer /\ OneKey
       /\ OnlyWhatWasAskedFor /\ ActsOnWhatWasNamed
=============================================================================
